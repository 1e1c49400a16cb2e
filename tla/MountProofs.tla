---------------------------- MODULE MountProofs -----------------------------
(***************************************************************************)
(* Three facts about the container's file systems, for any list of --mount *)
(* arguments, any host and any device nodes: with --ephemeral the real     *)
(* root stays as it is; the system's mounts are seen at their places; and  *)
(* the user's are.                                                         *)
(***************************************************************************)
EXTENDS Mount, Integers, SequenceTheorems, WellFoundedInduction, TLAPS

Names  == STRING \cup {"proc", "sys", "fs", "cgroup", "dev", "pts", "shm", "run", "ptmx",
                       "console", "0"}
Paths  == Seq(Names)
Hows   == {"new", "bind", "remount", "overlay"}
Types  == {"user", "ephemeral", "proc", "procsys", "sysfs", "dev", "pts", "shm", "run", "cgroup"}
FsType == (Types \cup {"host"}) \X Nat

EntryType == [how : Hows, type : Types, src : Paths, dst : Paths, ro : BOOLEAN]
MountType == [type : Types \cup {"host", "node", "console"}, dst : Paths, fs : FsType,
              base : Paths, ro : BOOLEAN, kind : {"dir", "file"}]
ShownType == [fs : FsType, base : Paths, kind : {"dir", "file", "none"}, ro : BOOLEAN]

Typed ==
    /\ chroot \in BOOLEAN /\ ephemeral \in BOOLEAN
    /\ specs \in Seq(SpecType) /\ read \in 0 .. Len(specs)
    /\ mounts \in Seq(EntryType)
    /\ tab \in Seq(MountType) /\ tab # <<>> /\ tab[1].dst = <<>> /\ tab[1].type = "host"

\* The source of a bind mount in the list is that of a --mount.
Given(e) ==
    e.type = "user" /\ e.how \in {"bind", "remount"} =>
        \E j \in DOMAIN specs : specs[j].word # "tmp" /\ specs[j].src = e.src

Sourced == \A x \in DOMAIN mounts : Given(mounts[x])

\* What RootUntouched is about.
Claim == ephemeral /\ RootPath # <<>> /\ ~FromAbove

\* A place from which one does not get to the container's real root.
Apart(fs, path) == fs = Host => ~IsPrefix(RootPath, path) /\ ~IsPrefix(path, RootPath)

\* The overlay is over the root, and nothing above it shows the root.
Covered ==
    /\ Len(tab) >= 2 /\ tab[2].dst = <<>>
    /\ \A i \in 2 .. Len(tab) : Apart(tab[i].fs, tab[i].base)

\* Until then nothing is made, and the overlay is the first of what is mounted.
Bare ==
    /\ Len(tab) = 1 /\ tab[1].kind = "dir"
    /\ made = {}
    /\ pc \in {"parse", "mount", "failed"}
    /\ pc = "mount" => mounts # <<>> /\ Head(mounts) = EphemeralRoot[1]

EphemeralInv == Sourced /\ (Claim => chroot /\ (Covered \/ Bare \/ pc = "done"))

IInv == Typed /\ EphemeralInv /\ RootUntouched

-----------------------------------------------------------------------------
(* Paths.                                                                  *)

\* The root is above every path.
LEMMA RootIsAbove == \A p \in Paths : IsPrefix(<<>>, p)
<1> TAKE p \in Paths
<1>1. SubSeq(<<>>, 1, 0) = <<>> /\ SubSeq(p, 1, 0) = <<>>
  BY SubSeqEmpty
<1>2. Len(<<>>) = 0 /\ Len(p) \in Nat
  BY DEF Paths
<1> QED BY <1>1, <1>2 DEF IsPrefix

LEMMA PrefixMeans ==
    ASSUME NEW s \in Paths, NEW t \in Paths
    PROVE  IsPrefix(s, t) => Len(s) <= Len(t) /\ \A x \in 1 .. Len(s) : s[x] = t[x]
<1> SUFFICES ASSUME IsPrefix(s, t), NEW x \in 1 .. Len(s)
             PROVE  Len(s) <= Len(t) /\ s[x] = t[x]
  BY DEF IsPrefix
<1>1. /\ s \in Seq(Names) /\ t \in Seq(Names) /\ Len(s) \in Nat /\ Len(t) \in Nat
      /\ Len(s) <= Len(t) /\ SubSeq(s, 1, Len(s)) = SubSeq(t, 1, Len(s))
  BY DEF IsPrefix, Paths
<1>2. SubSeq(s, 1, Len(s))[x] = s[x]
  BY <1>1
<1>3. SubSeq(t, 1, Len(s))[x] = t[x]
  BY <1>1
<1> QED BY <1>1, <1>2, <1>3

LEMMA PrefixIs ==
    ASSUME NEW s \in Paths, NEW t \in Paths, Len(s) <= Len(t),
           \A x \in 1 .. Len(s) : s[x] = t[x]
    PROVE  IsPrefix(s, t)
<1>1. s \in Seq(Names) /\ t \in Seq(Names) /\ Len(s) \in Nat /\ Len(t) \in Nat
  BY DEF Paths
<1>2. SubSeq(s, 1, Len(s)) = [x \in 1 .. Len(s) |-> s[x]]
  BY <1>1
<1>3. SubSeq(t, 1, Len(s)) = [x \in 1 .. Len(s) |-> t[x]]
  BY <1>1
<1> QED BY <1>1, <1>2, <1>3 DEF IsPrefix

LEMMA OwnPrefix == \A p \in Paths : IsPrefix(p, p)
BY LenProperties DEF IsPrefix, Paths

\* Of two paths above a third one is above the other.
LEMMA AboveJoined ==
    ASSUME NEW r \in Paths, NEW b \in Paths, NEW q \in Paths
    PROVE  /\ b \o q \in Paths
           /\ IsPrefix(r, b \o q) => IsPrefix(r, b) \/ IsPrefix(b, r)
           /\ IsPrefix(b \o q, r) => IsPrefix(b, r)
<1>1. /\ b \o q \in Seq(Names) /\ Len(b \o q) = Len(b) + Len(q)
      /\ \A x \in 1 .. Len(b) + Len(q) : (b \o q)[x] = IF x <= Len(b) THEN b[x] ELSE q[x - Len(b)]
      /\ Len(b) \in Nat /\ Len(q) \in Nat /\ Len(r) \in Nat
  BY ConcatProperties DEF Paths
<1> PICK j : j = b \o q
  OBVIOUS
<1>2. j \in Paths /\ Len(b) <= Len(j) /\ \A x \in 1 .. Len(b) : j[x] = b[x]
  BY <1>1 DEF Paths
<1>3. ASSUME IsPrefix(r, j) PROVE IsPrefix(r, b) \/ IsPrefix(b, r)
  <2>1. Len(r) <= Len(j) /\ \A x \in 1 .. Len(r) : r[x] = j[x]
    BY <1>2, <1>3, PrefixMeans
  <2>2. CASE Len(r) <= Len(b)
    <3>1. \A x \in 1 .. Len(r) : r[x] = b[x]
      BY <1>1, <1>2, <2>1, <2>2
    <3> QED BY <2>2, <3>1, PrefixIs
  <2>3. CASE Len(b) <= Len(r)
    <3>1. \A x \in 1 .. Len(b) : b[x] = r[x]
      BY <1>1, <1>2, <2>1, <2>3
    <3> QED BY <2>3, <3>1, PrefixIs
  <2> QED BY <1>1, <2>2, <2>3
<1>4. ASSUME IsPrefix(j, r) PROVE IsPrefix(b, r)
  <2>1. Len(j) <= Len(r) /\ \A x \in 1 .. Len(j) : j[x] = r[x]
    BY <1>2, <1>4, PrefixMeans
  <2>2. Len(b) <= Len(r) /\ \A x \in 1 .. Len(b) : b[x] = r[x]
    <3>1. Len(j) \in Nat
      BY <1>1
    <3> QED BY <1>1, <1>2, <2>1, <3>1
  <2> QED BY <2>2, PrefixIs
<1> QED BY <1>1, <1>2, <1>3, <1>4

LEMMA BelowHasType ==
    ASSUME NEW p \in Paths, NEW d \in Paths
    PROVE  Below(p, d) \in Paths
<1>1. Len(p) \in Nat /\ Len(d) \in Nat /\ \A x \in 1 .. Len(p) : p[x] \in Names
  BY DEF Paths
<1>2. \A x \in Len(d) + 1 .. Len(p) : p[x] \in Names
  BY <1>1
<1>3. Len(d) + 1 \in Int /\ Len(p) \in Int
  BY <1>1
<1> QED BY <1>2, <1>3, SubSeqProperties DEF Below, Paths

LEMMA NamesMakePaths ==
    /\ <<>> \in Paths
    /\ \A a \in Names : <<a>> \in Paths
    /\ \A a, b \in Names : <<a, b>> \in Paths
    /\ \A a, b, c \in Names : <<a, b, c>> \in Paths
    /\ Seq(STRING) \subseteq Paths
<1> USE DEF Paths
<1>1. STRING \subseteq Names
  BY DEF Names
<1>2. ASSUME NEW p \in Seq(STRING) PROVE p \in Paths
  <2>1. /\ Len(p) \in Nat /\ p = [i \in 1 .. Len(p) |-> p[i]]
        /\ \A i \in 1 .. Len(p) : p[i] \in Names
    BY <1>1, LenProperties
  <2> QED BY <2>1
<1>3. Seq(STRING) \subseteq Paths
  BY <1>2
<1> HIDE DEF Names
<1> QED BY <1>3

-----------------------------------------------------------------------------
(* Looking up a path.                                                      *)

\* A set of numbers with a bound has a greatest one.
LEMMA Greatest ==
    ASSUME NEW n \in Nat, NEW S \in SUBSET (0 .. n), S # {}
    PROVE  \E i \in S : \A j \in S : j <= i
<1> DEFINE T == {m \in Nat : n - m \in S}
<1>1. T # {}
  <2>1. PICK i \in S : TRUE
    OBVIOUS
  <2>2. n - i \in Nat /\ n - (n - i) = i
    BY <2>1
  <2> QED BY <2>1, <2>2
<1>2. \E m \in T : \A k \in T : ~(<<k, m>> \in OpToRel(<, Nat))
  <2> HIDE DEF T
  <2>1. T \subseteq Nat
    BY DEF T
  <2> QED BY <1>1, <2>1, NatLessThanWellFounded, WFMin
<1>3. PICK m \in T : \A k \in T : ~(k < m)
  BY <1>2 DEF OpToRel
<1>4. \A j \in S : n - j \in T
  <2> TAKE j \in S
  <2>1. n - j \in Nat /\ n - (n - j) = j
    OBVIOUS
  <2> QED BY <2>1
<1>5. \A j \in S : j <= n - m
  <2> TAKE j \in S
  <2>1. n - j \in Nat /\ ~(n - j < m)
    BY <1>3, <1>4
  <2> QED BY <2>1
<1> QED BY <1>3, <1>5

\* A path is seen in the latest mount at it or above it: there is one.
LEMMA VisibleIsLatest ==
    ASSUME Typed, NEW p \in Paths
    PROVE  /\ Visible(p) \in DOMAIN tab /\ IsPrefix(tab[Visible(p)].dst, p)
           /\ Visible(p) = 1 \/ Covers(tab[Visible(p)].dst, p)
           /\ \A j \in DOMAIN tab : Covers(tab[j].dst, p) => j <= Visible(p)
<1> DEFINE above == {i \in DOMAIN tab : i = 1 \/ Covers(tab[i].dst, p)}
<1>1. Len(tab) \in Nat /\ DOMAIN tab = 1 .. Len(tab) /\ 1 \in DOMAIN tab
  BY DEF Typed
<1>2. above # {}
  BY <1>1
<1>3. above \in SUBSET (0 .. Len(tab))
  BY <1>1
<1>4. \E i \in above : \A j \in above : j <= i
  <2> HIDE DEF above
  <2> QED BY <1>1, <1>2, <1>3, Greatest
<1>5. /\ Visible(p) \in above
      /\ \A j \in above : j <= Visible(p)
  BY <1>4 DEF Visible
<1>6. IsPrefix(tab[1].dst, p)
  BY RootIsAbove DEF Typed
<1> QED BY <1>5, <1>6 DEF Covers

LEMMA MountsHaveType ==
    ASSUME Typed, NEW i \in DOMAIN tab
    PROVE  tab[i] \in MountType
BY ElementOfSeq DEF Typed

LEMMA AtHasType ==
    ASSUME Typed, NEW p \in Paths, NEW m, m = tab[Visible(p)]
    PROVE  /\ m \in MountType /\ Below(p, m.dst) \in Paths
           /\ At(p) = <<m.fs, m.base \o Below(p, m.dst)>>
           /\ At(p)[1] = m.fs /\ At(p)[1] \in FsType
           /\ At(p)[2] = m.base \o Below(p, m.dst) /\ At(p)[2] \in Paths
<1>1. m \in MountType
  BY VisibleIsLatest, MountsHaveType
<1>2. m.fs \in FsType /\ m.base \in Paths /\ m.dst \in Paths
  BY <1>1 DEF MountType
<1>3. Below(p, m.dst) \in Paths
  BY <1>2, BelowHasType
<1>4. m.base \o Below(p, m.dst) \in Paths
  BY <1>2, <1>3, AboveJoined
<1> QED BY <1>1, <1>2, <1>3, <1>4 DEF At

LEMMA KindHasType ==
    ASSUME Typed, NEW p \in Paths
    PROVE  Kind(p) \in {"dir", "file", "none"}
<1>1. tab[Visible(p)] \in MountType
  BY AtHasType
<1> QED BY <1>1 DEF Kind, KindOf, MountType

LEMMA SeenHasType ==
    ASSUME Typed, NEW p \in Paths
    PROVE  Seen(p) \in ShownType
<1>1. tab[Visible(p)] \in MountType /\ At(p)[1] \in FsType /\ At(p)[2] \in Paths
  BY AtHasType
<1>2. tab[Visible(p)].ro \in BOOLEAN
  BY <1>1 DEF MountType
<1> QED BY <1>1, <1>2, KindHasType DEF Seen, ShownType

LEMMA TopHasType == Top \in Paths
BY MountAssumption, NamesMakePaths DEF Top

LEMMA SourceHasType ==
    ASSUME Typed, NEW src \in Paths
    PROVE  Source(src) \in ShownType /\ (Source(src).ro => Inside(src))
<1>1. CASE Inside(src)
  <2>1. Below(src, Top) \in Paths
    BY TopHasType, BelowHasType
  <2> QED BY <1>1, <2>1, SeenHasType DEF Source
<1>2. CASE ~Inside(src)
  <2>1. Source(src) = [fs |-> Host, base |-> src, kind |-> KindOf(<<Host, src>>), ro |-> FALSE]
    BY <1>2 DEF Source
  <2>2. KindOf(<<Host, src>>) \in {"dir", "file", "none"} /\ Host \in FsType
    BY DEF KindOf, Host, FsType
  <2> QED BY <2>1, <2>2 DEF ShownType
<1> QED BY <1>1, <1>2

\* Once the overlay is over the root no path is seen in it.
LEMMA RootIsHidden ==
    ASSUME Typed, Claim, chroot, Covered, NEW p \in Paths
    PROVE  Apart(At(p)[1], At(p)[2])
<1>1. Len(tab) \in Nat /\ DOMAIN tab = 1 .. Len(tab)
  BY DEF Typed
<1>2. Covers(<<>>, p)
  BY RootIsAbove DEF Covers, Reenters, Top, Claim
<1>3. Visible(p) >= 2 /\ Visible(p) \in 2 .. Len(tab)
  BY <1>1, <1>2, VisibleIsLatest DEF Covered
<1> PICK m : m = tab[Visible(p)]
  OBVIOUS
<1>4. Apart(m.fs, m.base)
  BY <1>3 DEF Covered
<1>5. /\ m \in MountType /\ Below(p, m.dst) \in Paths
      /\ At(p)[1] = m.fs /\ At(p)[2] = m.base \o Below(p, m.dst)
  BY AtHasType
<1> m.base \in Paths
  BY <1>5 DEF MountType
<1>6. RootPath \in Paths
  BY MountAssumption, NamesMakePaths
<1> QED BY <1>4, <1>5, <1>6, AboveJoined DEF Apart

\* So it is not shown by a bind mount, unless its source is above it.
LEMMA SourceIsApart ==
    ASSUME Typed, Claim, chroot, Covered, NEW src \in Paths,
           Inside(src) \/ ~IsPrefix(src, RootPath)
    PROVE  Apart(Source(src).fs, Source(src).base)
<1>1. CASE Inside(src)
  <2>1. Below(src, Top) \in Paths
    BY TopHasType, BelowHasType
  <2>2. Source(src) = Seen(Below(src, Top))
    BY <1>1 DEF Source
  <2> QED BY <2>1, <2>2, RootIsHidden DEF Seen
<1>2. CASE ~Inside(src)
  <2>1. Source(src).fs = Host /\ Source(src).base = src
    BY <1>2 DEF Source
  <2>2. ~IsPrefix(RootPath, src)
    BY <1>2 DEF Inside, Top
  <2> QED BY <1>2, <2>1, <2>2 DEF Apart
<1> QED BY <1>1, <1>2

-----------------------------------------------------------------------------
(* The list and its entries.                                               *)

LEMMA TuplesAreSeqs ==
    ASSUME NEW S
    PROVE  /\ \A a \in S : <<a>> \in Seq(S)
           /\ \A a, b \in S : <<a, b>> \in Seq(S)
           /\ \A a, b, c, d, e, f \in S : <<a, b, c, d, e, f>> \in Seq(S)
OBVIOUS

LEMMA FromSpecHasType ==
    ASSUME NEW s \in SpecType, s.word # "other"
    PROVE  FromSpec(s) \in Seq(EntryType)
<1>1. s.word \in Words /\ s.dst \in Paths /\ s.src \in Paths
  BY NamesMakePaths DEF SpecType
<1>2. /\ Bind("user", s.src, s.dst) \in EntryType
      /\ Entry("remount", "user", s.src, s.dst, TRUE) \in EntryType
      /\ Entry("overlay", "user", s.src, s.dst, FALSE) \in EntryType
      /\ New("user", s.dst, FALSE) \in EntryType
  BY <1>1, NamesMakePaths DEF Bind, New, Entry, EntryType, Hows, Types
<1> QED BY <1>1, <1>2, TuplesAreSeqs DEF FromSpec, BindRo, Words

LEMMA SystemMountsHaveType == SystemMounts \in Seq(EntryType)
<1>1. \A type \in Types, dst \in Paths, ro \in BOOLEAN : New(type, dst, ro) \in EntryType
  BY NamesMakePaths DEF New, Entry, EntryType, Hows
<1>2. /\ <<"proc">> \in Paths /\ <<"proc", "sys">> \in Paths /\ <<"sys">> \in Paths
      /\ <<"dev">> \in Paths /\ <<"dev", "pts">> \in Paths /\ <<"dev", "shm">> \in Paths
      /\ <<"run">> \in Paths /\ <<"sys", "fs", "cgroup">> \in Paths
  BY NamesMakePaths DEF Names
<1>3. BindRo("procsys", <<>>, <<"proc", "sys">>) \in Seq(EntryType)
  BY <1>2, NamesMakePaths DEF BindRo, Bind, Entry, EntryType, Hows, Types
<1>4. /\ New("proc", <<"proc">>, FALSE) \in EntryType
      /\ New("sysfs", <<"sys">>, TRUE) \in EntryType
      /\ New("dev", <<"dev">>, FALSE) \in EntryType
      /\ New("pts", <<"dev", "pts">>, FALSE) \in EntryType
      /\ New("shm", <<"dev", "shm">>, FALSE) \in EntryType
      /\ New("run", <<"run">>, FALSE) \in EntryType
      /\ New("cgroup", <<"sys", "fs", "cgroup">>, FALSE) \in EntryType
  BY <1>1, <1>2 DEF Types
<1>5. <<New("proc", <<"proc">>, FALSE)>> \in Seq(EntryType)
  BY <1>4, TuplesAreSeqs
<1>6. <<New("sysfs", <<"sys">>, TRUE), New("dev", <<"dev">>, FALSE),
        New("pts", <<"dev", "pts">>, FALSE), New("shm", <<"dev", "shm">>, FALSE),
        New("run", <<"run">>, FALSE), New("cgroup", <<"sys", "fs", "cgroup">>, FALSE)>>
      \in Seq(EntryType)
  <2> HIDE DEF EntryType
  <2> QED BY <1>4, TuplesAreSeqs
<1> QED BY <1>3, <1>5, <1>6, ConcatProperties DEF SystemMounts

LEMMA WholeListStarts ==
    ASSUME Typed
    PROVE  /\ WholeList \in Seq(EntryType)
           /\ ephemeral => WholeList # <<>> /\ Head(WholeList) = EphemeralRoot[1]
<1>1. EphemeralRoot \in Seq(EntryType) /\ Len(EphemeralRoot) = 1
  BY NamesMakePaths DEF EphemeralRoot, Entry, EntryType, Hows, Types
<1>2. mounts \in Seq(EntryType)
  BY DEF Typed
<1>3. SystemMounts \o mounts \in Seq(EntryType)
  BY <1>2, SystemMountsHaveType, ConcatProperties
<1>4. WholeList = (IF ephemeral THEN EphemeralRoot ELSE <<>>) \o (SystemMounts \o mounts)
  <2> DEFINE first == IF ephemeral THEN EphemeralRoot ELSE <<>>
  <2>1. first \in Seq(EntryType)
    BY <1>1
  <2> HIDE DEF first
  <2>2. (first \o SystemMounts) \o mounts = first \o (SystemMounts \o mounts)
    BY ONLY <2>1, <1>2, SystemMountsHaveType, ConcatAssociative
  <2> QED BY <2>2 DEF WholeList, first
<1>5. CASE ephemeral
  <2> DEFINE rest == SystemMounts \o mounts
  <2> HIDE DEF rest
  <2>1. rest \in Seq(EntryType) /\ WholeList = EphemeralRoot \o rest
    BY <1>3, <1>4, <1>5 DEF rest
  <2>2. /\ WholeList \in Seq(EntryType) /\ Len(WholeList) = 1 + Len(rest)
        /\ WholeList[1] = EphemeralRoot[1]
    BY <1>1, <2>1, ConcatProperties
  <2> QED BY <2>1, <2>2
<1>6. CASE ~ephemeral
  BY <1>3, <1>4, <1>6, ConcatEmptySeq
<1> QED BY <1>5, <1>6

\* The n-th of all mounts that are not the user's.
SysAt(n) == IF n = 1 THEN EphemeralRoot[1] ELSE SystemMounts[n - 1]

LEMMA NineInARow ==
    ASSUME NEW S, NEW a \in S, NEW b \in S, NEW c \in S, NEW d \in S, NEW e \in S,
           NEW f \in S, NEW g \in S, NEW h \in S, NEW i \in S,
           NEW s, s = <<a>> \o <<b, c>> \o <<d, e, f, g, h, i>>
    PROVE  /\ Len(s) = 9 /\ s[1] = a /\ s[2] = b /\ s[3] = c /\ s[4] = d /\ s[5] = e
           /\ s[6] = f /\ s[7] = g /\ s[8] = h /\ s[9] = i
<1> DEFINE one == <<a>>
           two == <<b, c>>
           six == <<d, e, f, g, h, i>>
           three == one \o two
<1>1. /\ one \in Seq(S) /\ Len(one) = 1 /\ one[1] = a
      /\ two \in Seq(S) /\ Len(two) = 2 /\ two[1] = b /\ two[2] = c
      /\ six \in Seq(S) /\ Len(six) = 6 /\ six[1] = d /\ six[2] = e /\ six[3] = f
      /\ six[4] = g /\ six[5] = h /\ six[6] = i
  OBVIOUS
<1>2. s = three \o six
  OBVIOUS
<1> HIDE DEF one, two, six
<1>3. /\ three \in Seq(S) /\ Len(three) = 3
      /\ \A x \in 1 .. 3 : three[x] = IF x <= 1 THEN one[x] ELSE two[x - 1]
  <2>1. /\ one \o two \in Seq(S) /\ Len(one \o two) = Len(one) + Len(two)
        /\ \A x \in 1 .. Len(one) + Len(two) :
               (one \o two)[x] = IF x <= Len(one) THEN one[x] ELSE two[x - Len(one)]
    BY <1>1, ConcatProperties
  <2>2. Len(one) + Len(two) = 3
    BY <1>1
  <2> QED BY <1>1, <2>1, <2>2
<1> HIDE DEF three
<1>4. /\ Len(s) = 9
      /\ \A x \in 1 .. 9 : s[x] = IF x <= 3 THEN three[x] ELSE six[x - 3]
  BY <1>1, <1>2, <1>3, ConcatProperties
<1> QED BY <1>1, <1>3, <1>4

LEMMA SystemList ==
    /\ SystemMounts \in Seq(EntryType) /\ Len(SystemMounts) = 9
    /\ SysAt(2) = New("proc", <<"proc">>, FALSE)
    /\ SysAt(3) = Bind("procsys", <<>>, <<"proc", "sys">>)
    /\ SysAt(4) = Entry("remount", "procsys", <<>>, <<"proc", "sys">>, TRUE)
    /\ SysAt(5) = New("sysfs", <<"sys">>, TRUE)
    /\ SysAt(6) = New("dev", <<"dev">>, FALSE)
    /\ SysAt(7) = New("pts", <<"dev", "pts">>, FALSE)
    /\ SysAt(8) = New("shm", <<"dev", "shm">>, FALSE)
    /\ SysAt(9) = New("run", <<"run">>, FALSE)
    /\ SysAt(10) = New("cgroup", <<"sys", "fs", "cgroup">>, FALSE)
<1> DEFINE a == New("proc", <<"proc">>, FALSE)
           b == Bind("procsys", <<>>, <<"proc", "sys">>)
           c == Entry("remount", "procsys", <<>>, <<"proc", "sys">>, TRUE)
           d == New("sysfs", <<"sys">>, TRUE)
           e == New("dev", <<"dev">>, FALSE)
           f == New("pts", <<"dev", "pts">>, FALSE)
           g == New("shm", <<"dev", "shm">>, FALSE)
           h == New("run", <<"run">>, FALSE)
           i == New("cgroup", <<"sys", "fs", "cgroup">>, FALSE)
<1>1. SystemMounts = <<a>> \o <<b, c>> \o <<d, e, f, g, h, i>>
  BY DEF SystemMounts, BindRo
<1> HIDE DEF a, b, c, d, e, f, g, h, i
<1>2. /\ Len(SystemMounts) = 9 /\ SystemMounts[1] = a /\ SystemMounts[2] = b
      /\ SystemMounts[3] = c /\ SystemMounts[4] = d /\ SystemMounts[5] = e
      /\ SystemMounts[6] = f /\ SystemMounts[7] = g /\ SystemMounts[8] = h
      /\ SystemMounts[9] = i
  <2> DEFINE S == {a, b, c, d, e, f, g, h, i}
  <2>1. /\ a \in S /\ b \in S /\ c \in S /\ d \in S /\ e \in S /\ f \in S /\ g \in S
        /\ h \in S /\ i \in S
    OBVIOUS
  <2> HIDE DEF S
  <2> QED BY ONLY <1>1, <2>1, NineInARow
<1>3. /\ SysAt(2) = a /\ SysAt(3) = b /\ SysAt(4) = c /\ SysAt(5) = d /\ SysAt(6) = e
      /\ SysAt(7) = f /\ SysAt(8) = g /\ SysAt(9) = h /\ SysAt(10) = i
  BY <1>2 DEF SysAt
<1> QED BY <1>2, <1>3, SystemMountsHaveType DEF a, b, c, d, e, f, g, h, i

LEMMA MountPointHasType == \A p \in Paths : MountPoint(p) \in Paths
BY NamesMakePaths DEF MountPoint

LEMMA FromHasType ==
    ASSUME Typed, NEW e \in EntryType, NEW p \in Paths
    PROVE  From(e, p) \in ShownType
<1>1. e.type \in Types /\ e.src \in Paths /\ e.ro \in BOOLEAN
  BY DEF EntryType
<1>2. Source(e.src) \in ShownType /\ Seen(p) \in ShownType
  BY <1>1, SourceHasType, SeenHasType
<1>3. [Seen(p) EXCEPT !.kind = "dir"] \in ShownType
  BY <1>2 DEF ShownType
<1>4. [fs |-> <<e.type, Len(tab)>>, base |-> <<>>, kind |-> "dir", ro |-> e.ro] \in ShownType
  <2>1. <<e.type, Len(tab)>> \in FsType
    BY <1>1 DEF Typed, FsType
  <2> QED BY <1>1, <2>1, NamesMakePaths DEF ShownType
<1> QED BY <1>2, <1>3, <1>4 DEF From

\* What is mounted for the entry e at p.
Added(e, p) ==
    [type |-> e.type, dst |-> p, fs |-> From(e, p).fs, base |-> From(e, p).base,
     ro |-> From(e, p).ro, kind |-> From(e, p).kind]

LEMMA MountEffect ==
    ASSUME Typed, MountNext, pc' # "failed",
           NEW e, e = Head(mounts), NEW p, p = MountPoint(e.dst)
    PROVE  /\ e \in EntryType /\ p \in Paths /\ Added(e, p) \in MountType
           /\ Visible(p) \in DOMAIN tab
           /\ IF e.how = "remount"
              THEN tab[Visible(p)].dst = p /\ tab' = [tab EXCEPT ![Visible(p)].ro = e.ro]
              ELSE tab' = Append(tab, Added(e, p))
           /\ made' = made \/ (Kind(p) = "none" /\ made' = made \cup {At(p)})
           /\ mounts' = Tail(mounts) /\ mounts' \in Seq(EntryType)
           /\ pc = "mount" /\ UNCHANGED <<chroot, ephemeral, specs, read, pc>>
<1>1. e \in EntryType /\ Tail(mounts) \in Seq(EntryType)
  BY HeadTailProperties DEF MountNext, Typed
<1>2. p \in Paths /\ e.type \in Types
  BY <1>1, MountPointHasType DEF EntryType
<1>3. /\ From(e, p).kind # "none" /\ MountOne(e, p)
      /\ e.how = "remount" => tab[Visible(p)].dst = p
      /\ mounts' = Tail(mounts) /\ pc = "mount" /\ UNCHANGED <<options, read, pc>>
  BY DEF MountNext, Fail
<1>4. From(e, p) \in ShownType
  BY <1>1, <1>2, FromHasType
<1>5. Added(e, p) \in MountType
  BY <1>2, <1>3, <1>4 DEF Added, MountType, ShownType
<1>6. made' = made \/ (Kind(p) = "none" /\ made' = made \cup {At(p)})
  BY <1>3 DEF MountOne, Missing
<1>7. IF e.how = "remount" THEN tab' = [tab EXCEPT ![Visible(p)].ro = e.ro]
      ELSE tab' = Append(tab, Added(e, p))
  BY <1>3 DEF MountOne, Added
<1> QED BY <1>1, <1>2, <1>3, <1>5, <1>6, <1>7, VisibleIsLatest DEF options

-----------------------------------------------------------------------------
(* The steps.                                                              *)

LEMMA InitIInv == Init => IInv
<1> SUFFICES ASSUME Init PROVE IInv
  OBVIOUS
<1>1. specs \in Seq(SpecType) /\ read \in 0 .. Len(specs)
  BY MountAssumption DEF Init
<1> PICK m : m = [type |-> "host", dst |-> <<>>, fs |-> Host, base |-> Top, ro |-> FALSE,
                  kind |-> "dir"]
  OBVIOUS
<1>2. m \in MountType /\ m.dst = <<>> /\ m.type = "host" /\ m.kind = "dir"
  BY NamesMakePaths, TopHasType DEF MountType, Host, FsType
<1>3. tab = <<m>> /\ Len(tab) = 1 /\ tab[1] = m /\ tab # <<>> /\ tab \in Seq(MountType)
  BY <1>2 DEF Init
<1>4. Typed
  BY <1>1, <1>2, <1>3 DEF Init, Typed
<1>5. EphemeralInv
  BY <1>2, <1>3 DEF Init, EphemeralInv, Sourced, Claim, Bare
<1>6. RootUntouched
  BY DEF Init, RootUntouched
<1> QED BY <1>4, <1>5, <1>6 DEF IInv

LEMMA FailKeeps == ASSUME IInv, pc # "done", Fail PROVE IInv'
<1>1. Typed'
  BY DEF IInv, Fail, Typed, options
<1>2. RootUntouched'
  BY DEF IInv, Fail, RootUntouched, FromAbove, options, disk
<1>3. EphemeralInv'
  BY DEF IInv, Fail, EphemeralInv, Sourced, Given, Claim, FromAbove, Covered, Bare, options, disk
<1> QED BY <1>1, <1>2, <1>3 DEF IInv

\* The entries of a --mount have its source.
LEMMA FromSpecGiven ==
    ASSUME Typed, NEW j \in DOMAIN specs, specs[j].word # "other",
           NEW x \in DOMAIN FromSpec(specs[j])
    PROVE  Given(FromSpec(specs[j])[x])
<1> PICK s : s = specs[j]
  OBVIOUS
<1>1. s \in SpecType
  BY ElementOfSeq DEF Typed
<1>2. s.word \in {"bind", "bind-ro", "overlay", "tmp"}
  BY <1>1 DEF SpecType, Words
<1> PICK e : e = FromSpec(s)[x]
  OBVIOUS
<1>3. e.how \in {"bind", "remount"} => s.word # "tmp" /\ e.src = s.src
  <2>1. CASE s.word = "bind"
    <3>1. FromSpec(s) = <<Bind("user", s.src, s.dst)>>
      BY <2>1 DEF FromSpec
    <3>2. x = 1
      BY <3>1
    <3> QED BY <2>1, <3>1, <3>2 DEF Bind, Entry
  <2>2. CASE s.word = "bind-ro"
    <3>1. FromSpec(s) = <<Bind("user", s.src, s.dst), Entry("remount", "user", s.src, s.dst, TRUE)>>
      BY <2>2 DEF FromSpec, BindRo
    <3>2. x = 1 \/ x = 2
      BY <3>1
    <3> QED BY <2>2, <3>1, <3>2 DEF Bind, Entry
  <2>3. CASE s.word = "overlay"
    <3>1. FromSpec(s) = <<Entry("overlay", "user", s.src, s.dst, FALSE)>>
      BY <2>3 DEF FromSpec
    <3>2. x = 1
      BY <3>1
    <3> QED BY <3>1, <3>2 DEF Entry
  <2>4. CASE s.word = "tmp"
    <3>1. FromSpec(s) = <<New("user", s.dst, FALSE)>>
      BY <2>4 DEF FromSpec
    <3>2. x = 1
      BY <3>1
    <3> QED BY <3>1, <3>2 DEF New, Entry
  <2> QED BY <1>2, <2>1, <2>2, <2>3, <2>4
<1> QED BY <1>3 DEF Given

\* Whatever is joined of given entries is given.
LEMMA GivenJoined ==
    ASSUME NEW s \in Seq(EntryType), NEW t \in Seq(EntryType),
           \A x \in DOMAIN s : Given(s[x]), \A x \in DOMAIN t : Given(t[x])
    PROVE  \A x \in DOMAIN (s \o t) : Given((s \o t)[x])
<1> PICK u : u = s \o t
  OBVIOUS
<1>1. /\ u \in Seq(EntryType) /\ Len(u) = Len(s) + Len(t)
      /\ \A x \in 1 .. Len(s) + Len(t) : u[x] = IF x <= Len(s) THEN s[x] ELSE t[x - Len(s)]
  BY ConcatProperties
<1>2. /\ Len(s) \in Nat /\ Len(t) \in Nat /\ DOMAIN s = 1 .. Len(s) /\ DOMAIN t = 1 .. Len(t)
      /\ DOMAIN u = 1 .. Len(u)
  BY <1>1
<1>3. ASSUME NEW x \in DOMAIN u PROVE Given(u[x])
  <2>1. CASE x <= Len(s)
    <3>1. x \in DOMAIN s /\ u[x] = s[x]
      BY <1>1, <1>2, <2>1
    <3> QED BY <3>1
  <2>2. CASE ~(x <= Len(s))
    <3>1. x - Len(s) \in DOMAIN t /\ u[x] = t[x - Len(s)]
      BY <1>1, <1>2, <2>2
    <3> QED BY <3>1
  <2> QED BY <2>1, <2>2
<1> QED BY <1>3

LEMMA AddKeeps == ASSUME IInv, mount_add_from_spec PROVE IInv'
<1> USE DEF IInv
<1> DEFINE s == specs[read + 1]
<1>1. CASE ~(s.valid /\ s.word # "other")
  BY <1>1, FailKeeps DEF mount_add_from_spec
<1>2. CASE s.valid /\ s.word # "other"
  <2>1. /\ pc = "parse" /\ read < Len(specs) /\ read' = read + 1
        /\ mounts' = mounts \o FromSpec(s) /\ UNCHANGED <<options, pc, tab, disk>>
    BY <1>2 DEF mount_add_from_spec
  <2>2. read + 1 \in DOMAIN specs /\ s \in SpecType
    BY <2>1, ElementOfSeq DEF Typed
  <2>3. FromSpec(s) \in Seq(EntryType) /\ mounts \in Seq(EntryType)
    BY <1>2, <2>2, FromSpecHasType DEF Typed
  <2>4. mounts' \in Seq(EntryType)
    BY <2>1, <2>3, ConcatProperties
  <2>5. Typed'
    BY <2>1, <2>4 DEF Typed, options
  <2>6. \A x \in DOMAIN FromSpec(s) : Given(FromSpec(s)[x])
    BY <1>2, <2>2, FromSpecGiven
  <2> HIDE DEF s
  <2>7. \A x \in DOMAIN mounts' : Given(mounts'[x])
    BY <2>1, <2>3, <2>6, GivenJoined DEF EphemeralInv, Sourced
  <2>8. EphemeralInv'
    BY <2>1, <2>7 DEF options, disk, EphemeralInv, Sourced, Given, Claim, FromAbove, Covered, Bare
  <2>9. RootUntouched'
    BY <2>1 DEF options, disk, RootUntouched, FromAbove
  <2> QED BY <2>5, <2>8, <2>9
<1> QED BY <1>1, <1>2

\* No mount of the system is a bind mount of the user's.
LEMMA SystemGiven ==
    /\ \A x \in DOMAIN SystemMounts : Given(SystemMounts[x])
    /\ \A x \in DOMAIN EphemeralRoot : Given(EphemeralRoot[x])
<1>1. ASSUME NEW x \in DOMAIN SystemMounts PROVE SystemMounts[x].type # "user"
  <2>1. x + 1 \in 2 .. 10 /\ SysAt(x + 1) = SystemMounts[x]
    BY <1>1, SystemList DEF SysAt
  <2>2. \/ x + 1 = 2 \/ x + 1 = 3 \/ x + 1 = 4 \/ x + 1 = 5 \/ x + 1 = 6
        \/ x + 1 = 7 \/ x + 1 = 8 \/ x + 1 = 9 \/ x + 1 = 10
    BY <2>1
  <2>3. SysAt(x + 1).type # "user"
    BY <2>2, SystemList DEF New, Bind, Entry
  <2> QED BY <2>1, <2>3
<1>2. ASSUME NEW x \in DOMAIN EphemeralRoot PROVE EphemeralRoot[x].type # "user"
  BY <1>2 DEF EphemeralRoot, Entry
<1> QED BY <1>1, <1>2 DEF Given

LEMMA ConcatKeeps == ASSUME IInv, ConcatMounts PROVE IInv'
<1> USE DEF IInv
<1>1. Typed'
  BY WholeListStarts DEF ConcatMounts, Typed, options
<1>2. Sourced'
  <2>1. \A x \in DOMAIN mounts' : Given(mounts'[x])
    <3> DEFINE first == IF ephemeral THEN EphemeralRoot ELSE <<>>
    <3>1. EphemeralRoot \in Seq(EntryType)
      BY NamesMakePaths DEF EphemeralRoot, Entry, EntryType, Hows, Types
    <3>2. first \in Seq(EntryType) /\ \A x \in DOMAIN first : Given(first[x])
      BY <3>1, SystemGiven
    <3> HIDE DEF first
    <3>3. /\ first \o SystemMounts \in Seq(EntryType)
          /\ \A x \in DOMAIN (first \o SystemMounts) : Given((first \o SystemMounts)[x])
      BY <3>2, SystemGiven, SystemMountsHaveType, GivenJoined, ConcatProperties
    <3> PICK front : front = first \o SystemMounts
      OBVIOUS
    <3>4. mounts \in Seq(EntryType) /\ \A x \in DOMAIN mounts : Given(mounts[x])
      BY DEF Typed, EphemeralInv, Sourced
    <3>5. \A x \in DOMAIN (front \o mounts) : Given((front \o mounts)[x])
      BY <3>3, <3>4, GivenJoined
    <3>6. mounts' = (IF chroot THEN front \o mounts ELSE mounts)
      BY DEF ConcatMounts, WholeList, first
    <3> QED BY <3>4, <3>5, <3>6
  <2> QED BY <2>1 DEF Sourced, Given, ConcatMounts, options
<1>3. EphemeralInv'
  BY <1>2, WholeListStarts
     DEF ConcatMounts, options, disk, EphemeralInv, Claim, FromAbove, Covered, Bare
<1>4. RootUntouched'
  BY DEF ConcatMounts, options, disk, RootUntouched, FromAbove
<1> QED BY <1>1, <1>3, <1>4

LEMMA MountedKeeps == ASSUME IInv, Mounted PROVE IInv'
<1>1. Typed'
  BY DEF IInv, Mounted, Typed, options
<1>2. RootUntouched'
  BY DEF IInv, Mounted, RootUntouched, FromAbove, options, disk
<1>3. EphemeralInv'
  BY DEF IInv, Mounted, EphemeralInv, Sourced, Given, Claim, FromAbove, Covered, Bare, options, disk
<1> QED BY <1>1, <1>2, <1>3 DEF IInv

\* The table after a mount.
LEMMA AppendMount ==
    ASSUME Typed, NEW m \in MountType, tab' = Append(tab, m)
    PROVE  /\ tab' \in Seq(MountType) /\ tab' # <<>>
           /\ tab'[1].dst = <<>> /\ tab'[1].type = "host"
           /\ Len(tab') = Len(tab) + 1 /\ tab'[Len(tab) + 1] = m
           /\ \A i \in 1 .. Len(tab) : tab'[i] = tab[i]
<1>1. Len(tab) \in Nat \ {0}
  BY EmptySeq DEF Typed
<1>2. tab \in Seq(MountType)
  BY DEF Typed
<1>3. /\ tab' \in Seq(MountType) /\ tab' # <<>>
      /\ Len(tab') = Len(tab) + 1 /\ tab'[Len(tab) + 1] = m
      /\ \A i \in 1 .. Len(tab) : tab'[i] = tab[i]
  BY <1>2, AppendProperties
<1> QED BY <1>1, <1>3 DEF Typed

\* The table after a remount, which changes no place and no file system.
LEMMA Remount ==
    ASSUME Typed, NEW v \in DOMAIN tab, NEW ro \in BOOLEAN, tab' = [tab EXCEPT ![v].ro = ro]
    PROVE  /\ tab' \in Seq(MountType) /\ tab' # <<>> /\ Len(tab') = Len(tab)
           /\ \A i \in 1 .. Len(tab) :
                  /\ tab'[i].dst = tab[i].dst /\ tab'[i].type = tab[i].type
                  /\ tab'[i].fs = tab[i].fs /\ tab'[i].base = tab[i].base
<1>1. Len(tab) \in Nat \ {0} /\ DOMAIN tab = 1 .. Len(tab) /\ tab \in Seq(MountType)
  BY EmptySeq DEF Typed
<1>2. [tab[v] EXCEPT !.ro = ro] \in MountType
  BY MountsHaveType DEF MountType
<1>3. tab' = [tab EXCEPT ![v] = [tab[v] EXCEPT !.ro = ro]]
  OBVIOUS
<1>4. tab' \in Seq(MountType) /\ Len(tab') = Len(tab)
  BY <1>1, <1>2, <1>3, ExceptSeq
<1>5. ASSUME NEW i \in 1 .. Len(tab)
      PROVE  /\ tab'[i].dst = tab[i].dst /\ tab'[i].type = tab[i].type
             /\ tab'[i].fs = tab[i].fs /\ tab'[i].base = tab[i].base
  <2>1. CASE i # v
    BY <1>1, <1>3, <2>1
  <2>2. CASE i = v
    <3>1. tab'[i] = [tab[v] EXCEPT !.ro = ro]
      BY <1>1, <1>3, <2>2
    <3>2. tab[v] \in MountType
      BY MountsHaveType
    <3> QED BY <2>2, <3>1, <3>2 DEF MountType
  <2> QED BY <2>1, <2>2
<1> QED BY <1>1, <1>4, <1>5

\* mount() for the first of the list.
LEMMA MountKeeps == ASSUME IInv, MountNext PROVE IInv'
<1>1. CASE pc' = "failed"
  <2>1. Fail /\ pc # "done"
    BY <1>1 DEF MountNext
  <2> QED BY <2>1, FailKeeps
<1>2. CASE pc' # "failed"
  <2> PICK e, p : e = Head(mounts) /\ p = MountPoint(e.dst)
    OBVIOUS
  <2> PICK m : m = Added(e, p)
    OBVIOUS
  <2>1. Typed /\ EphemeralInv /\ RootUntouched
    BY DEF IInv
  <2>2. /\ e \in EntryType /\ p \in Paths /\ m \in MountType /\ Visible(p) \in DOMAIN tab
        /\ IF e.how = "remount"
           THEN tab[Visible(p)].dst = p /\ tab' = [tab EXCEPT ![Visible(p)].ro = e.ro]
           ELSE tab' = Append(tab, m)
        /\ made' = made \/ (Kind(p) = "none" /\ made' = made \cup {At(p)})
        /\ mounts' = Tail(mounts) /\ mounts' \in Seq(EntryType)
        /\ pc = "mount" /\ UNCHANGED <<chroot, ephemeral, specs, read, pc>>
    BY <1>2, <2>1, MountEffect
  <2>3. /\ Len(tab) \in Nat \ {0} /\ DOMAIN tab = 1 .. Len(tab)
        /\ mounts \in Seq(EntryType) /\ mounts # <<>> /\ e.ro \in BOOLEAN
    BY <2>1, <2>2, EmptySeq DEF Typed, MountNext, EntryType
  <2>4. /\ tab' \in Seq(MountType) /\ tab' # <<>> /\ Len(tab') >= Len(tab)
        /\ \A i \in 1 .. Len(tab) :
               /\ tab'[i].dst = tab[i].dst /\ tab'[i].type = tab[i].type
               /\ tab'[i].fs = tab[i].fs /\ tab'[i].base = tab[i].base
    <3>1. CASE e.how = "remount"
      BY <2>1, <2>2, <2>3, <3>1, Remount
    <3>2. CASE e.how # "remount"
      BY <2>1, <2>2, <2>3, <3>2, AppendMount
    <3> QED BY <3>1, <3>2
  <2>5. Typed'
    <3>1. tab'[1].dst = <<>> /\ tab'[1].type = "host"
      BY <2>1, <2>3, <2>4 DEF Typed
    <3>2. mounts' \in Seq(EntryType) /\ tab' \in Seq(MountType) /\ tab' # <<>>
      BY <2>2, <2>4
    <3> QED BY <2>1, <2>2, <3>1, <3>2 DEF Typed
  <2>6. Sourced'
    <3>1. \A x \in DOMAIN mounts : Given(mounts[x])
      BY <2>1 DEF EphemeralInv, Sourced
    <3>2. /\ Len(mounts) \in Nat /\ DOMAIN mounts = 1 .. Len(mounts)
          /\ DOMAIN mounts' = 1 .. Len(mounts) - 1
          /\ \A x \in 1 .. Len(mounts) - 1 : mounts'[x] = mounts[x + 1]
      BY <2>2, <2>3, HeadTailProperties
    <3>3. \A x \in DOMAIN mounts' : Given(mounts'[x])
      BY <3>1, <3>2
    <3> QED BY <2>2, <3>3 DEF Sourced, Given
  <2>7. Claim' = Claim
    BY <2>2 DEF Claim, FromAbove
  <2>8. CASE ~Claim
    <3>1. RootUntouched'
      BY <2>2, <2>8 DEF RootUntouched, Claim, FromAbove
    <3> QED BY <2>5, <2>6, <2>7, <2>8, <3>1 DEF IInv, EphemeralInv
  <2>9. CASE Claim /\ Covered /\ chroot
    <3>1. Apart(At(p)[1], At(p)[2])
      BY <2>1, <2>2, <2>9, RootIsHidden
    <3>2. RootUntouched'
      <4>1. ~(At(p)[1] = Host /\ IsPrefix(RootPath, At(p)[2]))
        BY <3>1 DEF Apart
      <4> QED BY <2>1, <2>2, <2>9, <4>1
              DEF RootUntouched, Claim, FromAbove
    <3>3. e.how # "remount" => Apart(m.fs, m.base)
      <4> SUFFICES ASSUME e.how # "remount" PROVE Apart(m.fs, m.base)
        OBVIOUS
      <4>1. m.fs = From(e, p).fs /\ m.base = From(e, p).base
        BY DEF Added
      <4>2. CASE e.type = "user" /\ e.how = "bind"
        <5>1. From(e, p) = Source(e.src)
          BY <4>2 DEF From
        <5>2. Given(e)
          <6>1. 1 \in DOMAIN mounts /\ mounts[1] = e
            BY <2>3
          <6> QED BY <2>1, <6>1 DEF EphemeralInv, Sourced
        <5>3. PICK j \in DOMAIN specs : specs[j].word # "tmp" /\ specs[j].src = e.src
          BY <4>2, <5>2 DEF Given
        <5>4. e.src \in Paths
          BY <2>2 DEF EntryType
        <5>5. e.src = RootPath \/ ~IsPrefix(e.src, RootPath)
          BY <2>9, <5>3 DEF Claim, FromAbove
        <5>6. e.src = RootPath => Inside(e.src)
          BY <2>9, <5>4, OwnPrefix DEF Inside, Top
        <5> QED BY <2>1, <2>9, <4>1, <5>1, <5>4, <5>5, <5>6, SourceIsApart
      <4>3. CASE e.type = "procsys"
        <5>1. From(e, p).fs = At(p)[1] /\ From(e, p).base = At(p)[2]
          BY <4>3 DEF From, Seen
        <5> QED BY <3>1, <4>1, <5>1
      <4>4. CASE e.type # "procsys" /\ ~(e.type = "user" /\ e.how = "bind")
        <5>1. From(e, p).fs = <<e.type, Len(tab)>>
          BY <4>4 DEF From
        <5>2. e.type # "host"
          BY <2>2 DEF EntryType, Types
        <5> QED BY <4>1, <5>1, <5>2 DEF Apart, Host
      <4> QED BY <4>2, <4>3, <4>4
    <3>4. Covered'
      <4>1. CASE e.how = "remount"
        <5>1. Len(tab') = Len(tab)
          BY <2>1, <2>2, <2>3, <4>1, Remount
        <5> QED BY <2>3, <2>4, <2>9, <5>1 DEF Covered, Apart
      <4>2. CASE e.how # "remount"
        <5>1. Len(tab') = Len(tab) + 1 /\ tab'[Len(tab) + 1] = m
          BY <2>1, <2>2, <4>2, AppendMount
        <5>2. Len(tab) >= 2 /\ tab'[2].dst = <<>>
          BY <2>3, <2>4, <2>9 DEF Covered
        <5>3. ASSUME NEW i \in 2 .. Len(tab') PROVE Apart(tab'[i].fs, tab'[i].base)
          <6>1. CASE i = Len(tab) + 1
            BY <3>3, <4>2, <5>1, <6>1
          <6>2. CASE i # Len(tab) + 1
            <7>1. i \in 2 .. Len(tab) /\ i \in 1 .. Len(tab)
              BY <2>3, <5>1, <6>2
            <7> QED BY <2>4, <2>9, <7>1 DEF Covered
          <6> QED BY <6>1, <6>2
        <5> QED BY <2>3, <5>1, <5>2, <5>3 DEF Covered, Apart
      <4> QED BY <4>1, <4>2
    <3> QED BY <2>2, <2>5, <2>6, <2>9, <3>2, <3>4 DEF IInv, EphemeralInv
  <2>10. CASE Claim /\ Bare /\ chroot
    <3>1. e = EphemeralRoot[1] /\ p = <<>> /\ Len(tab) = 1 /\ made = {}
      BY <2>2, <2>10 DEF Bare, EphemeralRoot, Entry, MountPoint
    <3>2. Visible(p) = 1 /\ Kind(p) = "dir"
      BY <2>1, <2>2, <2>3, <2>10, <3>1 DEF Kind, Bare, Typed
    <3>3. made' = {}
      BY <2>2, <3>1, <3>2
    <3>4. e.how = "overlay" /\ e.type = "ephemeral"
      BY <3>1 DEF EphemeralRoot, Entry
    <3>5. m.dst = <<>> /\ m.fs # Host
      BY <3>1, <3>4 DEF Added, From, Host
    <3>6. Len(tab') = 2 /\ tab'[2] = m
      BY <2>1, <2>2, <3>1, <3>4, AppendMount
    <3>7. Covered'
      BY <3>5, <3>6 DEF Covered, Apart
    <3>8. RootUntouched'
      BY <3>3 DEF RootUntouched
    <3> QED BY <2>2, <2>5, <2>6, <2>10, <3>7, <3>8 DEF IInv, EphemeralInv
  <2> QED BY <2>1, <2>2, <2>8, <2>9, <2>10 DEF EphemeralInv
<1> QED BY <1>1, <1>2

-----------------------------------------------------------------------------
(* The files in /dev: by then there is no entry of the list left.          *)

LEMMA NodesHavePaths ==
    /\ \A i \in DOMAIN Nodes : Node(Nodes[i]) \in Paths
    /\ Node("ptmx") \in Paths /\ Node("console") \in Paths /\ Slave \in Paths
<1>1. \A i \in DOMAIN Nodes : Nodes[i] \in STRING
  BY MountAssumption, ElementOfSeq
<1> QED BY <1>1, NamesMakePaths DEF Node, Names, Slave

LEMMA BoundHasType ==
    ASSUME Typed, NEW n, Node(n) \in Paths, NEW type \in {"node", "console"}, NEW src \in Paths
    PROVE  Bound(type, n, src) \in MountType
<1>1. Source(src) \in ShownType
  BY SourceHasType
<1> QED BY <1>1 DEF Bound, MountType, ShownType

\* The table after setup_nodes().
LEMMA NodesMounted ==
    ASSUME Typed, setup_nodes, pc' # "failed",
           NEW bound, bound = [i \in DOMAIN Nodes |-> Bound("node", Nodes[i], Node(Nodes[i]))]
    PROVE  /\ Len(tab) \in Nat \ {0} /\ Len(Nodes) \in Nat /\ DOMAIN Nodes = 1 .. Len(Nodes)
           /\ \A i \in DOMAIN Nodes : bound[i] \in MountType
           /\ tab' \in Seq(MountType) /\ Len(tab') = Len(tab) + Len(Nodes)
           /\ \A i \in 1 .. Len(tab) : tab'[i] = tab[i]
           /\ \A i \in DOMAIN Nodes : tab'[Len(tab) + i] = bound[i]
<1>1. Nodes \in Seq(STRING) /\ Len(Nodes) \in Nat /\ DOMAIN Nodes = 1 .. Len(Nodes)
  BY MountAssumption
<1>2. \A i \in DOMAIN Nodes : bound[i] \in MountType
  BY NodesHavePaths, BoundHasType
<1>3. bound \in Seq(MountType) /\ Len(bound) = Len(Nodes)
  <2>1. bound \in [1 .. Len(Nodes) -> MountType]
    BY <1>1, <1>2
  <2> QED BY <1>1, <2>1
<1>4. tab' = tab \o bound
  BY DEF setup_nodes, Fail
<1>5. tab \in Seq(MountType) /\ Len(tab) \in Nat \ {0}
  BY EmptySeq DEF Typed
<1>6. /\ tab' \in Seq(MountType) /\ Len(tab') = Len(tab) + Len(bound)
      /\ \A i \in 1 .. Len(tab) + Len(bound) :
             tab'[i] = IF i <= Len(tab) THEN tab[i] ELSE bound[i - Len(tab)]
  BY <1>3, <1>4, <1>5, ConcatProperties
<1>7. \A i \in 1 .. Len(tab) : tab'[i] = tab[i]
  BY <1>1, <1>3, <1>5, <1>6
<1>8. ASSUME NEW i \in DOMAIN Nodes PROVE tab'[Len(tab) + i] = bound[i]
  <2> PICK y : y = Len(tab) + i
    OBVIOUS
  <2>1. y \in 1 .. Len(tab) + Len(bound) /\ ~(y <= Len(tab)) /\ y - Len(tab) = i
    BY <1>1, <1>3, <1>5
  <2>2. tab'[y] = bound[y - Len(tab)]
    BY <1>6, <2>1
  <2> QED BY <2>1, <2>2
<1> QED BY <1>1, <1>2, <1>3, <1>5, <1>6, <1>7, <1>8

\* Outside the list's mounts the overlay is in place.
LEMMA CoveredLater ==
    ASSUME IInv, Claim, pc \in {"nodes", "links", "console"}
    PROVE  chroot /\ Covered
BY DEF IInv, EphemeralInv, Bare

LEMMA NodesKeep == ASSUME IInv, setup_nodes PROVE IInv'
<1>1. CASE pc' = "failed"
  <2>1. Fail /\ pc # "done"
    BY <1>1 DEF setup_nodes
  <2> QED BY <2>1, FailKeeps
<1>2. CASE pc' # "failed"
  <2> PICK new, bound : /\ new = UNION {Missing(Node(n)) : n \in ToSet(Nodes)}
                        /\ bound = [i \in DOMAIN Nodes |->
                                       Bound("node", Nodes[i], Node(Nodes[i]))]
    OBVIOUS
  <2>1. /\ pc = "nodes" /\ pc' = "links" /\ made' = made \cup new
        /\ UNCHANGED <<chroot, ephemeral, specs, read, mounts>>
        /\ Typed /\ EphemeralInv /\ RootUntouched
    BY <1>2 DEF setup_nodes, Fail, options, IInv
  <2>2. /\ Len(tab) \in Nat \ {0} /\ Len(Nodes) \in Nat /\ DOMAIN Nodes = 1 .. Len(Nodes)
        /\ \A i \in DOMAIN Nodes : bound[i] \in MountType
        /\ tab' \in Seq(MountType) /\ Len(tab') = Len(tab) + Len(Nodes)
        /\ \A i \in 1 .. Len(tab) : tab'[i] = tab[i]
        /\ \A i \in DOMAIN Nodes : tab'[Len(tab) + i] = bound[i]
    BY <1>2, <2>1, NodesMounted
  <2>3. tab'[1] = tab[1] /\ tab' # <<>>
    BY <2>2
  <2>4. Typed'
    BY <2>1, <2>2, <2>3 DEF Typed
  <2>5. Sourced'
    BY <2>1 DEF EphemeralInv, Sourced, Given
  <2>6. Claim' = Claim
    BY <2>1 DEF Claim, FromAbove
  <2>7. ASSUME Claim PROVE chroot' /\ Covered' /\ RootUntouched'
    <3>1. chroot /\ Covered
      BY <2>1, <2>7, CoveredLater
    <3>2. \A q \in new : ~(q[1] = Host /\ IsPrefix(RootPath, q[2]))
      <4>1. \A n \in ToSet(Nodes) : Apart(At(Node(n))[1], At(Node(n))[2])
        BY <2>1, <2>7, <3>1, NodesHavePaths, RootIsHidden DEF ToSet
      <4> QED BY <4>1 DEF Missing, Apart
    <3>3. RootUntouched'
      BY <2>1, <2>7, <3>2 DEF RootUntouched, Claim, FromAbove
    <3>4. ASSUME NEW i \in DOMAIN Nodes PROVE Apart(bound[i].fs, bound[i].base)
      <4> PICK src : src = Node(Nodes[i])
        OBVIOUS
      <4>1. src \in Paths /\ ~IsPrefix(src, RootPath)
        BY NodesHavePaths, MountAssumption DEF ToSet
      <4>2. Apart(Source(src).fs, Source(src).base)
        BY <2>1, <2>7, <3>1, <4>1, SourceIsApart
      <4>3. bound[i].fs = Source(src).fs /\ bound[i].base = Source(src).base
        BY DEF Bound
      <4> QED BY <4>2, <4>3
    <3>5. ASSUME NEW i \in 2 .. Len(tab') PROVE Apart(tab'[i].fs, tab'[i].base)
      <4>1. CASE i <= Len(tab)
        <5>1. i \in 2 .. Len(tab) /\ tab'[i] = tab[i]
          BY <2>2, <4>1
        <5> QED BY <3>1, <5>1 DEF Covered
      <4>2. CASE ~(i <= Len(tab))
        <5> PICK h : h = i - Len(tab)
          OBVIOUS
        <5>1. h \in DOMAIN Nodes /\ i = Len(tab) + h
          BY <2>2, <4>2
        <5> QED BY <2>2, <3>4, <5>1
      <4> QED BY <4>1, <4>2
    <3>6. Len(tab') >= 2 /\ tab'[2].dst = <<>>
      BY <2>2, <3>1 DEF Covered
    <3> QED BY <2>1, <3>1, <3>3, <3>5, <3>6 DEF Covered, Apart
  <2>8. ~Claim => RootUntouched'
    BY <2>1 DEF RootUntouched, Claim, FromAbove
  <2> QED BY <2>4, <2>5, <2>6, <2>7, <2>8 DEF IInv, EphemeralInv
<1> QED BY <1>1, <1>2

LEMMA SymlinksKeep == ASSUME IInv, setup_symlinks PROVE IInv'
<1>1. CASE pc' = "failed"
  <2>1. Fail /\ pc # "done"
    BY <1>1 DEF setup_symlinks
  <2> QED BY <2>1, FailKeeps
<1>2. CASE pc' # "failed"
  <2>1. /\ pc = "links" /\ pc' = "console" /\ made' = made \cup {At(Node("ptmx"))}
        /\ UNCHANGED <<chroot, ephemeral, specs, read, mounts, tab>>
        /\ Typed /\ EphemeralInv /\ RootUntouched
    BY <1>2 DEF setup_symlinks, Fail, options, IInv
  <2>2. Typed' /\ Sourced' /\ Claim' = Claim
    BY <2>1 DEF Typed, EphemeralInv, Sourced, Given, Claim, FromAbove
  <2>3. ASSUME Claim PROVE chroot' /\ Covered' /\ RootUntouched'
    <3>1. chroot /\ Covered
      BY <2>1, <2>3, CoveredLater
    <3>2. Apart(At(Node("ptmx"))[1], At(Node("ptmx"))[2])
      BY <2>1, <2>3, <3>1, NodesHavePaths, RootIsHidden
    <3>3. RootUntouched'
      BY <2>1, <2>3, <3>2 DEF RootUntouched, Claim, FromAbove, Apart
    <3> QED BY <2>1, <3>1, <3>3 DEF Covered
  <2>4. ~Claim => RootUntouched'
    BY <2>1 DEF RootUntouched, Claim, FromAbove
  <2> QED BY <2>2, <2>3, <2>4 DEF IInv, EphemeralInv
<1> QED BY <1>1, <1>2

LEMMA ConsoleKeeps == ASSUME IInv, setup_console PROVE IInv'
<1>1. CASE pc' = "failed"
  <2>1. Fail /\ pc # "done"
    BY <1>1 DEF setup_console
  <2> QED BY <2>1, FailKeeps
<1>2. CASE pc' # "failed"
  <2> PICK m : m = Bound("console", "console", Slave)
    OBVIOUS
  <2>1. /\ tab' = Append(tab, m) /\ pc' = "done"
        /\ UNCHANGED <<chroot, ephemeral, specs, read, mounts, made>>
        /\ Typed /\ EphemeralInv /\ RootUntouched
    BY <1>2 DEF setup_console, Fail, options, disk, IInv
  <2>2. m \in MountType
    BY <2>1, NodesHavePaths, BoundHasType
  <2>3. Typed'
    BY <2>1, <2>2, AppendMount DEF Typed
  <2>4. Sourced' /\ RootUntouched'
    BY <2>1 DEF EphemeralInv, Sourced, Given, RootUntouched, FromAbove
  <2>5. Claim => chroot /\ chroot'
    BY <2>1 DEF EphemeralInv, Claim
  <2>6. Claim' = Claim
    BY <2>1 DEF Claim, FromAbove
  <2> QED BY <2>1, <2>3, <2>4, <2>5, <2>6 DEF IInv, EphemeralInv
<1> QED BY <1>1, <1>2

LEMMA StepIInv == IInv /\ [Next]_vars => IInv'
<1> SUFFICES ASSUME IInv, [Next]_vars PROVE IInv'
  OBVIOUS
<1>1. CASE UNCHANGED vars
  <2>1. Typed'
    BY <1>1 DEF IInv, Typed, vars, options
  <2>2. RootUntouched'
    BY <1>1 DEF IInv, RootUntouched, FromAbove, vars, options, disk
  <2>3. EphemeralInv'
    BY <1>1 DEF IInv, EphemeralInv, Sourced, Given, Claim, FromAbove, Covered, Bare, vars,
                options, disk
  <2> QED BY <2>1, <2>2, <2>3 DEF IInv
<1> QED
  BY <1>1, AddKeeps, ConcatKeeps, MountKeeps, MountedKeeps, NodesKeep, SymlinksKeep, ConsoleKeeps
     DEF Next

\* With --ephemeral nothing is ever created in the container's real root, be it the mount
\* points, the user's included, or the files in /dev (mount.c:171, 204), whatever the root
\* but "/", and whatever is mounted but a directory above the root: the overlay is the first
\* mount of all, at a place that is there already, and from then on no path of the container
\* leads into the root, nor does the source of any bind mount.
THEOREM EphemeralRootIsKept == Spec => []RootUntouched
<1>1. IInv => RootUntouched
  BY DEF IInv
<1> QED BY <1>1, InitIInv, StepIInv, PTL DEF Spec

-----------------------------------------------------------------------------
(* What is seen at a place.                                                *)

\* A mount of the user's, or the kind of file system that the mount shows.
Tag(m) == IF m.type = "user" THEN "--mount" ELSE m.fs[1]

\* The latest mount on the way to d is at d, and it is one of these.
Shows(d, tag, ro) ==
    \E l \in DOMAIN tab :
        /\ tab[l].dst = d /\ Covers(d, d) /\ Tag(tab[l]) = tag /\ tab[l].ro = ro
        /\ \A j \in DOMAIN tab : j > l => ~Covers(tab[j].dst, d)

LEMMA CoversStays ==
    ASSUME chroot' = chroot
    PROVE  \A d, p : Covers(d, p)' = Covers(d, p)
BY DEF Covers, Reenters, Top

LEMMA ShownIsSeen ==
    ASSUME Typed, NEW d \in Paths, NEW tag, NEW ro, Shows(d, tag, ro)
    PROVE  /\ Visible(d) \in DOMAIN tab /\ tab[Visible(d)].dst = d
           /\ Tag(tab[Visible(d)]) = tag /\ tab[Visible(d)].ro = ro
<1>1. PICK l \in DOMAIN tab :
        /\ tab[l].dst = d /\ Covers(d, d) /\ Tag(tab[l]) = tag /\ tab[l].ro = ro
        /\ \A j \in DOMAIN tab : j > l => ~Covers(tab[j].dst, d)
  BY DEF Shows
<1>2. /\ Visible(d) \in DOMAIN tab /\ l <= Visible(d)
      /\ Visible(d) = 1 \/ Covers(tab[Visible(d)].dst, d)
  BY <1>1, VisibleIsLatest
<1>3. \A j \in DOMAIN tab : j \in Nat /\ 1 <= j
  BY DEF Typed
<1>4. Visible(d) = l
  BY <1>1, <1>2, <1>3
<1> QED BY <1>1, <1>4

LEMMA ShownUnderAppend ==
    ASSUME Typed, NEW m \in MountType, tab' = Append(tab, m), chroot' = chroot,
           NEW d, NEW tag, NEW ro, Shows(d, tag, ro), ~Covers(m.dst, d)
    PROVE  Shows(d, tag, ro)'
<1>1. PICK l \in DOMAIN tab :
        /\ tab[l].dst = d /\ Covers(d, d) /\ Tag(tab[l]) = tag /\ tab[l].ro = ro
        /\ \A j \in DOMAIN tab : j > l => ~Covers(tab[j].dst, d)
  BY DEF Shows
<1>2. /\ Len(tab) \in Nat /\ DOMAIN tab = 1 .. Len(tab) /\ DOMAIN tab' = 1 .. Len(tab) + 1
      /\ tab'[Len(tab) + 1] = m /\ \A i \in 1 .. Len(tab) : tab'[i] = tab[i]
  BY AppendMount DEF Typed
<1>3. \A j \in DOMAIN tab' : j > l => ~Covers(tab'[j].dst, d)
  BY <1>1, <1>2
<1>4. l \in DOMAIN tab' /\ tab'[l] = tab[l]
  BY <1>2
<1> QED BY <1>1, <1>3, <1>4, CoversStays DEF Shows

LEMMA AppendedIsShown ==
    ASSUME Typed, NEW m \in MountType, tab' = Append(tab, m), chroot' = chroot,
           Covers(m.dst, m.dst)
    PROVE  Shows(m.dst, Tag(m), m.ro)'
<1>1. /\ Len(tab) \in Nat /\ DOMAIN tab' = 1 .. Len(tab) + 1 /\ tab'[Len(tab) + 1] = m
  BY AppendMount DEF Typed
<1>2. Len(tab) + 1 \in DOMAIN tab' /\ \A j \in DOMAIN tab' : ~(j > Len(tab) + 1)
  BY <1>1
<1> QED BY <1>1, <1>2, CoversStays DEF Shows

\* A remount of the mount at another place.
LEMMA ShownUnderRemount ==
    ASSUME Typed, NEW v \in DOMAIN tab, NEW new \in BOOLEAN, tab' = [tab EXCEPT ![v].ro = new],
           chroot' = chroot,
           NEW d, NEW tag, NEW ro, Shows(d, tag, ro), tab[v].dst # d
    PROVE  Shows(d, tag, ro)'
<1>1. PICK l \in DOMAIN tab :
        /\ tab[l].dst = d /\ Covers(d, d) /\ Tag(tab[l]) = tag /\ tab[l].ro = ro
        /\ \A j \in DOMAIN tab : j > l => ~Covers(tab[j].dst, d)
  BY DEF Shows
<1>2. tab'[l] = tab[l]
  BY <1>1
<1>3. /\ DOMAIN tab = 1 .. Len(tab) /\ DOMAIN tab' = 1 .. Len(tab)
      /\ \A i \in 1 .. Len(tab) : tab'[i].dst = tab[i].dst
  BY Remount DEF Typed
<1> QED BY <1>1, <1>2, <1>3, CoversStays DEF Shows

LEMMA RemountedIsShown ==
    ASSUME Typed, NEW d \in Paths, NEW tag, NEW ro, Shows(d, tag, ro),
           NEW new \in BOOLEAN, tab' = [tab EXCEPT ![Visible(d)].ro = new], chroot' = chroot
    PROVE  Shows(d, tag, new)'
<1> DEFINE v == Visible(d)
<1>1. /\ v \in DOMAIN tab /\ tab[v].dst = d /\ Tag(tab[v]) = tag
      /\ \A j \in DOMAIN tab : Covers(tab[j].dst, d) => j <= v
  BY ShownIsSeen, VisibleIsLatest
<1>2. tab' = [tab EXCEPT ![v].ro = new]
  OBVIOUS
<1> HIDE DEF v
<1>3. /\ DOMAIN tab = 1 .. Len(tab) /\ DOMAIN tab' = 1 .. Len(tab) /\ Len(tab) \in Nat
      /\ \A i \in 1 .. Len(tab) :
             /\ tab'[i].dst = tab[i].dst /\ tab'[i].type = tab[i].type
             /\ tab'[i].fs = tab[i].fs
  BY <1>1, <1>2, Remount DEF Typed
<1>4. tab[v] \in MountType
  BY <1>1, MountsHaveType
<1>5. tab'[v].ro = new
  BY <1>1, <1>2, <1>4 DEF MountType
<1>6. Covers(d, d)
  BY DEF Shows
<1>7. \A j \in DOMAIN tab' : j > v => ~Covers(tab'[j].dst, d)
  BY <1>1, <1>3
<1> QED BY <1>1, <1>3, <1>5, <1>6, <1>7, CoversStays DEF Shows, Tag

-----------------------------------------------------------------------------
(* What a mount does to what is seen.                                      *)

LEMMA ShownUnderMount ==
    ASSUME Typed, MountNext, pc' # "failed", NEW d \in Paths, NEW tag, NEW ro,
           Shows(d, tag, ro), ~Covers(MountPoint(Head(mounts).dst), d)
    PROVE  Shows(d, tag, ro)'
<1> PICK e, p : e = Head(mounts) /\ p = MountPoint(e.dst)
  OBVIOUS
<1> PICK v, m : v = Visible(p) /\ m = Added(e, p)
  OBVIOUS
<1>1. /\ e \in EntryType /\ p \in Paths /\ m \in MountType /\ v \in DOMAIN tab
      /\ IF e.how = "remount"
         THEN tab[v].dst = p /\ tab' = [tab EXCEPT ![v].ro = e.ro]
         ELSE tab' = Append(tab, m)
      /\ chroot' = chroot
  BY MountEffect
<1>2. m.dst = p /\ e.ro \in BOOLEAN
  BY <1>1 DEF Added, EntryType
<1>3. ~Covers(p, d) /\ p # d
  BY DEF Shows
<1> QED BY <1>1, <1>2, <1>3, ShownUnderAppend, ShownUnderRemount

LEMMA MountIsShown ==
    ASSUME Typed, MountNext, pc' # "failed", NEW e, e = Head(mounts), e.how # "remount",
           NEW p, p = MountPoint(e.dst), NEW m, m = Added(e, p)
    PROVE  /\ Covers(p, p) => Shows(p, Tag(m), m.ro)'
           /\ tab'[Len(tab')] = m
<1>1. m \in MountType /\ tab' = Append(tab, m) /\ chroot' = chroot
  BY MountEffect
<1>2. m.dst = p
  BY DEF Added
<1> QED BY <1>1, <1>2, AppendMount, AppendedIsShown

LEMMA RemountIsShown ==
    ASSUME Typed, MountNext, pc' # "failed", NEW e, e = Head(mounts), e.how = "remount",
           NEW p, p = MountPoint(e.dst), NEW tag, NEW ro, Shows(p, tag, ro)
    PROVE  Shows(p, tag, e.ro)'
<1>1. /\ e \in EntryType /\ p \in Paths /\ chroot' = chroot
      /\ tab' = [tab EXCEPT ![Visible(p)].ro = e.ro]
  BY MountEffect
<1>2. e.ro \in BOOLEAN
  BY <1>1 DEF EntryType
<1> QED BY <1>1, <1>2, RemountedIsShown

\* A file in /dev hides nothing but what is at it or below it.
LEMMA ShownUnderBound ==
    ASSUME Typed, setup_console \/ setup_symlinks, pc' # "failed",
           NEW d \in Paths, NEW tag, NEW ro, Shows(d, tag, ro), ~IsPrefix(Node("console"), d)
    PROVE  Shows(d, tag, ro)'
<1>1. CASE setup_symlinks
  BY <1>1, CoversStays DEF setup_symlinks, Fail, Shows, options
<1>2. CASE setup_console
  <2> PICK m : m = Bound("console", "console", Slave)
    OBVIOUS
  <2>1. m \in MountType /\ m.dst = Node("console")
    BY NodesHavePaths, BoundHasType DEF Bound
  <2>2. tab' = Append(tab, m) /\ chroot' = chroot
    BY <1>2 DEF setup_console, Fail, options
  <2>3. ~Covers(m.dst, d)
    BY <2>1 DEF Covers
  <2> QED BY <2>1, <2>2, <2>3, ShownUnderAppend
<1> QED BY <1>1, <1>2

LEMMA ShownUnderNodes ==
    ASSUME Typed, setup_nodes, pc' # "failed", NEW d \in Paths, NEW tag, NEW ro,
           Shows(d, tag, ro), \A n \in ToSet(Nodes) : ~IsPrefix(Node(n), d)
    PROVE  Shows(d, tag, ro)'
<1> PICK bound : bound = [i \in DOMAIN Nodes |-> Bound("node", Nodes[i], Node(Nodes[i]))]
  OBVIOUS
<1>1. /\ Len(tab) \in Nat \ {0} /\ Len(Nodes) \in Nat /\ DOMAIN Nodes = 1 .. Len(Nodes)
      /\ tab' \in Seq(MountType) /\ Len(tab') = Len(tab) + Len(Nodes)
      /\ \A i \in 1 .. Len(tab) : tab'[i] = tab[i]
      /\ \A i \in DOMAIN Nodes : tab'[Len(tab) + i] = bound[i]
  BY NodesMounted
<1>2. DOMAIN tab = 1 .. Len(tab) /\ DOMAIN tab' = 1 .. Len(tab') /\ chroot' = chroot
  BY <1>1 DEF Typed, setup_nodes, Fail, options
<1>3. \A i \in DOMAIN Nodes : bound[i].dst = Node(Nodes[i]) /\ ~Covers(bound[i].dst, d)
  BY DEF Bound, ToSet, Covers
<1>4. PICK l \in DOMAIN tab :
        /\ tab[l].dst = d /\ Covers(d, d) /\ Tag(tab[l]) = tag /\ tab[l].ro = ro
        /\ \A j \in DOMAIN tab : j > l => ~Covers(tab[j].dst, d)
  BY DEF Shows
<1>5. ASSUME NEW j \in DOMAIN tab', j > l PROVE ~Covers(tab'[j].dst, d)
  <2>1. CASE j <= Len(tab)
    BY <1>1, <1>2, <1>4, <1>5, <2>1
  <2>2. CASE ~(j <= Len(tab))
    <3> PICK h : h = j - Len(tab)
      OBVIOUS
    <3>1. h \in DOMAIN Nodes /\ j = Len(tab) + h
      BY <1>1, <1>2, <2>2
    <3> QED BY <1>1, <1>3, <3>1
  <2> QED BY <2>1, <2>2
<1>6. l \in DOMAIN tab' /\ tab'[l] = tab[l]
  BY <1>1, <1>2
<1> QED BY <1>2, <1>4, <1>5, <1>6, CoversStays DEF Shows

-----------------------------------------------------------------------------
(* The system's mounts: the list has them first, in their order.           *)

\* A part of a proc file system is of that type.
FsOf(e) == IF e.type = "procsys" THEN "proc" ELSE e.type

FromUser(e) == e.type = "user" /\ \E j \in DOMAIN specs : e.dst = specs[j].dst

\* The first n of them are made; the third is not read-only until the fourth.
Placed(n) ==
    \A x \in 2 .. n : x # 3 =>
        UserAt(SysAt(x).dst) \/ Shows(SysAt(x).dst, FsOf(SysAt(x)), SysAt(x).ro)

\* The others are left, in their order, and the user's after them.
Left(n) ==
    /\ Len(mounts) >= 10 - n
    /\ \A x \in 1 .. 10 - n : mounts[x] = SysAt(n + x)
    /\ \A x \in DOMAIN mounts : x > 10 - n => FromUser(mounts[x])

Halfway(n) ==
    /\ n = 2 => tab[Len(tab)].dst = <<"proc">> /\ tab[Len(tab)].fs[1] = "proc"
    /\ n = 3 => \E ro : Shows(SysAt(3).dst, "proc", ro)

SystemInv ==
    /\ pc = "parse" => \A x \in DOMAIN mounts : FromUser(mounts[x])
    /\ chroot /\ pc = "mount" => \E n \in 0 .. 10 : Left(n) /\ Placed(n) /\ Halfway(n)
    /\ chroot /\ pc \in {"nodes", "links", "console", "done"} => Placed(10)

\* The container's root is not at one of the paths that the system mounts on.
RootElsewhere == \A i \in DOMAIN SystemMounts : SystemMounts[i].dst # RootPath

LEMMA SysPaths == \A n \in 2 .. 10 : SysAt(n).dst \in Paths
<1> TAKE n \in 2 .. 10
<1>1. n - 1 \in 1 .. Len(SystemMounts)
  BY SystemList
<1>2. SystemMounts[n - 1] \in EntryType
  BY <1>1, SystemList, ElementOfSeq
<1> QED BY <1>2 DEF SysAt, EntryType

\* None of them is mounted over an earlier one.
LEMMA SystemOrder ==
    \A n \in 2 .. 9 : \A x \in 2 .. n : x # 3 => ~IsPrefix(SysAt(n + 1).dst, SysAt(x).dst)
<1> TAKE n \in 2 .. 9
<1> TAKE x \in 2 .. n
<1> SUFFICES ASSUME x # 3, IsPrefix(SysAt(n + 1).dst, SysAt(x).dst) PROVE FALSE
  OBVIOUS
<1> DEFINE s == SysAt(n + 1).dst
           t == SysAt(x).dst
<1>1. Len(s) <= Len(t) /\ \A y \in 1 .. Len(s) : s[y] = t[y]
  <2>1. s \in Paths /\ t \in Paths
    BY SysPaths
  <2> HIDE DEF s, t
  <2>2. IsPrefix(s, t)
    BY DEF s, t
  <2> QED BY <2>1, <2>2, PrefixMeans
<1>2. /\ x = 2 => t = <<"proc">>
      /\ x = 4 => t = <<"proc", "sys">>
      /\ x = 5 => t = <<"sys">>
      /\ x = 6 => t = <<"dev">>
      /\ x = 7 => t = <<"dev", "pts">>
      /\ x = 8 => t = <<"dev", "shm">>
      /\ x = 9 => t = <<"run">>
  BY SystemList DEF New, Entry
<1>3. /\ n = 2 => s = <<"proc", "sys">>
      /\ n = 3 => s = <<"proc", "sys">>
      /\ n = 4 => s = <<"sys">>
      /\ n = 5 => s = <<"dev">>
      /\ n = 6 => s = <<"dev", "pts">>
      /\ n = 7 => s = <<"dev", "shm">>
      /\ n = 8 => s = <<"run">>
      /\ n = 9 => s = <<"sys", "fs", "cgroup">>
  BY SystemList DEF New, Bind, Entry
<1> HIDE DEF s, t
<1>4. Len(s) >= 1 /\ 1 \in 1 .. Len(s)
  <2>1. n = 2 \/ n = 3 \/ n = 4 \/ n = 5 \/ n = 6 \/ n = 7 \/ n = 8 \/ n = 9
    OBVIOUS
  <2>2. Len(s) = 1 \/ Len(s) = 2 \/ Len(s) = 3
    BY <1>3, <2>1
  <2> QED BY <2>2
<1>5. s[1] = t[1]
  BY <1>1, <1>4
<1>6. CASE n = 2 \/ n = 3
  <2>1. x = 2
    BY <1>6
  <2>2. Len(s) = 2 /\ Len(t) = 1
    BY <1>2, <1>3, <1>6, <2>1
  <2> QED BY <1>1, <2>2
<1>7. CASE n = 4
  <2>1. s[1] = "sys"
    BY <1>3, <1>7
  <2>2. x = 2 \/ x = 4
    BY <1>7
  <2>3. t[1] = "proc"
    BY <1>2, <2>2
  <2> QED BY <1>5, <2>1, <2>3
<1>8. CASE n = 5
  <2>1. s[1] = "dev"
    BY <1>3, <1>8
  <2>2. x = 2 \/ x = 4 \/ x = 5
    BY <1>8
  <2>3. t[1] = "proc" \/ t[1] = "sys"
    BY <1>2, <2>2
  <2> QED BY <1>5, <2>1, <2>3
<1>9. CASE n = 6 \/ n = 7
  <2>1. 2 \in 1 .. Len(s) /\ Len(s) = 2 /\ s[1] = "dev"
    <3>1. s = <<"dev", "pts">> \/ s = <<"dev", "shm">>
      BY <1>3, <1>9
    <3>2. Len(s) = 2 /\ s[1] = "dev"
      BY <3>1
    <3> QED BY <3>2
  <2>2. s[2] = t[2] /\ Len(t) >= 2
    BY <1>1, <2>1
  <2>3. x = 2 \/ x = 4 \/ x = 5 \/ x = 6 \/ (n = 7 /\ x = 7)
    BY <1>9
  <2>4. CASE x = 2 \/ x = 5 \/ x = 6
    <3>1. Len(t) = 1
      BY <1>2, <2>4
    <3> QED BY <2>2, <3>1
  <2>5. CASE x = 4
    <3>1. t[1] = "proc"
      BY <1>2, <2>5
    <3> QED BY <1>5, <2>1, <3>1
  <2>6. CASE n = 7 /\ x = 7
    <3>1. t[2] = "pts" /\ s[2] = "shm"
      BY <1>2, <1>3, <2>6
    <3> QED BY <2>2, <3>1
  <2> QED BY <2>3, <2>4, <2>5, <2>6
<1>10. CASE n = 8
  <2>1. s[1] = "run"
    BY <1>3, <1>10
  <2>2. x = 2 \/ x = 4 \/ x = 5 \/ x = 6 \/ x = 7 \/ x = 8
    BY <1>10
  <2>3. t[1] = "proc" \/ t[1] = "sys" \/ t[1] = "dev"
    BY <1>2, <2>2
  <2> QED BY <1>5, <2>1, <2>3
<1>11. CASE n = 9
  <2>1. x = 2 \/ x = 4 \/ x = 5 \/ x = 6 \/ x = 7 \/ x = 8 \/ x = 9
    BY <1>11
  <2>2. Len(t) = 1 \/ Len(t) = 2
    BY <1>2, <2>1
  <2>3. Len(s) = 3
    BY <1>3, <1>11
  <2> QED BY <1>1, <2>2, <2>3
<1>12. n = 2 \/ n = 3 \/ n = 4 \/ n = 5 \/ n = 6 \/ n = 7 \/ n = 8 \/ n = 9
  OBVIOUS
<1> QED BY <1>6, <1>7, <1>8, <1>9, <1>10, <1>11, <1>12

Size(s) == IF s.word = "bind-ro" THEN 2 ELSE 1

LEMMA FromSpecEntries ==
    ASSUME NEW s \in SpecType, s.word # "other"
    PROVE  /\ FromSpec(s) \in Seq(EntryType) /\ Len(FromSpec(s)) = Size(s)
           /\ \A x \in 1 .. Size(s) :
                  /\ FromSpec(s)[x].type = "user" /\ FromSpec(s)[x].dst = s.dst
                  /\ x = 1 => FromSpec(s)[x].how # "remount" /\ FromSpec(s)[x].ro = FALSE
                  /\ x = 1 /\ FromSpec(s)[x].how = "bind" =>
                         s.word \in {"bind", "bind-ro"} /\ FromSpec(s)[x].src = s.src
                  /\ x = 2 => FromSpec(s)[x].how = "remount" /\ FromSpec(s)[x].ro = TRUE
<1>1. FromSpec(s) \in Seq(EntryType)
  BY FromSpecHasType
<1>2. CASE s.word = "bind-ro"
  <2>1. FromSpec(s) = <<Bind("user", s.src, s.dst), Entry("remount", "user", s.src, s.dst, TRUE)>>
    BY <1>2 DEF FromSpec, BindRo
  <2>2. Size(s) = 2
    BY <1>2 DEF Size
  <2> QED BY <1>1, <1>2, <2>1, <2>2 DEF Bind, Entry
<1>3. CASE s.word # "bind-ro"
  <2>1. s.word = "bind" \/ s.word = "overlay" \/ s.word = "tmp"
    BY <1>3 DEF SpecType, Words
  <2>2. \/ s.word = "bind" /\ FromSpec(s) = <<Bind("user", s.src, s.dst)>>
        \/ FromSpec(s) = <<Entry("overlay", "user", s.src, s.dst, FALSE)>>
        \/ FromSpec(s) = <<New("user", s.dst, FALSE)>>
    BY <2>1 DEF FromSpec
  <2>3. Size(s) = 1
    BY <1>3 DEF Size
  <2> QED BY <1>1, <2>2, <2>3 DEF Bind, New, Entry
<1> QED BY <1>2, <1>3

\* How many mounts come before the user's.
Before == IF ~chroot THEN 0 ELSE IF ephemeral THEN 10 ELSE 9

LEMMA WholeListIs ==
    ASSUME Typed, chroot
    PROVE  /\ WholeList \in Seq(EntryType) /\ Len(WholeList) = Before + Len(mounts)
           /\ \A x \in 1 .. Before : WholeList[x] = SysAt(10 - Before + x)
           /\ \A x \in DOMAIN mounts : WholeList[Before + x] = mounts[x]
<1> DEFINE over == IF ephemeral THEN EphemeralRoot ELSE <<>>
           front == over \o SystemMounts
<1>1. /\ over \in Seq(EntryType) /\ Len(over) = (IF ephemeral THEN 1 ELSE 0)
      /\ ephemeral => over[1] = EphemeralRoot[1]
  <2>1. EphemeralRoot \in Seq(EntryType) /\ Len(EphemeralRoot) = 1
    BY NamesMakePaths DEF EphemeralRoot, Entry, EntryType, Hows, Types
  <2>2. <<>> \in Seq(EntryType) /\ Len(<<>>) = 0
    OBVIOUS
  <2>3. CASE ephemeral
    BY <2>1, <2>3
  <2>4. CASE ~ephemeral
    BY <2>2, <2>4
  <2> QED BY <2>3, <2>4
<1>2. /\ SystemMounts \in Seq(EntryType) /\ Len(SystemMounts) = 9
      /\ mounts \in Seq(EntryType) /\ Len(mounts) \in Nat /\ DOMAIN mounts = 1 .. Len(mounts)
  BY SystemList DEF Typed
<1>3. WholeList = front \o mounts
  BY DEF WholeList
<1> HIDE DEF over
<1>4. Len(over) + 9 = Before /\ Len(over) \in {0, 1} /\ Before \in {9, 10}
  BY <1>1 DEF Before
<1>5. /\ front \in Seq(EntryType) /\ Len(front) = Len(over) + Len(SystemMounts)
      /\ \A x \in 1 .. Len(over) + Len(SystemMounts) :
             front[x] = IF x <= Len(over) THEN over[x] ELSE SystemMounts[x - Len(over)]
  BY <1>1, <1>2, ConcatProperties
<1> HIDE DEF front
<1>6. Len(front) = Before
  BY <1>2, <1>4, <1>5
<1>7. /\ WholeList \in Seq(EntryType) /\ Len(WholeList) = Before + Len(mounts)
      /\ \A x \in 1 .. Before + Len(mounts) :
             WholeList[x] = IF x <= Before THEN front[x] ELSE mounts[x - Before]
  BY <1>2, <1>3, <1>5, <1>6, ConcatProperties
<1>8. ASSUME NEW x \in 1 .. Before PROVE WholeList[x] = SysAt(10 - Before + x)
  <2>1. WholeList[x] = front[x]
    BY <1>2, <1>4, <1>7
  <2>2. front[x] = IF x <= Len(over) THEN over[x] ELSE SystemMounts[x - Len(over)]
    BY <1>2, <1>4, <1>5
  <2>3. CASE ephemeral
    BY <1>1, <1>4, <2>1, <2>2, <2>3 DEF SysAt
  <2>4. CASE ~ephemeral
    BY <1>1, <1>4, <2>1, <2>2, <2>4 DEF SysAt
  <2> QED BY <2>3, <2>4
<1>9. ASSUME NEW x \in DOMAIN mounts PROVE WholeList[Before + x] = mounts[x]
  <2>1. /\ Before + x \in 1 .. Before + Len(mounts) /\ ~(Before + x <= Before)
        /\ Before + x - Before = x
    BY <1>2, <1>4
  <2> DEFINE y == Before + x
  <2> HIDE DEF y
  <2>2. y \in 1 .. Before + Len(mounts) /\ ~(y <= Before) /\ y - Before = x
    BY <1>2, <1>4, <2>1 DEF y
  <2>3. WholeList[y] = mounts[y - Before]
    BY <1>7, <2>2
  <2> QED BY <2>2, <2>3 DEF y
<1> QED BY <1>7, <1>8, <1>9

\* The list after one of its entries: what was at x + 1 is at x.
LEMMA TailIs ==
    ASSUME Typed, MountNext, pc' # "failed"
    PROVE  /\ mounts[1] = Head(mounts) /\ Len(mounts) \in Nat \ {0}
           /\ Len(mounts') = Len(mounts) - 1 /\ DOMAIN mounts' = 1 .. Len(mounts) - 1
           /\ \A x \in 1 .. Len(mounts) - 1 : mounts'[x] = mounts[x + 1]
           /\ pc = "mount" /\ UNCHANGED <<chroot, ephemeral, specs, read, pc>>
<1>1. mounts \in Seq(EntryType) /\ mounts # <<>> /\ mounts' = Tail(mounts)
  BY DEF Typed, MountNext, Fail
<1>2. pc = "mount" /\ UNCHANGED <<chroot, ephemeral, specs, read, pc>>
  BY DEF MountNext, Fail, options
<1>3. /\ Len(mounts) \in Nat \ {0} /\ mounts' \in Seq(EntryType)
      /\ Len(mounts') = Len(mounts) - 1
      /\ \A x \in 1 .. Len(mounts) - 1 : mounts'[x] = mounts[x + 1]
  BY <1>1, EmptySeq, HeadTailProperties
<1>4. DOMAIN mounts' = 1 .. Len(mounts')
  BY <1>3
<1> QED BY <1>1, <1>2, <1>3, <1>4

LEMMA SystemAdd == ASSUME IInv, SystemInv, mount_add_from_spec PROVE SystemInv'
<1> DEFINE s == specs[read + 1]
<1>1. CASE ~(s.valid /\ s.word # "other")
  BY <1>1 DEF mount_add_from_spec, Fail, SystemInv
<1>2. CASE s.valid /\ s.word # "other"
  <2>1. /\ pc = "parse" /\ read < Len(specs) /\ mounts' = mounts \o FromSpec(s)
        /\ UNCHANGED <<options, pc, tab, disk>>
    BY <1>2 DEF mount_add_from_spec
  <2>2. /\ read + 1 \in DOMAIN specs /\ s \in SpecType
        /\ mounts \in Seq(EntryType) /\ Len(mounts) \in Nat /\ DOMAIN mounts = 1 .. Len(mounts)
    BY <2>1, ElementOfSeq DEF IInv, Typed
  <2>3. /\ FromSpec(s) \in Seq(EntryType) /\ Len(FromSpec(s)) = Size(s)
        /\ \A x \in 1 .. Size(s) : FromUser(FromSpec(s)[x])
    <3>1. /\ FromSpec(s) \in Seq(EntryType) /\ Len(FromSpec(s)) = Size(s)
          /\ \A x \in 1 .. Size(s) :
                 FromSpec(s)[x].type = "user" /\ FromSpec(s)[x].dst = specs[read + 1].dst
      <4> HIDE DEF s
      <4>1. s.dst = specs[read + 1].dst /\ s.word # "other"
        BY <1>2 DEF s
      <4> QED BY <2>2, <4>1, FromSpecEntries
    <3> QED BY <2>2, <3>1 DEF FromUser
  <2> HIDE DEF s
  <2>4. /\ mounts' \in Seq(EntryType) /\ Len(mounts') = Len(mounts) + Size(s)
        /\ \A x \in 1 .. Len(mounts) + Size(s) :
               mounts'[x] = IF x <= Len(mounts) THEN mounts[x] ELSE FromSpec(s)[x - Len(mounts)]
    BY <2>1, <2>2, <2>3, ConcatProperties
  <2>5. ASSUME NEW x \in DOMAIN mounts' PROVE FromUser(mounts'[x])
    <3>1. x \in 1 .. Len(mounts) + Size(s) /\ Size(s) \in {1, 2}
      BY <2>4 DEF Size
    <3>2. CASE x <= Len(mounts)
      <4>1. x \in DOMAIN mounts /\ mounts'[x] = mounts[x]
        BY <2>2, <2>4, <3>1, <3>2
      <4> QED BY <2>1, <4>1 DEF SystemInv
    <3>3. CASE x > Len(mounts)
      <4>1. x - Len(mounts) \in 1 .. Size(s) /\ mounts'[x] = FromSpec(s)[x - Len(mounts)]
        BY <2>2, <2>4, <3>1, <3>3
      <4> QED BY <2>3, <4>1
    <3> QED BY <2>2, <3>1, <3>2, <3>3
  <2>6. (\A x \in DOMAIN mounts : FromUser(mounts[x]))'
    BY <2>1, <2>5 DEF FromUser, options
  <2> QED BY <2>1, <2>6 DEF SystemInv
<1> QED BY <1>1, <1>2

LEMMA SystemConcat == ASSUME IInv, SystemInv, ConcatMounts PROVE SystemInv'
<1> SUFFICES ASSUME chroot PROVE (\E n \in 0 .. 10 : Left(n) /\ Placed(n) /\ Halfway(n))'
  BY DEF ConcatMounts, SystemInv, options
<1> PICK n \in Int : n = 10 - Before
  BY DEF Before
<1>1. /\ mounts' = WholeList /\ UNCHANGED <<options, tab>> /\ Typed
      /\ \A x \in DOMAIN mounts : FromUser(mounts[x])
  BY DEF ConcatMounts, SystemInv, IInv
<1>2. Before \in {9, 10} /\ n \in {0, 1}
  BY <1>1 DEF Before, Typed
<1>3. /\ WholeList \in Seq(EntryType) /\ Len(WholeList) = Before + Len(mounts)
      /\ \A x \in 1 .. Before : WholeList[x] = SysAt(10 - Before + x)
      /\ \A x \in DOMAIN mounts : WholeList[Before + x] = mounts[x]
  BY <1>1, WholeListIs
<1>4. Len(mounts) \in Nat /\ DOMAIN mounts = 1 .. Len(mounts)
  BY <1>1 DEF Typed
<1>5. Left(n)'
  <2>1. /\ Len(mounts') >= 10 - n /\ 10 - n = Before
        /\ \A x \in 1 .. 10 - n : mounts'[x] = SysAt(n + x)
    BY <1>1, <1>2, <1>3, <1>4
  <2>2. ASSUME NEW x \in DOMAIN mounts', x > 10 - n PROVE FromUser(mounts'[x])
    <3>1. x \in 1 .. Before + Len(mounts) /\ x > Before
      BY <1>1, <1>2, <1>3, <2>2
    <3>2. x - Before \in DOMAIN mounts /\ Before + (x - Before) = x
      BY <1>2, <1>4, <3>1
    <3>3. mounts'[x] = mounts[x - Before]
      BY <1>1, <1>3, <3>2
    <3> QED BY <1>1, <3>2, <3>3
  <2>3. (\A x \in DOMAIN mounts : x > 10 - n => FromUser(mounts[x]))'
    BY <1>1, <2>2 DEF FromUser, options
  <2> QED BY <2>1, <2>3 DEF Left
<1>6. Placed(n)' /\ Halfway(n)'
  <2>1. 2 .. n = {} /\ n # 2 /\ n # 3
    BY <1>2
  <2> QED BY <2>1 DEF Placed, Halfway
<1> QED BY <1>2, <1>5, <1>6

\* Each of them has its place, which is not the root.
LEMMA SystemEntries ==
    ASSUME RootElsewhere, NEW n \in 2 .. 10
    PROVE  /\ SysAt(n).dst \in Paths /\ MountPoint(SysAt(n).dst) = SysAt(n).dst
           /\ SysAt(n).how = "remount" <=> n = 4
           /\ n # 3 /\ n # 4 => FsOf(SysAt(n)) = SysAt(n).type /\ SysAt(n).type # "procsys"
           /\ SysAt(n).type # "user" /\ Covers(SysAt(n).dst, SysAt(n).dst)
<1>1. SysAt(n).dst \in Paths
  BY SysPaths
<1>2. n - 1 \in DOMAIN SystemMounts
  BY SystemList
<1>3. SysAt(n).dst # RootPath
  BY <1>2 DEF RootElsewhere, SysAt
<1>4. n = 2 \/ n = 3 \/ n = 4 \/ n = 5 \/ n = 6 \/ n = 7 \/ n = 8 \/ n = 9 \/ n = 10
  OBVIOUS
<1>5. SysAt(n).how = "remount" <=> n = 4
  BY <1>4, SystemList DEF New, Bind, Entry
<1>6. ASSUME n # 3, n # 4 PROVE SysAt(n).type # "procsys"
  BY <1>4, <1>6, SystemList DEF New, Entry
<1>7. SysAt(n).type # "user"
  BY <1>4, SystemList DEF New, Bind, Entry
<1>8. SysAt(n).dst # <<>>
  BY <1>4, SystemList DEF New, Bind, Entry
<1> QED BY <1>1, <1>3, <1>5, <1>6, <1>7, <1>8, OwnPrefix DEF MountPoint, FsOf, Covers

LEMMA ProcIsAbove == IsPrefix(<<"proc">>, <<"proc", "sys">>)
<1>1. Len(<<"proc">>) = 1 /\ Len(<<"proc", "sys">>) = 2
  OBVIOUS
<1>2. SubSeq(<<"proc">>, 1, 1) = SubSeq(<<"proc", "sys">>, 1, 1)
  OBVIOUS
<1> QED BY <1>1, <1>2 DEF IsPrefix

\* The next of the system's mounts.
LEMMA SystemMount ==
    ASSUME RootElsewhere, Typed, MountNext, pc' # "failed",
           NEW n \in 1 .. 9, Head(mounts) = SysAt(n + 1), Placed(n), Halfway(n)
    PROVE  Placed(n + 1)' /\ Halfway(n + 1)'
<1> DEFINE e == SysAt(n + 1)
           p == e.dst
<1> n + 1 \in 2 .. 10
  OBVIOUS
<1>1. /\ e = Head(mounts) /\ p = MountPoint(e.dst) /\ p \in Paths
      /\ e.how = "remount" <=> n = 3
      /\ n # 2 /\ n # 3 => FsOf(e) = e.type /\ e.type # "procsys"
      /\ e.type # "user" /\ Covers(p, p)
  BY SystemEntries
<1> HIDE DEF e, p
<1>2. UNCHANGED <<chroot, ephemeral, specs, read, pc>>
  BY TailIs
<1>3. \A d : UserAt(d) => UserAt(d)'
  BY <1>2, CoversStays DEF UserAt, MountPoint
<1>4. ASSUME NEW x \in 2 .. n, x # 3
      PROVE  UserAt(SysAt(x).dst)' \/ Shows(SysAt(x).dst, FsOf(SysAt(x)), SysAt(x).ro)'
  <2>1. UserAt(SysAt(x).dst) \/ Shows(SysAt(x).dst, FsOf(SysAt(x)), SysAt(x).ro)
    BY <1>4 DEF Placed
  <2>2. SysAt(x).dst \in Paths
    BY SysPaths
  <2>3. n \in 2 .. 9
    OBVIOUS
  <2>4. ~IsPrefix(SysAt(n + 1).dst, SysAt(x).dst)
    BY <1>4, <2>3, SystemOrder
  <2>5. ~Covers(MountPoint(Head(mounts).dst), SysAt(x).dst)
    BY <1>1, <2>4 DEF e, p, Covers
  <2> QED BY <1>3, <2>1, <2>2, <2>5, ShownUnderMount
<1>5. CASE n = 3
  <2>1. PICK ro : Shows(SysAt(3).dst, "proc", ro)
    BY <1>5 DEF Halfway
  <2>2. p = SysAt(3).dst /\ FsOf(e) = "proc"
    BY <1>5, SystemList DEF e, p, Bind, Entry, FsOf
  <2>3. Shows(p, "proc", e.ro)'
    BY <1>1, <1>5, <2>1, <2>2, RemountIsShown
  <2>4. Shows(SysAt(n + 1).dst, FsOf(SysAt(n + 1)), SysAt(n + 1).ro)'
    BY <2>2, <2>3 DEF e, p
  <2>5. Placed(n + 1)'
    BY <1>4, <1>5, <2>4 DEF Placed
  <2> QED BY <1>5, <2>5 DEF Halfway
<1>6. CASE n # 3
  <2> PICK m : m = Added(e, p)
    OBVIOUS
  <2>1. Shows(p, Tag(m), m.ro)' /\ tab'[Len(tab')] = m
    BY <1>1, <1>6, MountIsShown
  <2> m.type = e.type /\ Tag(m) = m.fs[1]
    BY <1>1 DEF Added, Tag
  <2>2. CASE n # 2
    <3>1. Tag(m) = FsOf(e) /\ m.ro = e.ro
      BY <1>1, <1>6, <2>2 DEF Added, From
    <3>2. Shows(SysAt(n + 1).dst, FsOf(SysAt(n + 1)), SysAt(n + 1).ro)'
      BY <2>1, <3>1 DEF e, p
    <3>3. Placed(n + 1)'
      BY <1>4, <3>2 DEF Placed
    <3>4. ASSUME n = 1 PROVE tab'[Len(tab')].dst = <<"proc">> /\ tab'[Len(tab')].fs[1] = "proc"
      <4>1. p = <<"proc">> /\ e.type = "proc"
        BY <3>4, SystemList DEF e, p, New, Entry
      <4> QED BY <2>1, <4>1 DEF Added, From
    <3> QED BY <1>6, <2>2, <3>3, <3>4 DEF Halfway
  <2>3. CASE n = 2
    <3>1. e.type = "procsys" /\ p = <<"proc", "sys">>
      BY <2>3, SystemList DEF e, p, Bind, Entry
    <3>2. tab[Len(tab)].dst = <<"proc">> /\ tab[Len(tab)].fs[1] = "proc"
      BY <2>3 DEF Halfway
    <3>3. Len(tab) \in Nat \ {0} /\ DOMAIN tab = 1 .. Len(tab)
      BY EmptySeq DEF Typed
    <3>4. Covers(tab[Len(tab)].dst, p)
      BY <3>1, <3>2, ProcIsAbove DEF Covers
    <3>5. Visible(p) = Len(tab)
      BY <1>1, <3>3, <3>4, VisibleIsLatest
    <3>6. m.fs[1] = "proc"
      <4>1. m.fs = From(e, p).fs
        BY DEF Added
      <4>2. From(e, p).fs = At(p)[1]
        BY <1>1, <3>1 DEF From, Seen
      <4>3. At(p)[1] = tab[Visible(p)].fs
        BY DEF At
      <4> QED BY <3>2, <3>5, <4>1, <4>2, <4>3
    <3>7. (\E ro : Shows(SysAt(3).dst, "proc", ro))'
      BY <2>1, <2>3, <3>6 DEF e, p
    <3>8. Placed(n + 1)'
      BY <1>4, <2>3 DEF Placed
    <3> QED BY <2>3, <3>7, <3>8 DEF Halfway
  <2> QED BY <2>2, <2>3
<1> QED BY <1>5, <1>6

\* A mount of the user's is at or above a place of the system's only if UserAt says so.
LEMMA UserMount ==
    ASSUME Typed, MountNext, pc' # "failed", FromUser(Head(mounts)), Placed(10)
    PROVE  Placed(10)'
<1> SUFFICES ASSUME NEW x \in 2 .. 10, x # 3
             PROVE  (UserAt(SysAt(x).dst) \/ Shows(SysAt(x).dst, FsOf(SysAt(x)), SysAt(x).ro))'
  BY DEF Placed
<1>1. SysAt(x).dst \in Paths
  BY SysPaths
<1>2. UserAt(SysAt(x).dst) => UserAt(SysAt(x).dst)'
  BY TailIs, CoversStays DEF UserAt, MountPoint
<1>3. CASE UserAt(SysAt(x).dst)
  BY <1>2, <1>3
<1>4. CASE ~UserAt(SysAt(x).dst)
  <2>1. Shows(SysAt(x).dst, FsOf(SysAt(x)), SysAt(x).ro)
    BY <1>4 DEF Placed
  <2>2. ~Covers(MountPoint(Head(mounts).dst), SysAt(x).dst)
    BY <1>4 DEF FromUser, UserAt
  <2> QED BY <1>1, <2>1, <2>2, ShownUnderMount
<1> QED BY <1>3, <1>4

LEMMA SystemMounted ==
    ASSUME RootElsewhere, IInv, SystemInv, MountNext
    PROVE  SystemInv'
<1>1. CASE pc' = "failed"
  BY <1>1 DEF SystemInv
<1>2. CASE pc' # "failed" /\ chroot
  <2>1. /\ mounts[1] = Head(mounts) /\ Len(mounts) \in Nat \ {0}
        /\ Len(mounts') = Len(mounts) - 1 /\ DOMAIN mounts' = 1 .. Len(mounts) - 1
        /\ \A x \in 1 .. Len(mounts) - 1 : mounts'[x] = mounts[x + 1]
        /\ pc = "mount" /\ UNCHANGED <<chroot, ephemeral, specs, read, pc>>
        /\ DOMAIN mounts = 1 .. Len(mounts)
    BY <1>2, TailIs DEF IInv, Typed
  <2>2. PICK n \in 0 .. 10 : Left(n) /\ Placed(n) /\ Halfway(n)
    BY <1>2, <2>1 DEF SystemInv
  <2> DEFINE next == IF n = 10 THEN 10 ELSE n + 1
  <2>3. Left(next)'
    <3>1. next \in 0 .. 10 /\ 10 - next \in Nat /\ (10 - next = 0 \/ 10 - next = 10 - n - 1)
      OBVIOUS
    <3>2. Len(mounts') >= 10 - next
      BY <2>1, <2>2 DEF Left
    <3>3. \A x \in 1 .. 10 - next : mounts'[x] = SysAt(next + x)
      <4> SUFFICES ASSUME NEW x \in 1 .. 10 - next PROVE mounts'[x] = SysAt(next + x)
        OBVIOUS
      <4>1. next = n + 1 /\ x + 1 \in 1 .. 10 - n /\ next + x = n + (x + 1)
        OBVIOUS
      <4>2. x \in 1 .. Len(mounts) - 1
        BY <2>1, <2>2, <4>1 DEF Left
      <4> QED BY <2>1, <2>2, <4>1, <4>2 DEF Left
    <3>4. ASSUME NEW x \in DOMAIN mounts', x > 10 - next PROVE FromUser(mounts'[x])
      <4>1. x + 1 \in DOMAIN mounts /\ x + 1 > 10 - n /\ mounts'[x] = mounts[x + 1]
        BY <2>1, <3>4
      <4> QED BY <2>2, <4>1 DEF Left
    <3>5. (\A x \in DOMAIN mounts : x > 10 - next => FromUser(mounts[x]))'
      BY <2>1, <3>4 DEF FromUser
    <3> HIDE DEF next
    <3> QED BY <3>2, <3>3, <3>5 DEF Left
  <2>4. Placed(next)' /\ Halfway(next)'
    <3>1. CASE n = 10
      <4>1. FromUser(Head(mounts))
        BY <2>1, <2>2, <3>1 DEF Left
      <4>2. Placed(10)'
        BY <1>2, <2>2, <3>1, <4>1, UserMount DEF IInv
      <4> QED BY <3>1, <4>2 DEF Halfway
    <3>2. CASE n = 0
      <4>1. next = 1 /\ 2 .. next = {}
        BY <3>2
      <4> QED BY <4>1 DEF Placed, Halfway
    <3>3. CASE n \in 1 .. 9
      <4>1. Head(mounts) = SysAt(n + 1)
        BY <2>1, <2>2, <3>3 DEF Left
      <4>2. Placed(n + 1)' /\ Halfway(n + 1)'
        BY <1>2, <2>2, <3>3, <4>1, SystemMount DEF IInv
      <4>3. next = n + 1
        BY <3>3
      <4> QED BY <4>2, <4>3
    <3> QED BY <3>1, <3>2, <3>3
  <2>5. next \in 0 .. 10
    OBVIOUS
  <2> HIDE DEF next
  <2>6. (\E l \in 0 .. 10 : Left(l) /\ Placed(l) /\ Halfway(l))'
    BY <2>3, <2>4, <2>5
  <2> QED BY <2>1, <2>6 DEF SystemInv
<1>3. CASE ~chroot
  BY <1>3 DEF SystemInv, MountNext, Fail, options
<1> QED BY <1>1, <1>2, <1>3

\* No file in /dev is at or above a place of the system's mounts.
LEMMA NodesAside ==
    \A n \in ToSet(Nodes) \cup {"console"} : \A x \in 2 .. 10 : ~IsPrefix(Node(n), SysAt(x).dst)
<1> TAKE n \in ToSet(Nodes) \cup {"console"}
<1> TAKE x \in 2 .. 10
<1> SUFFICES ASSUME IsPrefix(Node(n), SysAt(x).dst) PROVE FALSE
  OBVIOUS
<1>1. n # "pts" /\ n # "shm"
  BY MountAssumption
<1>2. Node(n) \in Paths /\ SysAt(x).dst \in Paths
  BY NodesHavePaths, SysPaths DEF ToSet
<1>3. Node(n) = <<"dev", n>>
  BY DEF Node
<1>4. Len(Node(n)) = 2 /\ Node(n)[1] = "dev" /\ Node(n)[2] = n
  BY <1>3
<1> DEFINE t == SysAt(x).dst
<1>5. /\ Len(t) >= 2 /\ t[1] = "dev" /\ t[2] = n
  <2>1. Len(Node(n)) <= Len(t) /\ \A y \in 1 .. Len(Node(n)) : Node(n)[y] = t[y]
    BY <1>2, PrefixMeans
  <2>2. 1 \in 1 .. Len(Node(n)) /\ 2 \in 1 .. Len(Node(n))
    BY <1>4
  <2> HIDE DEF t
  <2> QED BY <1>4, <2>1, <2>2
<1>6. x = 2 \/ x = 3 \/ x = 4 \/ x = 5 \/ x = 6 \/ x = 7 \/ x = 8 \/ x = 9 \/ x = 10
  OBVIOUS
<1>7. CASE x = 2 \/ x = 5 \/ x = 6 \/ x = 9
  <2>1. Len(t) = 1
    BY <1>7, SystemList DEF New, Entry
  <2> QED BY <1>5, <2>1
<1>8. CASE x = 3 \/ x = 4 \/ x = 10
  <2>1. t[1] = "proc" \/ t[1] = "sys"
    BY <1>8, SystemList DEF New, Bind, Entry
  <2> QED BY <1>5, <2>1
<1>9. CASE x = 7 \/ x = 8
  <2>1. t[2] = "pts" \/ t[2] = "shm"
    BY <1>9, SystemList DEF New, Entry
  <2> QED BY <1>1, <1>5, <2>1
<1> QED BY <1>6, <1>7, <1>8, <1>9

LEMMA SystemLater ==
    ASSUME IInv, SystemInv, setup_nodes \/ setup_symlinks \/ setup_console
    PROVE  SystemInv'
<1>1. CASE pc' = "failed"
  BY <1>1 DEF SystemInv
<1>2. CASE pc' # "failed" /\ chroot
  <2>1. Placed(10) /\ Typed
    BY <1>2 DEF SystemInv, IInv, setup_nodes, setup_symlinks, setup_console
  <2>2. UNCHANGED <<chroot, specs>> /\ pc' \in {"links", "console", "done"}
    BY <1>2 DEF setup_nodes, setup_symlinks, setup_console, Fail, options
  <2>3. ASSUME NEW x \in 2 .. 10, x # 3
        PROVE  (UserAt(SysAt(x).dst) \/ Shows(SysAt(x).dst, FsOf(SysAt(x)), SysAt(x).ro))'
    <3>1. UserAt(SysAt(x).dst) => UserAt(SysAt(x).dst)'
      BY <2>2, CoversStays DEF UserAt, MountPoint
    <3>2. SysAt(x).dst \in Paths
      BY SysPaths
    <3>3. ASSUME Shows(SysAt(x).dst, FsOf(SysAt(x)), SysAt(x).ro)
          PROVE  Shows(SysAt(x).dst, FsOf(SysAt(x)), SysAt(x).ro)'
      <4>1. /\ \A n \in ToSet(Nodes) : ~IsPrefix(Node(n), SysAt(x).dst)
            /\ ~IsPrefix(Node("console"), SysAt(x).dst)
        BY NodesAside
      <4> QED BY <1>2, <2>1, <3>2, <3>3, <4>1, ShownUnderNodes, ShownUnderBound
    <3> QED BY <2>1, <2>3, <3>1, <3>3 DEF Placed
  <2>4. Placed(10)'
    BY <2>3 DEF Placed
  <2> QED BY <2>2, <2>4 DEF SystemInv
<1>3. CASE ~chroot
  BY <1>3 DEF SystemInv, setup_nodes, setup_symlinks, setup_console, Fail, options
<1> QED BY <1>1, <1>2, <1>3

LEMMA SystemEnd == ASSUME IInv, SystemInv, Mounted PROVE SystemInv'
<1>1. ASSUME chroot PROVE Placed(10)
  <2>1. Len(mounts) = 0 /\ pc = "mount"
    BY DEF Mounted
  <2>2. PICK n \in 0 .. 10 : Left(n) /\ Placed(n)
    BY <1>1, <2>1 DEF SystemInv
  <2>3. n = 10
    BY <2>1, <2>2 DEF Left
  <2> QED BY <2>2, <2>3
<1>2. UNCHANGED <<chroot, ephemeral, specs, read, mounts, tab>> /\ pc' \in {"nodes", "done"}
  BY DEF Mounted, options
<1>3. ASSUME chroot PROVE Placed(10)'
  BY <1>1, <1>2, <1>3, CoversStays DEF Placed, Shows, UserAt, MountPoint
<1> QED BY <1>2, <1>3 DEF SystemInv

LEMMA StepSystem == ASSUME RootElsewhere, IInv, SystemInv, [Next]_vars PROVE SystemInv'
<1>1. CASE UNCHANGED vars
  <2>1. UNCHANGED <<chroot, ephemeral, specs, read, mounts, tab, pc>>
    BY <1>1 DEF vars, options
  <2>2. \A d, tag, ro : Shows(d, tag, ro) => Shows(d, tag, ro)'
    BY <2>1, CoversStays DEF Shows
  <2>3. \A d : UserAt(d) => UserAt(d)'
    BY <2>1, CoversStays DEF UserAt, MountPoint
  <2>4. \A n : Left(n) => Left(n)'
    BY <2>1 DEF Left, FromUser
  <2>5. \A n : Placed(n) => Placed(n)'
    BY <2>2, <2>3 DEF Placed
  <2>6. \A n : Halfway(n) => Halfway(n)'
    BY <2>1, <2>2 DEF Halfway
  <2> QED BY <2>1, <2>4, <2>5, <2>6 DEF SystemInv, FromUser
<1> QED
  BY <1>1, SystemAdd, SystemConcat, SystemMounted, SystemEnd, SystemLater DEF Next

\* What the invariant says of the ten mounts is the property.
LEMMA PlacedMeans ==
    ASSUME IInv, SystemInv
    PROVE  SystemInPlace
<1> SUFFICES ASSUME pc = "done", chroot, NEW i \in DOMAIN SystemMounts,
                    NEW e, e = SystemMounts[i], ~UserAt(e.dst)
             PROVE  LET m == tab[Visible(e.dst)] IN
                    /\ m.dst = e.dst
                    /\ m.fs[1] = IF e.type = "procsys" THEN "proc" ELSE e.type
                    /\ m.ro <=> e.dst \in {<<"sys">>, <<"proc", "sys">>}
  BY DEF SystemInPlace
<1> DEFINE x == IF i = 2 THEN 4 ELSE i + 1
<1>1. i \in 1 .. 9 /\ x \in 2 .. 10 /\ x # 3
  BY SystemList
<1>2. e = SysAt(i + 1)
  BY <1>1 DEF SysAt
<1>3. SysAt(x).dst = e.dst /\ SysAt(x).type = e.type
  <2>1. CASE i = 2
    BY <1>2, <2>1, SystemList DEF Bind, Entry
  <2>2. CASE i # 2
    BY <1>2, <2>2
  <2> QED BY <2>1, <2>2
<1>4. SysAt(x).dst \in Paths
  BY <1>1, SysPaths
<1>5. SysAt(x).ro <=> e.dst \in {<<"sys">>, <<"proc", "sys">>}
  <2>1. x = 2 \/ x = 4 \/ x = 5 \/ x = 6 \/ x = 7 \/ x = 8 \/ x = 9 \/ x = 10
    BY <1>1
  <2>2. CASE x = 4 \/ x = 5
    <3>1. SysAt(x).ro = TRUE /\ (SysAt(x).dst = <<"proc", "sys">> \/ SysAt(x).dst = <<"sys">>)
      BY <2>2, SystemList DEF New, Entry
    <3> QED BY <1>3, <3>1
  <2>3. CASE x = 2 \/ x = 6 \/ x = 7 \/ x = 8 \/ x = 9 \/ x = 10
    <3>1. SysAt(x).ro = FALSE
      BY <2>3, SystemList DEF New, Entry
    <3>2. \/ SysAt(x).dst[1] \in {"dev", "run"}
          \/ SysAt(x).dst = <<"proc">> \/ SysAt(x).dst = <<"sys", "fs", "cgroup">>
      BY <2>3, SystemList DEF New, Entry
    <3>3. SysAt(x).dst # <<"sys">> /\ SysAt(x).dst # <<"proc", "sys">>
      BY <3>2
    <3> QED BY <1>3, <3>1, <3>3
  <2> QED BY <2>1, <2>2, <2>3
<1>6. Shows(SysAt(x).dst, FsOf(SysAt(x)), SysAt(x).ro)
  BY <1>1, <1>3 DEF SystemInv, Placed
<1>7. SysAt(x).type # "user" /\ SysAt(x).type \in Types
  <2>1. i = 1 \/ i = 2 \/ i = 3 \/ i = 4 \/ i = 5 \/ i = 6 \/ i = 7 \/ i = 8 \/ i = 9
    BY <1>1
  <2>2. SysAt(i + 1).type \in Types \ {"user"}
    BY <2>1, SystemList DEF New, Bind, Entry, Types
  <2> QED BY <1>2, <1>3, <2>2
<1> HIDE DEF x
<1>8. FsOf(SysAt(x)) # "--mount"
  BY <1>7 DEF FsOf, Types
<1>9. LET m == tab[Visible(e.dst)] IN
      m.dst = e.dst /\ m.fs[1] = FsOf(SysAt(x)) /\ m.ro = SysAt(x).ro
  BY <1>3, <1>4, <1>6, <1>8, ShownIsSeen DEF IInv, Tag
<1> QED BY <1>3, <1>5, <1>9 DEF FsOf

\* When the command starts, each of the system's file systems is seen at its place,
\* unless the user put something there, and only /sys and /proc/sys are read-only
\* (mount.c:174-201): the system's mounts are made in an order in which none is made
\* over an earlier one, and neither what the user asks for nor the files in /dev come
\* at or above them.  A container's root that is at one of their paths on the host is
\* left out: path_prefix_root() takes that path for the root (path.c:95).
THEOREM SystemIsInPlace ==
    ASSUME RootElsewhere
    PROVE  Spec => []SystemInPlace
<1>1. Init => SystemInv
  BY DEF Init, SystemInv
<1>2. IInv /\ SystemInv /\ [Next]_vars => SystemInv'
  BY StepSystem
<1>3. IInv /\ SystemInv => SystemInPlace
  BY PlacedMeans
<1> QED BY <1>1, <1>2, <1>3, InitIInv, StepIInv, PTL DEF Spec

-----------------------------------------------------------------------------
(* The user's mounts.  pos[j] is the place in the list of the last entry of  *)
(* the j-th --mount, counted from the entry that is next: what is done has a *)
(* place of zero or less.                                                    *)

Lined(pos) ==
    /\ pos[read] = Len(mounts)
    /\ \A j \in 1 .. read : specs[j].word # "other" /\ pos[j] = pos[j - 1] + Size(specs[j])
    /\ \A j, h \in 0 .. read : j < h => pos[j] < pos[h]
    /\ \A j \in 1 .. read : \A x \in 1 .. Size(specs[j]) :
           pos[j - 1] + x >= 1 => mounts[pos[j - 1] + x] = FromSpec(specs[j])[x]

Place(j) == MountPoint(specs[j].dst)

\* It is seen, with its first entry as it was bound, with its second one read-only.
SeenAs(j, x) ==
    \E ro \in BOOLEAN :
        /\ Shows(Place(j), "--mount", ro)
        /\ x = 1 /\ ro => specs[j].word \in {"bind", "bind-ro"} /\ Inside(specs[j].src)
        /\ x = 2 => ro

IsHonoured(j) ==
    /\ specs[j].word # "other"
    /\ Uncovered(j) /\ Covers(Place(j), Place(j)) /\ ~AtDevice(Place(j)) =>
           SeenAs(j, Size(specs[j]))

\* What is done is seen, and a bind mount that waits for its remount is, too.
Done(pos) ==
    \A j \in 1 .. read :
        /\ pos[j] <= 0 => IsHonoured(j)
        /\ pos[j - 1] = -1 /\ pos[j] = 1 /\ Covers(Place(j), Place(j)) => SeenAs(j, 1)

\* The files in /dev that are bound.
Devices ==
    (IF pc \in {"links", "console", "done"} THEN ToSet(Nodes) ELSE {})
    \cup (IF pc = "done" THEN {"console"} ELSE {})

\* They are the last of the table.
DevicesLast ==
    \E k \in Nat :
        /\ \A i \in DOMAIN tab : i > k => tab[i].type \in {"node", "console"}
        /\ \A n \in Devices : \E i \in DOMAIN tab : i > k /\ tab[i].dst = Node(n)

SpecsInv ==
    /\ pc = "parse" => \E pos \in [0 .. read -> Int] : Lined(pos) /\ pos[0] = 0
    /\ pc = "mount" => read = Len(specs) /\ \E pos \in [0 .. read -> Int] : Lined(pos) /\ Done(pos)
    /\ pc \in {"nodes", "links", "console", "done"} => \A j \in DOMAIN specs : IsHonoured(j)
    /\ pc \in {"nodes", "links", "console"} => chroot
    /\ chroot /\ pc \in {"nodes", "links", "console", "done"} => DevicesLast

LEMMA Unmoved ==
    ASSUME UNCHANGED <<chroot, specs>>
    PROVE  /\ \A j : Place(j)' = Place(j) /\ Uncovered(j)' = Uncovered(j)
           /\ \A j : Inside(specs[j].src)' = Inside(specs[j].src)
           /\ \A p : AtDevice(p)' = AtDevice(p) /\ Covers(p, p)' = Covers(p, p)
<1>1. \A j : Place(j)' = Place(j)
  BY DEF Place, MountPoint
<1>2. \A j : Uncovered(j)' = Uncovered(j)
  BY CoversStays DEF Uncovered, MountPoint
<1>3. \A j : Inside(specs[j].src)' = Inside(specs[j].src)
  BY DEF Inside, Top
<1>4. \A p : AtDevice(p)' = AtDevice(p) /\ Covers(p, p)' = Covers(p, p)
  BY CoversStays DEF AtDevice
<1> QED BY <1>1, <1>2, <1>3, <1>4

\* A --mount that is read: its entries are at the end of the list.
LEMMA SpecsAdd == ASSUME IInv, SpecsInv, mount_add_from_spec PROVE SpecsInv'
<1> DEFINE s == specs[read + 1]
<1>1. CASE ~(s.valid /\ s.word # "other")
  BY <1>1 DEF mount_add_from_spec, Fail, SpecsInv, options
<1>2. CASE s.valid /\ s.word # "other"
  <2>1. /\ pc = "parse" /\ read < Len(specs) /\ mounts' = mounts \o FromSpec(s)
        /\ read' = read + 1 /\ UNCHANGED <<chroot, ephemeral, specs, pc, tab>>
    BY <1>2 DEF mount_add_from_spec, options
  <2>2. /\ s \in SpecType /\ read \in Nat
        /\ mounts \in Seq(EntryType) /\ Len(mounts) \in Nat
    BY <2>1, ElementOfSeq DEF IInv, Typed
  <2>3. s.word # "other"
    BY <1>2
  <2> PICK old \in [0 .. read -> Int] : Lined(old) /\ old[0] = 0
    BY <2>1 DEF SpecsInv
  <2> PICK pos : pos = [j \in 0 .. read + 1 |-> IF j <= read THEN old[j] ELSE old[read] + Size(s)]
    OBVIOUS
  <2>4. pos \in [0 .. read' -> Int] /\ pos[0] = 0 /\ \A j \in 0 .. read : pos[j] = old[j]
    BY <2>1, <2>2 DEF Size
  <2>5. pos[read + 1] = Len(mounts) + Size(s) /\ Size(s) \in {1, 2}
    BY <2>2 DEF Lined, Size
  <2> HIDE DEF s
  <2>6. /\ FromSpec(s) \in Seq(EntryType) /\ Len(FromSpec(s)) = Size(s)
    BY <2>2, <2>3, FromSpecEntries
  <2>7. /\ Len(mounts') = Len(mounts) + Size(s)
        /\ \A x \in 1 .. Len(mounts) + Size(s) :
               mounts'[x] = IF x <= Len(mounts) THEN mounts[x] ELSE FromSpec(s)[x - Len(mounts)]
    BY <2>1, <2>2, <2>6, ConcatProperties
  <2>8. pos[read'] = Len(mounts')
    BY <2>1, <2>5, <2>7
  <2>9. ASSUME NEW j \in 1 .. read'
        PROVE  /\ specs'[j].word # "other" /\ pos[j] = pos[j - 1] + Size(specs'[j])
               /\ \A x \in 1 .. Size(specs'[j]) :
                      pos[j - 1] + x >= 1 => mounts'[pos[j - 1] + x] = FromSpec(specs'[j])[x]
    <3>1. CASE j \in 1 .. read
      <4>1. j - 1 \in 0 .. read /\ j \in 0 .. read /\ pos[j] = old[j] /\ pos[j - 1] = old[j - 1]
        BY <2>2, <2>4, <3>1
      <4>2. /\ specs[j].word # "other" /\ old[j] = old[j - 1] + Size(specs[j])
            /\ \A x \in 1 .. Size(specs[j]) :
                   old[j - 1] + x >= 1 => mounts[old[j - 1] + x] = FromSpec(specs[j])[x]
        BY <3>1 DEF Lined
      <4>3. old[j] <= Len(mounts) /\ old[j] \in Int /\ old[j - 1] \in Int
        <5>1. old[j] \in Int /\ old[j - 1] \in Int /\ old[read] = Len(mounts)
          BY <4>1 DEF Lined
        <5>2. j = read \/ old[j] < old[read]
          BY <2>2, <3>1, <4>1 DEF Lined
        <5> QED BY <2>2, <5>1, <5>2
      <4>4. ASSUME NEW x \in 1 .. Size(specs[j]), pos[j - 1] + x >= 1
            PROVE  mounts'[pos[j - 1] + x] = FromSpec(specs[j])[x]
        <5> DEFINE y == old[j - 1] + x
        <5>1. Size(specs[j]) \in {1, 2}
          BY DEF Size
        <5>2. y \in 1 .. Len(mounts)
          BY <2>2, <4>1, <4>2, <4>3, <4>4, <5>1
        <5>3. y \in 1 .. Len(mounts) + Size(s) /\ y <= Len(mounts)
          BY <2>2, <2>5, <5>2
        <5> HIDE DEF y
        <5>4. mounts'[y] = mounts[y]
          BY <2>7, <5>3
        <5> QED BY <4>1, <4>2, <4>4, <5>4 DEF y
      <4> QED BY <2>1, <4>1, <4>2, <4>4
    <3>2. CASE j = read + 1
      <4>1. j - 1 = read /\ pos[j - 1] = Len(mounts) /\ specs'[j] = s
        BY <2>1, <2>2, <2>4, <3>2 DEF Lined, s
      <4>2. ASSUME NEW x \in 1 .. Size(s) PROVE mounts'[Len(mounts) + x] = FromSpec(s)[x]
        <5> DEFINE y == Len(mounts) + x
        <5>1. y \in 1 .. Len(mounts) + Size(s) /\ ~(y <= Len(mounts)) /\ y - Len(mounts) = x
          BY <2>2, <2>5
        <5> HIDE DEF y
        <5>2. mounts'[y] = FromSpec(s)[y - Len(mounts)]
          BY <2>7, <5>1
        <5> QED BY <5>1, <5>2 DEF y
      <4>3. specs'[j].word # "other" /\ pos[j] = pos[j - 1] + Size(s)
        BY <2>3, <2>5, <3>2, <4>1
      <4>4. ASSUME NEW x \in 1 .. Size(specs'[j])
            PROVE  mounts'[pos[j - 1] + x] = FromSpec(specs'[j])[x]
        <5>1. x \in 1 .. Size(s)
          BY <4>1
        <5> QED BY <4>1, <4>2, <5>1
      <4>5. pos[j] = pos[j - 1] + Size(specs'[j])
        BY <4>1, <4>3
      <4> QED BY <4>3, <4>4, <4>5
    <3>3. j \in 1 .. read \/ j = read + 1
      BY <2>1, <2>2
    <3> QED BY <3>1, <3>2, <3>3
  <2>10. ASSUME NEW j \in 0 .. read', NEW h \in 0 .. read', j < h
         PROVE  pos[j] < pos[h]
    <3>1. j \in 0 .. read /\ pos[j] = old[j] /\ old[j] \in Int
      BY <2>1, <2>2, <2>4, <2>10
    <3>2. CASE h \in 0 .. read
      BY <2>4, <2>10, <3>1, <3>2 DEF Lined
    <3>3. CASE h = read + 1
      <4>1. old[j] <= old[read] /\ old[read] = Len(mounts)
        BY <2>2, <3>1 DEF Lined
      <4> QED BY <2>2, <2>5, <3>1, <3>3, <4>1
    <3> QED BY <2>1, <2>2, <3>2, <3>3
  <2>11. Lined(pos)'
    BY <2>8, <2>9, <2>10 DEF Lined
  <2>12. (\E p \in [0 .. read -> Int] : Lined(p) /\ p[0] = 0)'
    BY <2>4, <2>11
  <2> QED BY <2>1, <2>12 DEF SpecsInv
<1> QED BY <1>1, <1>2

LEMMA LinedMeans ==
    ASSUME NEW pos \in [0 .. read -> Int], Typed, Lined(pos), NEW j \in 1 .. read
    PROVE  /\ j \in 0 .. read /\ j - 1 \in 0 .. read /\ pos[j] \in Int /\ pos[j - 1] \in Int
           /\ pos[j] <= Len(mounts) /\ pos[0] <= pos[j - 1] /\ pos[0] < pos[j]
           /\ specs[j] \in SpecType /\ Size(specs[j]) \in {1, 2}
           /\ pos[j] = pos[j - 1] + Size(specs[j])
<1>1. read \in Nat /\ read <= Len(specs) /\ specs \in Seq(SpecType) /\ Len(specs) \in Nat
  BY DEF Typed
<1>2. j \in 0 .. read /\ j - 1 \in 0 .. read /\ 0 \in 0 .. read /\ read \in 0 .. read
  BY <1>1
<1>3. pos[j] \in Int /\ pos[j - 1] \in Int /\ pos[0] \in Int /\ pos[read] \in Int
  BY <1>2
<1>4. j = read \/ pos[j] < pos[read]
  BY <1>1, <1>2 DEF Lined
<1>5. j - 1 = 0 \/ pos[0] < pos[j - 1]
  BY <1>1, <1>2 DEF Lined
<1>6. pos[0] < pos[j]
  BY <1>1, <1>2 DEF Lined
<1>7. specs[j] \in SpecType
  BY <1>1, ElementOfSeq
<1>8. pos[read] = Len(mounts) /\ pos[j] = pos[j - 1] + Size(specs[j])
  BY DEF Lined
<1>9. Size(specs[j]) \in {1, 2}
  BY DEF Size
<1> QED BY <1>2, <1>3, <1>4, <1>5, <1>6, <1>7, <1>8, <1>9

LEMMA SpecsConcat == ASSUME IInv, SpecsInv, ConcatMounts PROVE SpecsInv'
<1>1. /\ pc = "parse" /\ read = Len(specs) /\ Typed
      /\ mounts' = IF chroot THEN WholeList ELSE mounts
      /\ pc' = "mount" /\ UNCHANGED <<chroot, ephemeral, specs, read, tab>>
  BY DEF ConcatMounts, options, IInv
<1> PICK old \in [0 .. read -> Int] : Lined(old) /\ old[0] = 0
  BY <1>1 DEF SpecsInv
<1> PICK b \in Nat : b = Before
  BY DEF Before
<1> PICK pos : pos = [j \in 0 .. read |-> old[j] + b]
  OBVIOUS
<1>2. /\ read \in Nat /\ Len(mounts) \in Nat /\ DOMAIN mounts = 1 .. Len(mounts)
  BY <1>1 DEF Typed
<1>3. pos \in [0 .. read -> Int] /\ \A j \in 0 .. read : pos[j] = old[j] + b
  OBVIOUS
<1>4. /\ Len(mounts') = b + Len(mounts)
      /\ \A y \in 1 .. Len(mounts) : mounts'[b + y] = mounts[y]
  <2>1. CASE chroot
    BY <1>1, <1>2, <2>1, WholeListIs
  <2>2. CASE ~chroot
    <3>1. b = 0 /\ mounts' = mounts
      BY <1>1, <2>2 DEF Before
    <3> QED BY <1>2, <3>1
  <2> QED BY <2>1, <2>2
<1>5. pos[read] = Len(mounts')
  <2>1. read \in 0 .. read /\ old[read] = Len(mounts)
    BY <1>2 DEF Lined
  <2>2. pos[read] = old[read] + b
    BY <1>3, <2>1
  <2>3. Len(mounts) + b = b + Len(mounts)
    BY <1>2
  <2> QED BY ONLY <1>4, <2>1, <2>2, <2>3
<1>6. ASSUME NEW j \in 1 .. read
      PROVE  /\ specs[j].word # "other" /\ pos[j] = pos[j - 1] + Size(specs[j])
             /\ \A x \in 1 .. Size(specs[j]) :
                    pos[j - 1] + x >= 1 => mounts'[pos[j - 1] + x] = FromSpec(specs[j])[x]
             /\ pos[j] > 0 /\ pos[j - 1] >= 0
  <2>1. /\ j \in 0 .. read /\ j - 1 \in 0 .. read /\ old[j] \in Int /\ old[j - 1] \in Int
        /\ old[j] <= Len(mounts) /\ old[0] <= old[j - 1] /\ old[0] < old[j]
        /\ Size(specs[j]) \in {1, 2} /\ old[j] = old[j - 1] + Size(specs[j])
    BY <1>1, LinedMeans
  <2>2. specs[j].word # "other"
    BY DEF Lined
  <2>3. pos[j] = old[j] + b /\ pos[j - 1] = old[j - 1] + b
    BY <1>3, <2>1
  <2>4. ASSUME NEW x \in 1 .. Size(specs[j])
        PROVE  mounts'[pos[j - 1] + x] = FromSpec(specs[j])[x]
    <3> PICK y : y = old[j - 1] + x
      OBVIOUS
    <3>1. y \in 1 .. Len(mounts) /\ y >= 1 /\ pos[j - 1] + x = b + y
      <4>1. x \in Nat /\ x >= 1 /\ x <= Size(specs[j]) /\ old[j - 1] >= 0
        BY <2>1
      <4>2. y \in Int /\ y >= 1 /\ y <= old[j]
        BY <2>1, <4>1
      <4>3. y \in 1 .. Len(mounts)
        BY <1>2, <2>1, <4>2
      <4>4. old[j - 1] + b + x = b + (old[j - 1] + x)
        BY <2>1, <4>1
      <4> QED BY <2>3, <4>2, <4>3, <4>4
    <3>2. mounts[y] = FromSpec(specs[j])[x]
      BY <3>1 DEF Lined
    <3> QED BY <1>4, <3>1, <3>2
  <2> QED BY <2>1, <2>2, <2>3, <2>4
<1>7. ASSUME NEW j \in 0 .. read, NEW h \in 0 .. read, j < h PROVE pos[j] < pos[h]
  <2>1. old[j] < old[h] /\ old[j] \in Int /\ old[h] \in Int
    BY <1>7 DEF Lined
  <2> QED BY <1>3, <2>1
<1>8. Lined(pos)'
  <2>1. \A j \in 1 .. read : specs[j].word # "other" /\ pos[j] = pos[j - 1] + Size(specs[j])
    BY <1>6
  <2>2. \A j \in 1 .. read : \A x \in 1 .. Size(specs[j]) :
            pos[j - 1] + x >= 1 => mounts'[pos[j - 1] + x] = FromSpec(specs[j])[x]
    BY <1>6
  <2>3. \A j, h \in 0 .. read : j < h => pos[j] < pos[h]
    BY <1>7
  <2>4. read' = read /\ specs' = specs
    BY <1>1
  <2> QED BY ONLY <1>5, <2>1, <2>2, <2>3, <2>4 DEF Lined
<1>9. Done(pos)'
  <2>1. \A j \in 1 .. read : ~(pos[j] <= 0) /\ pos[j - 1] # -1
    <3> TAKE j \in 1 .. read
    <3>1. j \in 0 .. read /\ j - 1 \in 0 .. read
      BY <1>2
    <3>2. pos[j] > 0 /\ pos[j - 1] >= 0 /\ pos[j] \in Int /\ pos[j - 1] \in Int
      BY <1>3, <1>6, <3>1
    <3> QED BY <3>2
  <2> QED BY <1>1, <2>1 DEF Done
<1>10. (\E p \in [0 .. read -> Int] : Lined(p) /\ Done(p))'
  BY <1>1, <1>3, <1>8, <1>9
<1> QED BY <1>1, <1>10 DEF SpecsInv

\* The next entry is the x-th of the j-th --mount.
Turn(pos, j, x) == pos[j - 1] + x = 1

\* The entry that is next, if it is the x-th of the j-th --mount.
LEMMA NextEntry ==
    ASSUME Typed, MountNext, pc' # "failed",
           NEW pos \in [0 .. read -> Int], Lined(pos),
           NEW j \in 1 .. read, NEW x \in 1 .. Size(specs[j]), Turn(pos, j, x),
           NEW s, s = specs[j]
    PROVE  s \in SpecType /\ s.word # "other" /\ Head(mounts) = FromSpec(s)[x]
<1>1. mounts[1] = Head(mounts)
  BY TailIs
<1>2. mounts[1] = FromSpec(specs[j])[x]
  BY DEF Lined, Turn
<1>3. specs[j] \in SpecType /\ specs[j].word # "other"
  BY LinedMeans DEF Lined
<1> QED BY <1>1, <1>2, <1>3

\* When one is done and something is left, the next entry is of a later one.
LEMMA NextIsLater ==
    ASSUME Typed, MountNext, pc' # "failed", NEW pos \in [0 .. read -> Int], Lined(pos),
           NEW j \in 1 .. read, pos[j] <= 0
    PROVE  \E h \in 1 .. read : h > j /\ \E x \in 1 .. Size(specs[h]) : Turn(pos, h, x)
<1> DEFINE S == {h \in 0 .. read : pos[h] <= 0}
<1>1. read \in Nat /\ Len(mounts) \in Nat \ {0}
  BY TailIs DEF Typed
<1>2. j \in S
  BY LinedMeans
<1>3. PICK g \in S : \A h \in S : h <= g
  <2>1. S \in SUBSET (0 .. read) /\ S # {}
    BY <1>2
  <2> HIDE DEF S
  <2> QED BY <1>1, <2>1, Greatest
<1>4. g \in 0 .. read /\ pos[g] <= 0 /\ pos[g] \in Int /\ j <= g
  BY <1>2, <1>3
<1>5. g # read
  BY <1>1, <1>4 DEF Lined
<1> PICK h \in Int : h = g + 1
  BY <1>4
<1>6. h \in 1 .. read /\ h - 1 = g /\ h > j
  BY <1>1, <1>4, <1>5
<1>7. /\ h \in 0 .. read /\ pos[h] \in Int /\ Size(specs[h]) \in {1, 2}
      /\ pos[h] = pos[h - 1] + Size(specs[h])
  BY <1>6, LinedMeans
<1>8. ~(pos[h] <= 0)
  <2>1. h \notin S
    BY <1>3, <1>4
  <2> QED BY <1>7, <2>1
<1>9. 1 - pos[g] \in 1 .. Size(specs[h]) /\ pos[h - 1] + (1 - pos[g]) = 1
  BY <1>4, <1>6, <1>7, <1>8
<1> QED BY <1>6, <1>9 DEF Turn

LEMMA PlaceHasType ==
    ASSUME Typed, NEW j \in DOMAIN specs
    PROVE  Place(j) \in Paths
<1>1. specs[j] \in SpecType
  BY ElementOfSeq DEF Typed
<1> QED BY <1>1, NamesMakePaths, MountPointHasType DEF SpecType, Place

\* What is seen stays, unless the entry that is next is at or above it.
LEMMA HonouredStays ==
    ASSUME Typed, MountNext, pc' # "failed",
           read = Len(specs), NEW pos \in [0 .. read -> Int], Lined(pos),
           NEW j \in 1 .. read, pos[j] <= 0, IsHonoured(j)
    PROVE  IsHonoured(j)'
<1>1. UNCHANGED <<chroot, ephemeral, specs, read, pc>>
  BY TailIs
<1>2. ASSUME Uncovered(j), Covers(Place(j), Place(j)), ~AtDevice(Place(j))
      PROVE  SeenAs(j, Size(specs[j]))'
  <2> PICK d : d = Place(j)
    OBVIOUS
  <2>1. PICK ro \in BOOLEAN :
            /\ Shows(d, "--mount", ro)
            /\ Size(specs[j]) = 1 /\ ro =>
                   specs[j].word \in {"bind", "bind-ro"} /\ Inside(specs[j].src)
            /\ Size(specs[j]) = 2 => ro
    BY <1>2 DEF IsHonoured, SeenAs
  <2>2. d \in Paths
    BY PlaceHasType DEF Typed
  <2>3. PICK h \in 1 .. read :
            h > j /\ \E x \in 1 .. Size(specs[h]) : Turn(pos, h, x)
    BY NextIsLater
  <2>4. Head(mounts).dst = specs[h].dst
    <3> PICK e, s : e = Head(mounts) /\ s = specs[h]
      OBVIOUS
    <3>1. PICK x \in 1 .. Size(specs[h]) : Turn(pos, h, x)
      BY <2>3
    <3>2. s \in SpecType /\ s.word # "other" /\ e = FromSpec(s)[x]
      BY <3>1, NextEntry
    <3>3. FromSpec(s)[x].dst = s.dst
      BY <3>2, FromSpecEntries
    <3> QED BY <3>2, <3>3
  <2>5. h \in DOMAIN specs
    BY DEF Typed
  <2>6. ~Covers(MountPoint(Head(mounts).dst), d)
    BY <1>2, <2>3, <2>4, <2>5 DEF Uncovered, Place
  <2>7. Shows(d, "--mount", ro)'
    BY <2>1, <2>2, <2>6, ShownUnderMount
  <2> QED BY <1>1, <2>1, <2>7, Unmoved DEF SeenAs
<1> QED BY <1>1, <1>2, Unmoved DEF IsHonoured

\* What is mounted for the last entry of a --mount is seen as it was asked.
LEMMA EntryIsSeen ==
    ASSUME Typed, MountNext, pc' # "failed",
           NEW pos \in [0 .. read -> Int], Lined(pos), Done(pos),
           NEW j \in 1 .. read, NEW x \in 1 .. Size(specs[j]), Turn(pos, j, x),
           Covers(Place(j), Place(j))
    PROVE  SeenAs(j, x)'
<1> PICK e, s : e = Head(mounts) /\ s = specs[j]
  OBVIOUS
<1> PICK p : p = MountPoint(e.dst)
  OBVIOUS
<1>1. /\ e.type = "user" /\ p = Place(j)
      /\ x = 1 => e.how # "remount" /\ e.ro = FALSE
      /\ x = 1 /\ e.how = "bind" => s.word \in {"bind", "bind-ro"} /\ e.src = s.src
      /\ x = 2 => e.how = "remount" /\ e.ro = TRUE
  <2>1. s \in SpecType /\ s.word # "other" /\ e = FromSpec(s)[x] /\ x \in 1 .. Size(s)
    BY NextEntry
  <2>2. /\ FromSpec(s)[x].type = "user" /\ FromSpec(s)[x].dst = s.dst
        /\ x = 1 => FromSpec(s)[x].how # "remount" /\ FromSpec(s)[x].ro = FALSE
        /\ x = 1 /\ FromSpec(s)[x].how = "bind" =>
               s.word \in {"bind", "bind-ro"} /\ FromSpec(s)[x].src = s.src
        /\ x = 2 => FromSpec(s)[x].how = "remount" /\ FromSpec(s)[x].ro = TRUE
    BY <2>1, FromSpecEntries
  <2> QED BY <2>1, <2>2 DEF Place
<1>2. Size(specs[j]) \in {1, 2} /\ pos[j] = pos[j - 1] + Size(specs[j]) /\ pos[j - 1] \in Int
  BY LinedMeans DEF Turn
<1>3. UNCHANGED <<chroot, specs>>
  BY TailIs
<1>4. CASE x = 1
  <2> PICK m : m = Added(e, p)
    OBVIOUS
  <2>1. Shows(p, Tag(m), m.ro)'
    BY <1>1, <1>4, MountIsShown
  <2>2. Tag(m) = "--mount"
    BY <1>1 DEF Added, Tag
  <2>3. m \in MountType /\ e \in EntryType
    BY MountEffect
  <2>4. m.ro = From(e, p).ro /\ m.ro \in BOOLEAN
    BY <2>3 DEF Added, MountType
  <2>5. ASSUME m.ro PROVE specs[j].word \in {"bind", "bind-ro"} /\ Inside(specs[j].src)
    <3>1. CASE e.how = "bind"
      <4>1. From(e, p) = Source(e.src) /\ e.src \in Paths
        BY <1>1, <2>3, <3>1 DEF From, EntryType
      <4>2. Inside(e.src)
        BY <2>4, <2>5, <4>1, SourceHasType
      <4> QED BY <1>1, <1>4, <3>1, <4>2
    <3>2. CASE e.how # "bind"
      BY <1>1, <1>4, <2>4, <2>5, <3>2 DEF From
    <3> QED BY <3>1, <3>2
  <2> QED BY <1>1, <1>3, <1>4, <2>1, <2>2, <2>4, <2>5, Unmoved DEF SeenAs
<1>5. CASE x = 2
  <2>1. pos[j - 1] = -1 /\ pos[j] = 1
    BY <1>2, <1>5 DEF Turn
  <2>2. PICK ro \in BOOLEAN : Shows(p, "--mount", ro)
    BY <1>1, <2>1 DEF Done, SeenAs
  <2>3. Shows(p, "--mount", e.ro)'
    BY <1>1, <1>5, <2>2, RemountIsShown
  <2> QED BY <1>1, <1>3, <1>5, <2>3, Unmoved DEF SeenAs
<1> QED BY <1>2, <1>4, <1>5

LEMMA SpecsMounted ==
    ASSUME IInv, SpecsInv, MountNext
    PROVE  SpecsInv'
<1>1. CASE pc' = "failed"
  BY <1>1 DEF SpecsInv, MountNext, Fail, options
<1>2. CASE pc' # "failed"
  <2>1. /\ Typed /\ mounts[1] = Head(mounts) /\ Len(mounts) \in Nat \ {0}
        /\ Len(mounts') = Len(mounts) - 1
        /\ \A x \in 1 .. Len(mounts) - 1 : mounts'[x] = mounts[x + 1]
        /\ pc = "mount" /\ UNCHANGED <<chroot, ephemeral, specs, read, pc>>
    BY <1>2, TailIs DEF IInv, SpecsInv
  <2>2. read = Len(specs) /\ read \in Nat
    BY <2>1 DEF SpecsInv, Typed
  <2> PICK old \in [0 .. read -> Int] : Lined(old) /\ Done(old)
    BY <2>1 DEF SpecsInv
  <2> PICK pos : pos = [j \in 0 .. read |-> old[j] - 1]
    OBVIOUS
  <2>3. pos \in [0 .. read -> Int] /\ \A j \in 0 .. read : pos[j] = old[j] - 1
    OBVIOUS
  <2>4. pos[read] = Len(mounts')
    <3>1. read \in 0 .. read /\ old[read] = Len(mounts)
      BY <2>2 DEF Lined
    <3> QED BY <2>1, <2>3, <3>1
  <2>5. ASSUME NEW j \in 1 .. read
        PROVE  /\ specs[j].word # "other" /\ pos[j] = pos[j - 1] + Size(specs[j])
               /\ \A x \in 1 .. Size(specs[j]) :
                      pos[j - 1] + x >= 1 => mounts'[pos[j - 1] + x] = FromSpec(specs[j])[x]
               /\ old[j] = pos[j] + 1 /\ old[j - 1] = pos[j - 1] + 1
               /\ pos[j] \in Int /\ pos[j - 1] \in Int
    <3>1. /\ j \in 0 .. read /\ j - 1 \in 0 .. read /\ old[j] \in Int /\ old[j - 1] \in Int
          /\ old[j] <= Len(mounts)
          /\ Size(specs[j]) \in {1, 2} /\ old[j] = old[j - 1] + Size(specs[j])
      BY <2>1, LinedMeans
    <3>2. specs[j].word # "other"
      BY DEF Lined
    <3>3. pos[j] = old[j] - 1 /\ pos[j - 1] = old[j - 1] - 1
      BY <2>3, <3>1
    <3>4. ASSUME NEW x \in 1 .. Size(specs[j]), pos[j - 1] + x >= 1
          PROVE  mounts'[pos[j - 1] + x] = FromSpec(specs[j])[x]
      <4> PICK y : y = pos[j - 1] + x
        OBVIOUS
      <4>1. x \in Nat /\ x <= Size(specs[j])
        BY <3>1
      <4>2. /\ y \in 1 .. Len(mounts) - 1 /\ y + 1 = old[j - 1] + x /\ old[j - 1] + x >= 1
        BY <2>1, <3>1, <3>3, <3>4, <4>1
      <4>3. mounts[y + 1] = FromSpec(specs[j])[x]
        BY <4>2 DEF Lined
      <4> QED BY <2>1, <4>2, <4>3
    <3> QED BY <3>1, <3>2, <3>3, <3>4
  <2>6. ASSUME NEW j \in 0 .. read, NEW h \in 0 .. read, j < h PROVE pos[j] < pos[h]
    <3>1. old[j] < old[h] /\ old[j] \in Int /\ old[h] \in Int
      BY <2>6 DEF Lined
    <3> QED BY <2>3, <3>1
  <2>7. Lined(pos)'
    <3>1. \A j \in 1 .. read : specs[j].word # "other" /\ pos[j] = pos[j - 1] + Size(specs[j])
      BY <2>5
    <3>2. \A j \in 1 .. read : \A x \in 1 .. Size(specs[j]) :
              pos[j - 1] + x >= 1 => mounts'[pos[j - 1] + x] = FromSpec(specs[j])[x]
      BY <2>5
    <3>3. \A j, h \in 0 .. read : j < h => pos[j] < pos[h]
      BY <2>6
    <3>4. read' = read /\ specs' = specs
      BY <2>1
    <3> QED BY ONLY <2>4, <3>1, <3>2, <3>3, <3>4 DEF Lined
  <2>8. ASSUME NEW j \in 1 .. read
        PROVE  /\ pos[j] <= 0 => IsHonoured(j)'
               /\ pos[j - 1] = -1 /\ pos[j] = 1 /\ Covers(Place(j), Place(j)) => SeenAs(j, 1)'
    <3>1. /\ old[j] \in Int /\ old[j - 1] \in Int /\ Size(specs[j]) \in {1, 2}
          /\ old[j] = old[j - 1] + Size(specs[j])
          /\ pos[j] = old[j] - 1 /\ pos[j - 1] = old[j - 1] - 1
      BY <2>1, <2>5, LinedMeans
    <3>2. ASSUME old[j] <= 0 PROVE IsHonoured(j)'
      <4>1. IsHonoured(j)
        BY <3>2 DEF Done
      <4> QED BY <1>2, <2>1, <2>2, <3>2, <4>1, HonouredStays
    <3>3. ASSUME old[j] = 1 PROVE IsHonoured(j)'
      <4> PICK x \in {1, 2} : x = Size(specs[j])
        BY <3>1
      <4>1. x \in 1 .. Size(specs[j]) /\ Turn(old, j, x)
        BY <3>1, <3>3 DEF Turn
      <4>2. Covers(Place(j), Place(j)) => SeenAs(j, x)'
        BY <1>2, <2>1, <4>1, EntryIsSeen
      <4>3. Covers(Place(j), Place(j)) => SeenAs(j, Size(specs[j]))'
        BY <2>1, <4>2 DEF SeenAs
      <4> QED BY <2>1, <2>5, <4>3, Unmoved DEF IsHonoured
    <3>4. ASSUME old[j - 1] = 0, old[j] = 2, Covers(Place(j), Place(j)) PROVE SeenAs(j, 1)'
      <4>1. 1 \in 1 .. Size(specs[j]) /\ Turn(old, j, 1)
        BY <3>1, <3>4 DEF Turn
      <4> QED BY <1>2, <2>1, <3>4, <4>1, EntryIsSeen
    <3> QED BY <3>1, <3>2, <3>3, <3>4
  <2>9. Done(pos)'
    BY <2>1, <2>8, Unmoved DEF Done
  <2>10. (\E p \in [0 .. read -> Int] : Lined(p) /\ Done(p))'
    BY <2>1, <2>3, <2>7, <2>9
  <2> QED BY <2>1, <2>2, <2>10 DEF SpecsInv
<1> QED BY <1>1, <1>2

\* What is seen depends on the table only.
LEMMA SameHonoured ==
    ASSUME UNCHANGED <<chroot, specs, tab>>
    PROVE  /\ \A j, x : SeenAs(j, x) => SeenAs(j, x)'
           /\ \A j : IsHonoured(j) => IsHonoured(j)'
<1>1. \A d, tag, ro : Shows(d, tag, ro) => Shows(d, tag, ro)'
  BY CoversStays DEF Shows
<1>2. \A j, x : SeenAs(j, x) => SeenAs(j, x)'
  BY <1>1, Unmoved DEF SeenAs
<1> QED BY <1>2, Unmoved DEF IsHonoured

LEMMA SpecsEnd == ASSUME IInv, SpecsInv, Mounted PROVE SpecsInv'
<1>1. /\ pc = "mount" /\ Len(mounts) = 0 /\ pc' \in {"nodes", "done"} /\ Typed
      /\ pc' = IF chroot THEN "nodes" ELSE "done"
      /\ UNCHANGED <<chroot, ephemeral, specs, read, tab>>
  BY DEF Mounted, options, disk, IInv
<1>2. ASSUME NEW j \in DOMAIN specs PROVE IsHonoured(j)
  <2> PICK pos \in [0 .. read -> Int] : Lined(pos) /\ Done(pos)
    BY <1>1 DEF SpecsInv
  <2>1. j \in 1 .. read
    BY <1>1 DEF SpecsInv, Typed
  <2>2. pos[j] <= 0
    BY <1>1, <2>1, LinedMeans
  <2> QED BY <2>1, <2>2 DEF Done
<1>3. \A j : IsHonoured(j) => IsHonoured(j)'
  BY <1>1, SameHonoured
<1>4. (\A j \in DOMAIN specs : IsHonoured(j))'
  BY <1>1, <1>2, <1>3
<1>5. ASSUME chroot PROVE DevicesLast'
  <2>1. Len(tab) \in Nat /\ DOMAIN tab = 1 .. Len(tab)
    BY <1>1 DEF Typed
  <2>2. Devices' = {} /\ \A i \in DOMAIN tab : ~(i > Len(tab))
    BY <1>1, <1>5, <2>1 DEF Devices
  <2> QED BY <1>1, <2>1, <2>2 DEF DevicesLast
<1> QED BY <1>1, <1>4, <1>5 DEF SpecsInv

\* The last entries of the table are those of the files in /dev.
LEMMA DevicesNodes ==
    ASSUME Typed, setup_nodes, pc' # "failed"
    PROVE  DevicesLast'
<1> PICK bound : bound = [i \in DOMAIN Nodes |-> Bound("node", Nodes[i], Node(Nodes[i]))]
  OBVIOUS
<1>1. /\ Len(tab) \in Nat \ {0} /\ Len(Nodes) \in Nat /\ DOMAIN Nodes = 1 .. Len(Nodes)
      /\ tab' \in Seq(MountType) /\ Len(tab') = Len(tab) + Len(Nodes)
      /\ \A i \in DOMAIN Nodes : tab'[Len(tab) + i] = bound[i]
  BY NodesMounted
<1>2. \A i \in DOMAIN Nodes : bound[i].type = "node" /\ bound[i].dst = Node(Nodes[i])
  BY DEF Bound
<1>3. DOMAIN tab' = 1 .. Len(tab) + Len(Nodes) /\ pc' = "links"
  BY <1>1 DEF setup_nodes, Fail
<1>4. ASSUME NEW i \in DOMAIN tab', i > Len(tab) PROVE tab'[i].type \in {"node", "console"}
  <2> PICK h : h = i - Len(tab)
    OBVIOUS
  <2>1. h \in DOMAIN Nodes /\ i = Len(tab) + h
    BY <1>1, <1>3, <1>4
  <2> QED BY <1>1, <1>2, <2>1
<1>5. ASSUME NEW n \in ToSet(Nodes)
      PROVE  \E i \in DOMAIN tab' : i > Len(tab) /\ tab'[i].dst = Node(n)
  <2>1. PICK h \in DOMAIN Nodes : n = Nodes[h]
    BY DEF ToSet
  <2>2. Len(tab) + h \in DOMAIN tab' /\ Len(tab) + h > Len(tab)
    BY <1>1, <1>3
  <2> QED BY <1>1, <1>2, <2>1, <2>2
<1>6. Devices' = ToSet(Nodes)
  BY <1>3 DEF Devices
<1> QED BY <1>1, <1>4, <1>5, <1>6 DEF DevicesLast

LEMMA DevicesConsole ==
    ASSUME Typed, setup_console, pc' # "failed", DevicesLast
    PROVE  DevicesLast'
<1> PICK m : m = Bound("console", "console", Slave)
  OBVIOUS
<1>1. pc = "console" /\ pc' = "done" /\ tab' = Append(tab, m)
  BY DEF setup_console, Fail
<1>2. m \in MountType /\ m.type = "console" /\ m.dst = Node("console")
  BY NodesHavePaths, BoundHasType DEF Bound
<1>3. /\ Len(tab) \in Nat /\ DOMAIN tab = 1 .. Len(tab) /\ DOMAIN tab' = 1 .. Len(tab) + 1
      /\ tab'[Len(tab) + 1] = m /\ \A i \in 1 .. Len(tab) : tab'[i] = tab[i]
  BY <1>1, <1>2, AppendMount DEF Typed
<1>4. Devices = ToSet(Nodes) /\ Devices' = ToSet(Nodes) \cup {"console"}
  BY <1>1 DEF Devices
<1>5. PICK k \in Nat :
        /\ \A i \in DOMAIN tab : i > k => tab[i].type \in {"node", "console"}
        /\ \A n \in ToSet(Nodes) : \E i \in DOMAIN tab : i > k /\ tab[i].dst = Node(n)
  BY <1>4 DEF DevicesLast
<1> PICK l \in Nat : l <= k /\ l <= Len(tab) /\ (l < Len(tab) => l = k)
  <2>1. k <= Len(tab) \/ Len(tab) <= k
    BY <1>3
  <2> QED BY <1>3, <2>1
<1>6. \A i \in DOMAIN tab' : i > l => tab'[i].type \in {"node", "console"}
  <2> SUFFICES ASSUME NEW i \in DOMAIN tab', i > l PROVE tab'[i].type \in {"node", "console"}
    OBVIOUS
  <2>1. CASE i = Len(tab) + 1
    BY <1>2, <1>3, <2>1
  <2>2. CASE i # Len(tab) + 1
    <3>1. i \in DOMAIN tab /\ i > k /\ tab'[i] = tab[i]
      BY <1>3, <2>2
    <3> QED BY <1>5, <3>1
  <2> QED BY <2>1, <2>2
<1>7. ASSUME NEW n \in Devices' PROVE \E i \in DOMAIN tab' : i > l /\ tab'[i].dst = Node(n)
  <2>1. CASE n \in ToSet(Nodes)
    <3>1. PICK i \in DOMAIN tab : i > k /\ tab[i].dst = Node(n)
      BY <1>5, <2>1
    <3> QED BY <1>3, <3>1
  <2>2. CASE n = "console"
    <3>1. Len(tab) + 1 \in DOMAIN tab' /\ Len(tab) + 1 > l
      BY <1>3
    <3> QED BY <1>2, <1>3, <2>2, <3>1
  <2> QED BY <1>4, <2>1, <2>2
<1> QED BY <1>6, <1>7 DEF DevicesLast

LEMMA SpecsLater ==
    ASSUME IInv, SpecsInv, setup_nodes \/ setup_symlinks \/ setup_console
    PROVE  SpecsInv'
<1>1. CASE pc' = "failed"
  BY <1>1 DEF SpecsInv, setup_nodes, setup_symlinks, setup_console, Fail, options
<1>2. CASE pc' # "failed"
  <2>1. /\ pc \in {"nodes", "links", "console"} /\ pc' \in {"links", "console", "done"}
        /\ UNCHANGED <<chroot, ephemeral, specs, read>> /\ Typed /\ chroot
    BY <1>2 DEF setup_nodes, setup_symlinks, setup_console, Fail, options, IInv, SpecsInv
  <2>2. ASSUME NEW j \in DOMAIN specs PROVE IsHonoured(j)'
    <3>1. IsHonoured(j)
      BY <2>1 DEF SpecsInv
    <3>2. ASSUME Uncovered(j), Covers(Place(j), Place(j)), ~AtDevice(Place(j))
          PROVE  SeenAs(j, Size(specs[j]))'
      <4> PICK d : d = Place(j)
        OBVIOUS
      <4>1. PICK ro \in BOOLEAN :
                /\ Shows(d, "--mount", ro)
                /\ Size(specs[j]) = 1 /\ ro =>
                       specs[j].word \in {"bind", "bind-ro"} /\ Inside(specs[j].src)
                /\ Size(specs[j]) = 2 => ro
        BY <3>1, <3>2 DEF IsHonoured, SeenAs
      <4>2. d \in Paths
        BY <2>1, PlaceHasType
      <4>3. /\ \A n \in ToSet(Nodes) : ~IsPrefix(Node(n), d)
            /\ ~IsPrefix(Node("console"), d)
        BY <2>1, <3>2 DEF AtDevice
      <4>4. Shows(d, "--mount", ro)'
        BY <1>2, <2>1, <4>1, <4>2, <4>3, ShownUnderNodes, ShownUnderBound
      <4> QED BY <2>1, <4>1, <4>4, Unmoved DEF SeenAs
    <3> QED BY <2>1, <3>1, <3>2, Unmoved DEF IsHonoured
  <2>3. (\A j \in DOMAIN specs : IsHonoured(j))'
    BY <2>1, <2>2
  <2>4. DevicesLast'
    <3>1. DevicesLast
      BY <2>1 DEF SpecsInv
    <3>2. CASE setup_symlinks
      <4>1. pc = "links" /\ pc' = "console" /\ tab' = tab
        BY <1>2, <3>2 DEF setup_symlinks, Fail
      <4> QED BY <3>1, <4>1 DEF DevicesLast, Devices
    <3> QED BY <1>2, <2>1, <3>1, <3>2, DevicesNodes, DevicesConsole
  <2> QED BY <2>1, <2>3, <2>4 DEF SpecsInv
<1> QED BY <1>1, <1>2

LEMMA InitSpecs == Init => SpecsInv
<1> SUFFICES ASSUME Init PROVE SpecsInv
  OBVIOUS
<1>1. read = 0 /\ mounts = <<>> /\ pc = "parse"
  BY DEF Init
<1> PICK pos : pos = [j \in 0 .. 0 |-> 0]
  OBVIOUS
<1>2. 0 .. read = {0} /\ 1 .. read = {} /\ Len(mounts) = 0
  BY <1>1
<1>3. pos \in [0 .. read -> Int] /\ pos[0] = 0
  BY <1>2
<1>4. Lined(pos)
  BY <1>1, <1>2, <1>3 DEF Lined
<1> QED BY <1>1, <1>3, <1>4 DEF SpecsInv

LEMMA StepSpecs == ASSUME IInv, SpecsInv, [Next]_vars PROVE SpecsInv'
<1>1. CASE UNCHANGED vars
  <2>1. UNCHANGED <<chroot, specs, read, mounts, tab, pc>>
    BY <1>1 DEF vars, options
  <2>2. \A pos : Lined(pos) => Lined(pos)'
    BY <2>1 DEF Lined
  <2>3. /\ \A j : IsHonoured(j) => IsHonoured(j)'
        /\ \A j, x : SeenAs(j, x) => SeenAs(j, x)'
    BY <2>1, SameHonoured
  <2>4. \A pos : Done(pos) => Done(pos)'
    BY <2>1, <2>3, Unmoved DEF Done
  <2>5. DevicesLast => DevicesLast'
    BY <2>1 DEF DevicesLast, Devices
  <2> QED BY <2>1, <2>2, <2>3, <2>4, <2>5 DEF SpecsInv
<1> QED
  BY <1>1, SpecsAdd, SpecsConcat, SpecsMounted, SpecsEnd, SpecsLater DEF Next

\* At a file in /dev it is that file that is seen.
LEMMA DeviceIsSeen ==
    ASSUME Typed, SpecsInv, pc = "done", NEW p \in Paths, AtDevice(p)
    PROVE  tab[Visible(p)].type \in {"node", "console"}
<1>1. chroot /\ Devices = ToSet(Nodes) \cup {"console"} /\ DevicesLast
  BY DEF AtDevice, Devices, SpecsInv
<1>2. PICK n \in Devices : IsPrefix(Node(n), p)
  BY <1>1 DEF AtDevice
<1>3. PICK k \in Nat :
        /\ \A i \in DOMAIN tab : i > k => tab[i].type \in {"node", "console"}
        /\ \E i \in DOMAIN tab : i > k /\ tab[i].dst = Node(n)
  BY <1>1 DEF DevicesLast
<1>4. PICK i \in DOMAIN tab : i > k /\ tab[i].dst = Node(n)
  BY <1>3
<1>5. Covers(tab[i].dst, p)
  BY <1>2, <1>4 DEF Covers, Node
<1>6. i <= Visible(p) /\ Visible(p) \in DOMAIN tab
  BY <1>5, VisibleIsLatest
<1>7. i \in Nat /\ Visible(p) \in Nat
  BY <1>6 DEF Typed
<1> QED BY <1>3, <1>4, <1>6, <1>7

\* A mount at the root is not seen if nothing enters the root again.
LEMMA RootIsSeen ==
    ASSUME Typed, NEW p \in Paths, ~Covers(p, p)
    PROVE  tab[Visible(p)].type = "host"
<1>1. p = <<>> /\ ~Reenters
  BY OwnPrefix DEF Covers
<1>2. \A d \in Paths : ~Covers(d, p)
  <2> SUFFICES ASSUME NEW d \in Paths, Covers(d, p) PROVE FALSE
    OBVIOUS
  <2>1. IsPrefix(d, p) /\ d # <<>>
    BY <1>1 DEF Covers
  <2>2. Len(d) <= Len(p) /\ Len(p) = 0
    BY <1>1, <2>1, PrefixMeans
  <2>3. d \in Seq(Names) /\ Len(d) = 0
    BY <2>2 DEF Paths
  <2> QED BY <2>1, <2>3, EmptySeq
<1>3. tab[Visible(p)].dst \in Paths
  <2>1. tab[Visible(p)] \in MountType
    BY AtHasType
  <2> QED BY <2>1 DEF MountType
<1>4. Visible(p) = 1
  BY <1>2, <1>3, VisibleIsLatest
<1> QED BY <1>4 DEF Typed

LEMMA HonouredMeans ==
    ASSUME IInv, SpecsInv
    PROVE  SpecsHonoured
<1> SUFFICES ASSUME pc = "done", NEW i \in DOMAIN specs, Uncovered(i),
                    NEW p, p = MountPoint(specs[i].dst), NEW m, m = tab[Visible(p)]
             PROVE  IF AtDevice(p) THEN m.type \in {"node", "console"}
                    ELSE IF ~Covers(p, p) THEN m.type = "host"
                    ELSE /\ m.type = "user" /\ m.dst = p
                         /\ specs[i].word = "bind-ro" => m.ro
                         /\ m.ro => \/ specs[i].word = "bind-ro"
                                    \/ specs[i].word = "bind" /\ Inside(specs[i].src)
  BY DEF SpecsHonoured
<1>1. Typed /\ p = Place(i) /\ p \in Paths
  BY PlaceHasType DEF IInv, Place
<1>2. CASE AtDevice(p)
  BY <1>1, <1>2, DeviceIsSeen
<1>3. CASE ~AtDevice(p) /\ ~Covers(p, p)
  BY <1>1, <1>3, RootIsSeen
<1>4. CASE ~AtDevice(p) /\ Covers(p, p)
  <2>1. PICK ro \in BOOLEAN :
            /\ Shows(p, "--mount", ro)
            /\ Size(specs[i]) = 1 /\ ro =>
                   specs[i].word \in {"bind", "bind-ro"} /\ Inside(specs[i].src)
            /\ Size(specs[i]) = 2 => ro
    BY <1>1, <1>4 DEF SpecsInv, IsHonoured, SeenAs
  <2>2. m.dst = p /\ Tag(m) = "--mount" /\ m.ro = ro
    BY <1>1, <2>1, ShownIsSeen
  <2>3. m \in MountType
    BY <1>1, AtHasType
  <2>4. m.type = "user"
    <3>1. m.fs[1] \in Types \cup {"host"}
      BY <2>3 DEF MountType, FsType
    <3> QED BY <2>2, <3>1 DEF Tag, Types
  <2> QED BY <1>4, <2>1, <2>2, <2>4 DEF Size
<1> QED BY <1>2, <1>3, <1>4

\* When the command starts, every --mount is seen at its place, unless a later one was
\* made at it or above it; a bind-ro is read-only, and no other mount is but a bind of what
\* is read-only in the container: for any number of --mount arguments, any host and
\* whatever the root (mount.c:99-132, 204).  Two kinds of places are the exception: at the
\* files in /dev and below, pflask's own are seen, for setup_nodes() and setup_console()
\* bind them last (dev.c:204-217); and where nothing enters the root again, without
\* --chroot or with --chroot=/, a mount at "/" is never seen (pflask.c:222-232).
THEOREM SpecsAreHonoured == Spec => []SpecsHonoured
<1>1. Init => SpecsInv
  BY InitSpecs
<1>2. IInv /\ SpecsInv /\ [Next]_vars => SpecsInv'
  BY StepSpecs
<1>3. IInv /\ SpecsInv => SpecsHonoured
  BY HonouredMeans
<1> QED BY <1>1, <1>2, <1>3, InitIInv, StepIInv, PTL DEF Spec
=============================================================================
