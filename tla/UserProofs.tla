----------------------------- MODULE UserProofs -----------------------------
(***************************************************************************)
(* The user, its id maps and the console's owner, for any accounts of the  *)
(* host, any --user-map options and any invoker; and the --caps option,    *)
(* for any set of capabilities, any number of names in the option and      *)
(* anything the child may hold: what MCOptions checks of its parts "user"  *)
(* and "caps", as theorems.                                                *)
(***************************************************************************)
EXTENDS MCOptions, SequenceTheorems, WellFoundedInduction, TLAPS

EntryType == [type : {"u", "g"}, id : Nat, host : Nat, count : Nat]

Typed ==
    /\ opts.map \in Seq(Nat \X Nat \X Nat) /\ i \in 0 .. Len(opts.map)
    /\ opts.euid \in Nat
    /\ users \in Seq(EntryType)
    /\ cred = [uid |-> cred.uid, gid |-> cred.gid, groups |-> cred.groups]
    /\ console = [uid |-> console.uid, gid |-> console.gid]

\* What the list of entries has: two for each option that is read; the user's own.
FromOptions ==
    /\ Len(users) = 2 * i
    /\ \A n \in 1 .. i : LET m == opts.map[n] IN
           /\ users[2 * n - 1] = Who!Entry("u", m[1], m[2], m[3])
           /\ users[2 * n] = Who!Entry("g", m[1], m[2], m[3])

OwnEntries == <<Who!Entry("u", Who!Uid, Who!Uid, 1), Who!Entry("g", Who!Gid, Who!Gid, 1)>>

ListInv ==
    /\ pc = "options" \/ opts.map # <<>> => FromOptions
    /\ pc # "options" => i = Len(opts.map)
    /\ pc # "options" /\ opts.map = <<>> =>
           users = <<>> \/ (Who!Known /\ users = OwnEntries)

\* A map that is written is that of the list, and one that the kernel takes.
IsMap(map, type) == map = Who!Rows(users, type) /\ Who!ValidMap(map)

InChild == {"setgid", "setuid", "setgroups", "done"}

MapInv ==
    /\ pc = "gmap" => IsMap(umap, "u")
    /\ pc \in InChild /\ userns => IsMap(umap, "u") /\ IsMap(gmap, "g")

\* The console is the invoker's until it is given away.
OwnerInv ==
    /\ pc \in {"options", "clone", "owner"} => console.uid = opts.euid
    /\ pc \in {"umap", "gmap"} \cup InChild /\ opts.chroot /\ userns /\ helper # "failed" =>
           Who!RootMapped /\ console.uid = Who!MappedRoot("u")
    /\ pc = "owner" => opts.chroot
    /\ pc \in {"owner", "umap", "gmap"} => userns

\* The group is the user's before its uid, and that before the others are gone.
CredInv ==
    /\ pc \in {"setuid", "setgroups"} => Who!Known
    /\ pc \in {"setuid", "setgroups", "done"} /\ Who!Known =>
           cred.gid = Who!HostId(gmap, Who!Gid)
    /\ pc \in {"setgroups", "done"} /\ Who!Known => cred.uid = Who!HostId(umap, Who!Uid)
    /\ pc = "done" /\ Who!Known => cred.groups = {}

UserInv == Typed /\ ListInv /\ MapInv /\ OwnerInv /\ CredInv

IInv == part = "user" => UserInv

-----------------------------------------------------------------------------
(* Id maps.                                                                *)

LEMMA AccountsAreNumbers ==
    ASSUME Who!Known
    PROVE  Who!Uid \in Nat /\ Who!Gid \in Nat
BY Inputs DEF Who!Known, Who!Uid, Who!Gid, Who!UserAssumption, Who!Account

LEMMA RowsAre ==
    ASSUME NEW l, NEW type
    PROVE  /\ DOMAIN Who!Rows(l, type) = {n \in DOMAIN l : l[n].type = type}
           /\ \A n \in DOMAIN Who!Rows(l, type) : Who!Rows(l, type)[n] = l[n]
BY DEF Who!Rows, Who!Restrict

\* A set of numbers has a least one.
LEMMA LeastIsThere ==
    ASSUME NEW S \in SUBSET Nat, S # {}
    PROVE  Who!Min(S) \in S /\ \A n \in S : Who!Min(S) <= n
<1>1. \E x \in S : \A y \in S : ~(<<y, x>> \in OpToRel(<, Nat))
  BY NatLessThanWellFounded, WFMin
<1>2. PICK x \in S : \A y \in S : ~(y < x)
  BY <1>1 DEF OpToRel
<1>3. \A y \in S : x <= y
  BY <1>2
<1> QED BY <1>3 DEF Who!Min

\* The entry that the console's owner is taken from.
LEMMA FirstRootEntry ==
    ASSUME Typed, NEW type, Who!RootEntries(type) # {}
    PROVE  LET n == Who!Min(Who!RootEntries(type)) IN
           n \in DOMAIN users /\ users[n].type = type /\ users[n].id = 0
<1>1. Who!RootEntries(type) \in SUBSET Nat
  BY DEF Who!RootEntries, Typed
<1> QED BY <1>1, LeastIsThere DEF Who!RootEntries

LEMMA EntriesHaveType == ASSUME Typed, NEW n \in DOMAIN users PROVE users[n] \in EntryType
BY ElementOfSeq DEF Typed

\* Extents do not overlap, so that only one entry of a map has the root in it.
LEMMA RootOfMap ==
    ASSUME Typed, IsMap(umap, "u"), Who!RootMapped
    PROVE  Who!Mapped(umap, 0) /\ Who!ToHost(umap, 0) = Who!MappedRoot("u")
<1> DEFINE least == Who!Min(Who!RootEntries("u"))
<1>1. least \in DOMAIN users /\ users[least].type = "u" /\ users[least].id = 0
  BY FirstRootEntry DEF Who!RootMapped
<1> HIDE DEF least
<1>2. /\ \A n \in DOMAIN umap : n \in DOMAIN users /\ umap[n] = users[n] /\ umap[n] \in EntryType
      /\ least \in DOMAIN umap
  <2>1. umap = Who!Rows(users, "u")
    BY DEF IsMap
  <2>2. /\ DOMAIN umap = {n \in DOMAIN users : users[n].type = "u"}
        /\ \A n \in DOMAIN umap : umap[n] = users[n]
    BY <2>1, RowsAre
  <2> QED BY <1>1, <2>2, EntriesHaveType
<1>3. \A n \in DOMAIN umap : umap[n].id \in Nat /\ umap[n].host \in Nat /\ umap[n].count \in Nat
  BY <1>2 DEF EntryType
<1>4. Who!InExtent(umap[least], 0)
  BY <1>1, <1>2, <1>3 DEF Who!InExtent, IsMap, Who!ValidMap
<1>5. ASSUME NEW n \in DOMAIN umap, Who!InExtent(umap[n], 0) PROVE n = least
  BY <1>1, <1>2, <1>3, <1>5 DEF Who!InExtent, IsMap, Who!ValidMap, Who!Apart
<1>6. (CHOOSE n \in DOMAIN umap : Who!InExtent(umap[n], 0)) = least
  BY <1>2, <1>4, <1>5
<1>7. Who!ToHost(umap, 0) = users[least].host
  <2>1. Who!ToHost(umap, 0) = umap[least].host + (0 - umap[least].id)
    BY <1>6 DEF Who!ToHost
  <2> QED BY <1>1, <1>2, <1>3, <2>1
<1> QED BY <1>2, <1>4, <1>7 DEF least, Who!Mapped, Who!MappedRoot

\* The helper's root is the container's: the other user in its map is another one.
LEMMA RootOfHelper ==
    ASSUME Typed, Who!NeedsHelper
    PROVE  Who!ToHost(Who!Rows(Who!HelperMap, "u"), 0) = Who!MappedRoot("u")
<1> DEFINE h == Who!MappedRoot("u")
           map == Who!Rows(Who!HelperMap, "u")
<1>1. opts.euid \in Nat /\ opts.euid # 0
  BY DEF Typed, Who!NeedsHelper
<1>2. h \in Nat
  <2>1. users[Who!Min(Who!RootEntries("u"))] \in EntryType
    BY FirstRootEntry, EntriesHaveType DEF Who!NeedsHelper, Who!Owning, Who!RootMapped
  <2> QED BY <2>1 DEF EntryType, Who!MappedRoot
<1>3. /\ DOMAIN map = {1, 2}
      /\ map[1] = Who!Entry("u", 0, h, 1) /\ map[2] = Who!Entry("u", opts.euid, opts.euid, 1)
  <2>1. /\ DOMAIN Who!HelperMap = 1 .. 5
        /\ Who!HelperMap[1] = Who!Entry("u", 0, h, 1)
        /\ Who!HelperMap[2] = Who!Entry("u", opts.euid, opts.euid, 1)
        /\ Who!HelperMap[1].type = "u" /\ Who!HelperMap[2].type = "u"
        /\ Who!HelperMap[3].type = "g" /\ Who!HelperMap[4].type = "g"
        /\ Who!HelperMap[5].type = "g"
    BY DEF Who!HelperMap, Who!Entry
  <2>2. {n \in DOMAIN Who!HelperMap : Who!HelperMap[n].type = "u"} = {1, 2}
    BY ONLY <2>1
  <2>3. /\ DOMAIN map = {n \in DOMAIN Who!HelperMap : Who!HelperMap[n].type = "u"}
        /\ \A n \in DOMAIN map : map[n] = Who!HelperMap[n]
    BY RowsAre
  <2> QED BY ONLY <2>1, <2>2, <2>3
<1> HIDE DEF h, map
<1>4. Who!InExtent(map[1], 0) /\ ~Who!InExtent(map[2], 0)
  BY <1>1, <1>3 DEF Who!InExtent, Who!Entry
<1>5. (CHOOSE n \in DOMAIN map : Who!InExtent(map[n], 0)) = 1
  BY <1>3, <1>4
<1>6. Who!ToHost(map, 0) = map[1].host + (0 - map[1].id)
  BY <1>5 DEF Who!ToHost
<1>7. Who!ToHost(map, 0) = h
  BY <1>2, <1>3, <1>6 DEF Who!Entry
<1> QED BY <1>7 DEF h, map

-----------------------------------------------------------------------------
(* The options.                                                            *)

LEMMA InitUser == ASSUME Who!Init PROVE UserInv
<1>1. opts.map \in Seq(Nat \X Nat \X Nat) /\ opts.euid \in Nat
  BY Inputs DEF Who!Init, Who!UserAssumption
<1>2. Typed
  BY <1>1 DEF Who!Init, Typed
<1>3. ListInv
  BY <1>1 DEF Who!Init, ListInv, FromOptions
<1> QED BY <1>2, <1>3 DEF UserInv, Who!Init, MapInv, OwnerInv, CredInv, InChild

LEMMA FailKeeps == ASSUME UserInv, pc # "options", Who!Fail PROVE UserInv'
<1> USE DEF Who!Fail, Who!input, Who!maps
<1>1. Typed'
  BY DEF UserInv, Typed
<1>2. FromOptions' = FromOptions /\ Who!Known' = Who!Known /\ OwnEntries' = OwnEntries
  BY DEF FromOptions, OwnEntries, Who!Known, Who!Uid, Who!Gid
<1>3. ListInv'
  BY <1>2 DEF UserInv, ListInv
<1>4. MapInv' /\ OwnerInv' /\ CredInv'
  BY DEF MapInv, OwnerInv, CredInv, InChild
<1> QED BY <1>1, <1>3, <1>4 DEF UserInv

LEMMA EntriesForHaveType ==
    ASSUME NEW m \in Nat \X Nat \X Nat
    PROVE  /\ Who!EntriesFor(m) \in Seq(EntryType) /\ Len(Who!EntriesFor(m)) = 2
           /\ Who!EntriesFor(m)[1] = Who!Entry("u", m[1], m[2], m[3])
           /\ Who!EntriesFor(m)[2] = Who!Entry("g", m[1], m[2], m[3])
BY DEF Who!EntriesFor, Who!Entry, EntryType

LEMMA AddMapKeeps == ASSUME UserInv, Who!user_add_map PROVE UserInv'
<1> DEFINE m == opts.map[i + 1]
<1>1. /\ pc = "options" /\ pc' = "options" /\ i < Len(opts.map) /\ i' = i + 1
      /\ users' = users \o Who!EntriesFor(m)
      /\ UNCHANGED <<opts, userns, umap, gmap, helper, console, cred, caps>>
  BY DEF Who!user_add_map, Who!maps
<1>2. Typed /\ i \in Nat /\ Len(opts.map) \in Nat
  BY DEF UserInv, Typed
<1>3. m \in Nat \X Nat \X Nat
  BY <1>1, <1>2, ElementOfSeq DEF Typed
<1> HIDE DEF m
<1>4. users \in Seq(EntryType) /\ Len(users) = 2 * i /\ FromOptions
  BY <1>1 DEF UserInv, Typed, ListInv, FromOptions
<1>5. /\ users' \in Seq(EntryType) /\ Len(users') = 2 * i + 2
      /\ \A n \in 1 .. 2 * i : users'[n] = users[n]
      /\ users'[2 * i + 1] = Who!EntriesFor(m)[1]
      /\ users'[2 * i + 2] = Who!EntriesFor(m)[2]
  <2> DEFINE e == Who!EntriesFor(m)
  <2>1. e \in Seq(EntryType) /\ Len(e) = 2
    BY <1>3, EntriesForHaveType
  <2> HIDE DEF e
  <2>2. users' = users \o e
    BY <1>1 DEF e
  <2>3. /\ users' \in Seq(EntryType) /\ Len(users') = 2 * i + 2
        /\ \A n \in 1 .. 2 * i + 2 : users'[n] = IF n <= 2 * i THEN users[n] ELSE e[n - 2 * i]
    <3>1. /\ users' \in Seq(EntryType) /\ Len(users') = Len(users) + Len(e)
          /\ \A n \in 1 .. Len(users) + Len(e) :
                 users'[n] = IF n <= Len(users) THEN users[n] ELSE e[n - Len(users)]
      BY ONLY <1>4, <2>1, <2>2, ConcatProperties
    <3> QED BY ONLY <1>2, <1>4, <2>1, <3>1
  <2>4. /\ \A n \in 1 .. 2 * i : n \in 1 .. 2 * i + 2 /\ n <= 2 * i
        /\ 2 * i + 1 \in 1 .. 2 * i + 2 /\ ~(2 * i + 1 <= 2 * i) /\ (2 * i + 1) - 2 * i = 1
        /\ 2 * i + 2 \in 1 .. 2 * i + 2 /\ ~(2 * i + 2 <= 2 * i) /\ (2 * i + 2) - 2 * i = 2
    BY <1>2
  <2>5. users'[2 * i + 1] = e[1] /\ users'[2 * i + 2] = e[2]
    BY <2>3, <2>4
  <2> QED BY <2>3, <2>4, <2>5 DEF e
<1>6. Typed'
  <2>1. i + 1 \in 0 .. Len(opts.map)
    BY <1>1, <1>2
  <2> QED BY <1>1, <1>2, <1>5, <2>1 DEF Typed
<1>7. FromOptions'
  <2>1. Len(users') = 2 * i'
    BY <1>1, <1>2, <1>5
  <2>2. ASSUME NEW n \in 1 .. i'
        PROVE  /\ users'[2 * n - 1] = Who!Entry("u", opts.map[n][1], opts.map[n][2], opts.map[n][3])
               /\ users'[2 * n] = Who!Entry("g", opts.map[n][1], opts.map[n][2], opts.map[n][3])
    <3>1. CASE n \in 1 .. i
      <4>1. 2 * n - 1 \in 1 .. 2 * i /\ 2 * n \in 1 .. 2 * i
        BY <1>2, <3>1
      <4>2. users'[2 * n - 1] = users[2 * n - 1] /\ users'[2 * n] = users[2 * n]
        BY ONLY <1>5, <4>1
      <4>3. /\ users[2 * n - 1] = Who!Entry("u", opts.map[n][1], opts.map[n][2], opts.map[n][3])
            /\ users[2 * n] = Who!Entry("g", opts.map[n][1], opts.map[n][2], opts.map[n][3])
        BY <1>4, <3>1 DEF FromOptions
      <4> QED BY ONLY <4>2, <4>3
    <3>2. CASE n = i + 1
      <4>1. 2 * n - 1 = 2 * i + 1 /\ 2 * n = 2 * i + 2
        BY <1>2, <3>2
      <4>2. opts.map[n] = m
        BY <3>2 DEF m
      <4>3. /\ users'[2 * n - 1] = Who!EntriesFor(m)[1] /\ users'[2 * n] = Who!EntriesFor(m)[2]
        BY <1>5, <4>1
      <4>4. /\ Who!EntriesFor(m)[1] = Who!Entry("u", m[1], m[2], m[3])
            /\ Who!EntriesFor(m)[2] = Who!Entry("g", m[1], m[2], m[3])
        BY <1>3, EntriesForHaveType
      <4> QED BY ONLY <4>2, <4>3, <4>4
    <3>3. n \in 1 .. i \/ n = i + 1
      BY <1>1, <1>2
    <3> QED BY <3>1, <3>2, <3>3, Zenon
  <2> QED BY <1>1, <2>1, <2>2 DEF FromOptions, Who!Entry
<1>8. ListInv'
  BY <1>1, <1>7 DEF ListInv
<1>9. MapInv' /\ OwnerInv' /\ CredInv'
  BY <1>1 DEF UserInv, MapInv, OwnerInv, CredInv, InChild
<1> QED BY <1>6, <1>8, <1>9 DEF UserInv

LEMMA OptionsReadKeeps == ASSUME UserInv, Who!OptionsRead PROVE UserInv'
<1>1. /\ pc = "options" /\ pc' = "clone" /\ i = Len(opts.map)
      /\ users' = IF opts.given /\ opts.map = <<>> /\ Who!Known THEN OwnEntries ELSE users
      /\ UNCHANGED <<opts, i, umap, gmap, helper, console, cred, caps>>
  BY DEF Who!OptionsRead, Who!input, Who!maps, OwnEntries
<1>2. Typed
  BY DEF UserInv
<1>3. FromOptions
  BY <1>1 DEF UserInv, ListInv
<1>4. Who!Known => OwnEntries \in Seq(EntryType)
  BY AccountsAreNumbers DEF OwnEntries, Who!Entry, EntryType
<1>5. Typed'
  BY <1>1, <1>2, <1>4 DEF Typed
<1>6. CASE opts.map # <<>>
  <2>1. FromOptions' /\ opts.map' # <<>>
    BY <1>1, <1>3, <1>6 DEF FromOptions
  <2>2. ListInv'
    BY <1>1, <2>1 DEF ListInv
  <2> QED BY <1>1, <1>5, <2>2 DEF UserInv, MapInv, OwnerInv, CredInv, InChild
<1>7. CASE opts.map = <<>>
  <2>1. users = <<>>
    BY <1>1, <1>2, <1>3, <1>7 DEF FromOptions, Typed
  <2>2. ListInv'
    BY <1>1, <1>7, <2>1 DEF ListInv, OwnEntries, Who!Known, Who!Uid, Who!Gid
  <2> QED BY <1>1, <1>5, <2>2 DEF UserInv, MapInv, OwnerInv, CredInv, InChild
<1> QED BY <1>6, <1>7

\* Whatever leaves the list and its options alone.
LEMMA SameList ==
    ASSUME UserInv, UNCHANGED <<opts, i, users>>, pc # "options" /\ pc' # "options"
    PROVE  /\ ListInv' /\ OwnEntries' = OwnEntries
           /\ Who!RootMapped' = Who!RootMapped /\ Who!MappedRoot("u")' = Who!MappedRoot("u")
           /\ Who!Known' = Who!Known /\ Who!Uid' = Who!Uid /\ Who!Gid' = Who!Gid
           /\ Who!Rows(users, "u")' = Who!Rows(users, "u")
           /\ Who!Rows(users, "g")' = Who!Rows(users, "g")
<1>1. /\ FromOptions' = FromOptions /\ Who!Known' = Who!Known /\ OwnEntries' = OwnEntries
      /\ Who!Uid' = Who!Uid /\ Who!Gid' = Who!Gid
  BY DEF FromOptions, OwnEntries, Who!Known, Who!Uid, Who!Gid
<1>2. ListInv'
  BY <1>1 DEF UserInv, ListInv
<1>3. Who!RootMapped' = Who!RootMapped /\ Who!MappedRoot("u")' = Who!MappedRoot("u")
  BY DEF Who!RootMapped, Who!MappedRoot, Who!RootEntries
<1>4. /\ Who!Rows(users, "u")' = Who!Rows(users, "u")
      /\ Who!Rows(users, "g")' = Who!Rows(users, "g")
  BY DEF Who!Rows
<1> QED BY <1>1, <1>2, <1>3, <1>4

LEMMA CloneKeeps == ASSUME UserInv, Who!do_clone PROVE UserInv'
<1>1. CASE Who!Fail
  BY <1>1, FailKeeps DEF Who!do_clone
<1>2. CASE /\ userns' = (userns /\ opts.kernel)
           /\ pc' = IF ~userns' THEN "setgid" ELSE IF opts.chroot THEN "owner" ELSE "umap"
           /\ UNCHANGED <<opts, i, users, umap, gmap, helper, console, cred>>
  <2>1. pc = "clone"
    BY DEF Who!do_clone
  <2>2. Typed' /\ ListInv'
    BY <1>2, <2>1, SameList DEF UserInv, Typed
  <2>3. MapInv' /\ CredInv'
    BY <1>2, <2>1 DEF MapInv, CredInv, InChild
  <2>4. OwnerInv'
    BY <1>2, <2>1 DEF UserInv, OwnerInv, InChild
  <2> QED BY <2>2, <2>3, <2>4 DEF UserInv
<1> QED BY <1>1, <1>2 DEF Who!do_clone, Who!input, Who!maps

-----------------------------------------------------------------------------
(* The console's owner.                                                    *)

LEMMA OwnerKeeps ==
    ASSUME UserInv, NEW new, NEW how, Who!Owner(new, how),
           new = [uid |-> new.uid, gid |-> new.gid],
           how = "failed" \/ new.uid = Who!MappedRoot("u")
    PROVE  UserInv'
<1>1. /\ pc = "owner" /\ Who!RootMapped /\ pc' = "umap" /\ console' = new /\ helper' = how
      /\ UNCHANGED <<opts, i, userns, users, umap, gmap, cred, caps>>
  BY DEF Who!Owner, Who!Owning, Who!input, Who!maps
<1>2. Typed' /\ ListInv'
  BY <1>1, SameList DEF UserInv, Typed
<1>3. MapInv' /\ CredInv'
  BY <1>1 DEF MapInv, CredInv, InChild
<1>4. OwnerInv'
  <2>1. Who!RootMapped' /\ Who!MappedRoot("u")' = Who!MappedRoot("u") /\ userns'
    BY <1>1, SameList DEF UserInv, OwnerInv
  <2> QED BY <1>1, <2>1 DEF OwnerInv, InChild
<1> QED BY <1>2, <1>3, <1>4 DEF UserInv

LEMMA OwnersKeep ==
    ASSUME UserInv, Who!ChownConsole \/ Who!OwnedAlready \/ Who!HelperChowns \/ Who!HelperFails
    PROVE  UserInv'
<1>1. Typed /\ OwnerInv
  BY DEF UserInv
<1>2. CASE Who!ChownConsole
  BY <1>2, OwnerKeeps DEF Who!ChownConsole
<1>3. CASE Who!OwnedAlready
  <2>1. console.uid = Who!MappedRoot("u") /\ Who!Owner(console, "none")
    BY <1>1, <1>3 DEF Who!OwnedAlready, Who!Owning, OwnerInv
  <2> QED BY <1>1, <2>1, OwnerKeeps DEF Typed
<1>4. CASE Who!HelperChowns
  <2> DEFINE new == [uid |-> Who!ToHost(Who!Rows(Who!HelperMap, "u"), 0),
                     gid |-> Who!ToHost(Who!Rows(Who!HelperMap, "g"), console.gid)]
  <2>1. Who!Owner(new, "ok") /\ Who!NeedsHelper
    BY <1>4 DEF Who!HelperChowns
  <2>2. new = [uid |-> new.uid, gid |-> new.gid]
    OBVIOUS
  <2>3. new.uid = Who!MappedRoot("u")
    BY <1>1, <2>1, RootOfHelper
  <2> HIDE DEF new
  <2> QED BY <2>1, <2>2, <2>3, OwnerKeeps
<1>5. CASE Who!HelperFails
  <2> DEFINE new == [console EXCEPT !.gid = opts.euid]
  <2>1. Who!Owner(new, "failed")
    BY <1>5 DEF Who!HelperFails
  <2>2. new = [uid |-> new.uid, gid |-> new.gid]
    BY <1>1 DEF Typed
  <2> HIDE DEF new
  <2> QED BY <2>1, <2>2, OwnerKeeps
<1> QED BY <1>2, <1>3, <1>4, <1>5

LEMMA HelperMapFailsKeeps == ASSUME UserInv, Who!HelperMapFails PROVE UserInv'
<1>1. /\ pc = "owner" /\ pc' = "failed" /\ console' = [console EXCEPT !.gid = opts.euid]
      /\ UNCHANGED <<opts, i, userns, users, umap, gmap, helper, cred, caps>>
  BY DEF Who!HelperMapFails, Who!NeedsHelper, Who!Owning, Who!input, Who!maps
<1>2. Typed' /\ ListInv'
  BY <1>1, SameList DEF UserInv, Typed
<1>3. MapInv' /\ CredInv' /\ OwnerInv'
  BY <1>1 DEF MapInv, CredInv, OwnerInv, InChild
<1> QED BY <1>2, <1>3 DEF UserInv

-----------------------------------------------------------------------------
(* The maps.                                                               *)

LEMMA SetMapKeeps ==
    ASSUME UserInv,
           \/ Who!setup_user_map("u", "umap", "gmap") \/ Who!setup_user_map("g", "gmap", "setgid")
    PROVE  UserInv'
<1>1. CASE Who!Fail
  BY <1>1, FailKeeps DEF Who!setup_user_map
<1>2. CASE /\ pc = "umap" /\ Who!CanMap(users, "u") /\ pc' = "gmap"
           /\ umap' = Who!Rows(users, "u") /\ gmap' = gmap
           /\ UNCHANGED <<opts, i, userns, users, helper, console, cred, caps>>
  <2>1. Typed' /\ ListInv'
    BY <1>2, SameList DEF UserInv, Typed
  <2>2. IsMap(umap, "u")'
    BY <1>2, SameList DEF IsMap, Who!CanMap
  <2>3. MapInv' /\ CredInv'
    BY <1>2, <2>2 DEF MapInv, CredInv, InChild
  <2>4. OwnerInv'
    BY <1>2, SameList DEF UserInv, OwnerInv, InChild
  <2> QED BY <2>1, <2>3, <2>4 DEF UserInv
<1>3. CASE /\ pc = "gmap" /\ Who!CanMap(users, "g") /\ pc' = "setgid"
           /\ gmap' = Who!Rows(users, "g") /\ umap' = umap
           /\ UNCHANGED <<opts, i, userns, users, helper, console, cred, caps>>
  <2>1. Typed' /\ ListInv'
    BY <1>3, SameList DEF UserInv, Typed
  <2>2. IsMap(umap, "u")' /\ IsMap(gmap, "g")'
    BY <1>3, SameList DEF UserInv, MapInv, IsMap, Who!CanMap
  <2>3. MapInv' /\ CredInv'
    BY <1>3, <2>2 DEF MapInv, CredInv, InChild
  <2>4. OwnerInv'
    BY <1>3, SameList DEF UserInv, OwnerInv, InChild
  <2> QED BY <2>1, <2>3, <2>4 DEF UserInv
<1> QED BY <1>1, <1>2, <1>3 DEF Who!setup_user_map, Who!input, Who!maps

-----------------------------------------------------------------------------
(* The child.                                                              *)

\* What does not change when the child goes on.
LEMMA ChildKeeps ==
    ASSUME UserInv, NEW from \in InChild, NEW to \in InChild, Who!ChildGoes(from, to),
           cred' = [uid |-> cred'.uid, gid |-> cred'.gid, groups |-> cred'.groups]
    PROVE  /\ Typed' /\ ListInv' /\ MapInv' /\ OwnerInv'
           /\ Who!Known' = Who!Known
           /\ Who!HostId(umap, Who!Uid)' = Who!HostId(umap, Who!Uid)
           /\ Who!HostId(gmap, Who!Gid)' = Who!HostId(gmap, Who!Gid)
<1>1. /\ pc = from /\ pc' = to
      /\ UNCHANGED <<opts, i, userns, users, umap, gmap, helper, console>>
  BY DEF Who!ChildGoes, Who!input, Who!maps
<1>2. pc # "options" /\ pc' # "options"
  BY <1>1 DEF InChild
<1>3. Typed' /\ ListInv' /\ Who!Known' = Who!Known
  BY <1>1, <1>2, SameList DEF UserInv, Typed
<1>4. MapInv'
  BY <1>1, <1>2, SameList DEF UserInv, MapInv, IsMap, InChild
<1>5. OwnerInv'
  BY <1>1, <1>2, SameList DEF UserInv, OwnerInv, InChild
<1>6. /\ Who!HostId(umap, Who!Uid)' = Who!HostId(umap, Who!Uid)
      /\ Who!HostId(gmap, Who!Gid)' = Who!HostId(gmap, Who!Gid)
  BY <1>1 DEF Who!HostId, Who!ToHost, Who!Uid, Who!Gid
<1> QED BY <1>3, <1>4, <1>5, <1>6

LEMMA SetUserKeeps ==
    ASSUME UserInv, Who!InvalidUser \/ Who!setresgid \/ Who!setresuid \/ Who!setgroups
    PROVE  UserInv'
<1> USE DEF InChild
<1>1. cred = [uid |-> cred.uid, gid |-> cred.gid, groups |-> cred.groups] /\ CredInv
  BY DEF UserInv, Typed
<1>2. CASE Who!InvalidUser
  <2>1. /\ ~Who!Known /\ Who!ChildGoes("setgid", "done") /\ cred' = cred
    BY <1>2 DEF Who!InvalidUser
  <2>2. pc' = "done" /\ ~Who!Known'
    BY <1>1, <2>1, ChildKeeps DEF Who!ChildGoes
  <2> QED BY <1>1, <2>1, <2>2, ChildKeeps DEF UserInv, CredInv
<1>3. CASE Who!setresgid
  <2>1. /\ Who!Known /\ Who!ChildGoes("setgid", "setuid") /\ pc' = "setuid"
        /\ cred' = [cred EXCEPT !.gid = Who!HostId(gmap, Who!Gid)]
    BY <1>3 DEF Who!setresgid, Who!ChildGoes
  <2>2. /\ cred' = [uid |-> cred'.uid, gid |-> cred'.gid, groups |-> cred'.groups]
        /\ cred'.gid = Who!HostId(gmap, Who!Gid)
    BY <1>1, <2>1
  <2> QED BY <2>1, <2>2, ChildKeeps DEF UserInv, CredInv
<1>4. CASE Who!setresuid
  <2>1. /\ pc = "setuid" /\ Who!ChildGoes("setuid", "setgroups") /\ pc' = "setgroups"
        /\ cred' = [cred EXCEPT !.uid = Who!HostId(umap, Who!Uid)]
    BY <1>4 DEF Who!setresuid, Who!ChildGoes
  <2>2. /\ cred' = [uid |-> cred'.uid, gid |-> cred'.gid, groups |-> cred'.groups]
        /\ cred'.uid = Who!HostId(umap, Who!Uid) /\ cred'.gid = cred.gid
    BY <1>1, <2>1
  <2> QED BY <1>1, <2>1, <2>2, ChildKeeps DEF UserInv, CredInv
<1>5. CASE Who!setgroups
  <2>1. /\ pc = "setgroups" /\ Who!ChildGoes("setgroups", "done") /\ pc' = "done"
        /\ cred' = [cred EXCEPT !.groups = {}]
    BY <1>5 DEF Who!setgroups, Who!ChildGoes
  <2>2. /\ cred' = [uid |-> cred'.uid, gid |-> cred'.gid, groups |-> cred'.groups]
        /\ cred'.groups = {} /\ cred'.uid = cred.uid /\ cred'.gid = cred.gid
    BY <1>1, <2>1
  <2> QED BY <1>1, <2>1, <2>2, ChildKeeps DEF UserInv, CredInv
<1> QED BY <1>2, <1>3, <1>4, <1>5

-----------------------------------------------------------------------------
(* The specification.                                                      *)

LEMMA UserStepKeeps == ASSUME UserInv, Who!Next PROVE UserInv'
<1>1. CASE Who!NoMappedRoot
  BY <1>1, FailKeeps DEF Who!NoMappedRoot
<1>2. CASE Who!SetUserFails
  BY <1>2, FailKeeps DEF Who!SetUserFails
<1> QED
  BY <1>1, <1>2, AddMapKeeps, OptionsReadKeeps, CloneKeeps, OwnersKeep, HelperMapFailsKeeps,
     SetMapKeeps, SetUserKeeps
     DEF Who!Next

LEMMA UserStutters ==
    ASSUME UserInv, UNCHANGED <<pc, i, userVars>>
    PROVE  UserInv'
<1>1. UNCHANGED <<opts, userns, users, umap, gmap, helper, console, cred>>
  BY DEF userVars
<1>2. Typed' /\ FromOptions' = FromOptions /\ OwnEntries' = OwnEntries
  BY <1>1 DEF UserInv, Typed, FromOptions, OwnEntries, Who!Uid, Who!Gid
<1>3. ListInv' /\ MapInv'
  BY <1>1, <1>2 DEF UserInv, ListInv, MapInv, IsMap, Who!Known, Who!Rows
<1>4. OwnerInv' /\ CredInv'
  BY <1>1 DEF UserInv, OwnerInv, CredInv, Who!Known, Who!Uid, Who!Gid, Who!HostId, Who!ToHost,
              Who!RootMapped, Who!MappedRoot, Who!RootEntries
<1> QED BY <1>2, <1>3, <1>4 DEF UserInv

\* The other parts leave it to this one.
LEMMA Invariant == Spec => []IInv
<1>1. Init => IInv
  BY InitUser DEF Init, IInv
<1>2. IInv /\ [Next]_vars => IInv'
  <2> SUFFICES ASSUME IInv, [Next]_vars, part' = "user" PROVE UserInv'
    BY DEF IInv
  <2>1. part = "user" /\ UserInv
    BY DEF IInv, Next, vars, LineStep, OptlistStep, CapsStep, RequestStep, NetifStep, UserStep
  <2>2. CASE UserStep
    BY <2>1, <2>2, UserStepKeeps DEF UserStep
  <2>3. CASE UNCHANGED vars
    BY <2>1, <2>3, UserStutters DEF vars
  <2> QED
    BY <2>1, <2>2, <2>3 DEF Next, LineStep, OptlistStep, CapsStep, RequestStep, NetifStep
<1> QED BY <1>1, <1>2, PTL DEF Spec

\* When the command starts it runs as the user that was asked for, as the namespace
\* has it, and in none of the invoker's groups (user.c:125-141).
THEOREM UserIsTaken == Spec => []RunsAsUser
<1>1. IInv => RunsAsUser
  BY DEF IInv, UserInv, Typed, CredInv, RunsAsUser, Who!RunsAsUser
<1> QED BY <1>1, Invariant, PTL

\* When the command of a container with a root and ids of its own starts the console
\* is the container's root's, unless the helper has failed without anybody noticing
\* (dev.c:88-148): no other entry of the map has the root in it than the first one,
\* which the owner is taken from, and the helper's own map says the same.
THEOREM ConsoleIsGiven == Spec => []ConsoleOwned
<1>1. ASSUME UserInv PROVE Who!ConsoleOwned
  BY <1>1, RootOfMap DEF UserInv, MapInv, OwnerInv, InChild, Who!ConsoleOwned
<1>2. IInv => ConsoleOwned
  BY <1>1 DEF IInv, ConsoleOwned
<1> QED BY <1>2, Invariant, PTL

\* A map of the list has the pairs of ids that the options ask for.
LEMMA PairsOfMap ==
    ASSUME UserInv, pc = "done", NEW type \in {"u", "g"}, NEW map, IsMap(map, type)
    PROVE  LET id == IF type = "u" THEN Who!Uid ELSE Who!Gid IN
           /\ Who!Known \/ opts.map # <<>>
           /\ Who!Pairs(map) = Who!AskedPairs(id)
<1> DEFINE id == IF type = "u" THEN Who!Uid ELSE Who!Gid
<1>1. /\ DOMAIN map = {n \in DOMAIN users : users[n].type = type}
      /\ \A n \in DOMAIN map : map[n] = users[n]
      /\ DOMAIN map # {}
  BY RowsAre DEF IsMap, Who!ValidMap
<1>2. Typed /\ ListInv /\ i = Len(opts.map) /\ i \in Nat
  BY DEF UserInv, ListInv, Typed
<1>3. CASE opts.map = <<>>
  <2>1. Who!Known /\ users = OwnEntries
    BY <1>1, <1>2, <1>3 DEF ListInv
  <2> DEFINE n == IF type = "u" THEN 1 ELSE 2
  <2>2. DOMAIN map = {n} /\ map[n] = Who!Entry(type, id, id, 1)
    BY <1>1, <2>1 DEF OwnEntries, Who!Entry
  <2>3. id \in Nat
    BY <2>1, AccountsAreNumbers
  <2> HIDE DEF n, id
  <2>4. map[n].id = id /\ map[n].host = id /\ map[n].count = 1
    BY <2>2 DEF Who!Entry
  <2>5. {<<map[n].id + d, map[n].host + d>> : d \in 0 .. map[n].count - 1} = {<<id, id>>}
    <3>1. 0 .. map[n].count - 1 = {0} /\ id + 0 = id
      BY <2>3, <2>4
    <3> QED BY <2>4, <3>1
  <2>6. Who!Pairs(map) = {<<id, id>>}
    BY <2>2, <2>5 DEF Who!Pairs
  <2> QED BY <1>3, <2>1, <2>6 DEF Who!AskedPairs, id
<1>4. CASE opts.map # <<>>
  <2> DEFINE Asked(m) == {<<m[1] + d, m[2] + d>> : d \in 0 .. m[3] - 1}
             Has(n) == {<<map[n].id + d, map[n].host + d>> : d \in 0 .. map[n].count - 1}
             Place(j) == IF type = "u" THEN 2 * j - 1 ELSE 2 * j
  <2>1. FromOptions /\ DOMAIN users = 1 .. 2 * i
    BY <1>2, <1>4 DEF ListInv, FromOptions, Typed
  <2>2. ASSUME NEW j \in 1 .. i
        PROVE  LET m == opts.map[j] IN
               /\ Place(j) \in DOMAIN map
               /\ map[Place(j)] = Who!Entry(type, m[1], m[2], m[3])
    <3>1. LET m == opts.map[j] IN
          /\ users[2 * j - 1] = Who!Entry("u", m[1], m[2], m[3])
          /\ users[2 * j] = Who!Entry("g", m[1], m[2], m[3])
      BY <2>1 DEF FromOptions
    <3>2. 2 * j - 1 \in 1 .. 2 * i /\ 2 * j \in 1 .. 2 * i
      BY <1>2
    <3> QED BY <1>1, <2>1, <3>1, <3>2 DEF Who!Entry
  <2>3. ASSUME NEW n \in DOMAIN map PROVE \E j \in 1 .. i : n = Place(j)
    <3>1. n \in 1 .. 2 * i /\ users[n].type = type
      BY <1>1, <2>1
    <3>2. PICK j \in 1 .. i : n = 2 * j - 1 \/ n = 2 * j
      <4>1. (n + 1) \div 2 \in 1 .. i
            /\ (n = 2 * ((n + 1) \div 2) - 1 \/ n = 2 * ((n + 1) \div 2))
        BY <1>2, <3>1
      <4> QED BY <4>1
    <3>3. users[2 * j - 1].type = "u" /\ users[2 * j].type = "g"
      <4>1. LET m == opts.map[j] IN
            /\ users[2 * j - 1] = Who!Entry("u", m[1], m[2], m[3])
            /\ users[2 * j] = Who!Entry("g", m[1], m[2], m[3])
        BY <2>1 DEF FromOptions
      <4> QED BY <4>1 DEF Who!Entry
    <3> QED BY <3>1, <3>2, <3>3
  <2>4. ASSUME NEW j \in 1 .. i PROVE Has(Place(j)) = Asked(opts.map[j])
    <3> DEFINE m == opts.map[j]
               n == Place(j)
    <3>1. map[n] = Who!Entry(type, m[1], m[2], m[3])
      BY <2>2
    <3> HIDE DEF m, n
    <3>2. map[n].id = m[1] /\ map[n].host = m[2] /\ map[n].count = m[3]
      BY <3>1 DEF Who!Entry
    <3>3. Has(n) = Asked(m)
      BY ONLY <3>2
    <3> QED BY <3>3 DEF m, n
  <2>5. Who!ToSet(opts.map) = {opts.map[j] : j \in 1 .. i}
    <3>1. DOMAIN opts.map = 1 .. i
      BY <1>2 DEF Typed
    <3> QED BY <3>1 DEF Who!ToSet
  <2>6. Who!AskedPairs(id) = UNION {Asked(opts.map[j]) : j \in 1 .. i}
    BY <1>4, <2>5 DEF Who!AskedPairs
  <2>7. Who!Pairs(map) = UNION {Has(n) : n \in DOMAIN map}
    BY DEF Who!Pairs
  <2> HIDE DEF Asked, Has, Place
  <2>8. {Has(n) : n \in DOMAIN map} = {Asked(opts.map[j]) : j \in 1 .. i}
    BY <2>2, <2>3, <2>4
  <2> QED BY <1>4, <2>6, <2>7, <2>8
<1> QED BY <1>3, <1>4

\* A container with a user namespace has the ids that were asked for and no other
\* id of the host: those of --user-map, or the user's own (user.c:63-114,
\* pflask.c:116-164).
THEOREM IdsAreAsked == Spec => []MapsAsAsked
<1>1. ASSUME UserInv PROVE Who!MapsAsAsked
  BY <1>1, PairsOfMap DEF UserInv, MapInv, InChild, Who!MapsAsAsked
<1>2. IInv => MapsAsAsked
  BY <1>1 DEF IInv, MapsAsAsked
<1> QED BY <1>2, Invariant, PTL

-----------------------------------------------------------------------------
(* The --caps option.                                                      *)

Word == [drop : BOOLEAN, name : Caps \cup {All, Unknown}]

\* Of the first n words of the option: none names c; the j-th is the last to name it;
\* the first one drops everything.
Unnamed(c, n) == \A j \in 1 .. n : args[j].name # c
LastNamed(c, n, j) ==
    j \in 1 .. n /\ args[j].name = c /\ \A m \in 1 .. n : args[m].name = c => m <= j
FromNothing(n) == n >= 1 /\ args[1].name = All /\ args[1].drop = TRUE

\* What the first n words make of a set.
Made(n, start, set) ==
    \A c \in Caps :
        \/ Unnamed(c, n) /\ (c \in set <=> c \in start /\ ~FromNothing(n))
        \/ \E j \in 1 .. n : LastNamed(c, n, j) /\ (c \in set <=> args[j].drop = FALSE)

CapsTyped ==
    /\ args \in Seq(Word) /\ list \in Seq(Word)
    /\ i \in Nat \ {0} /\ root \in BOOLEAN
    /\ first \in Cap!Sets /\ first.inh = {} /\ mine \in Cap!Sets /\ copy \in Cap!Sets

\* The list is the option, as far as it has been read, and the alias comes first.
CapsListInv ==
    /\ pc = "add" => Len(list) = i - 1
    /\ pc \in {"update", "exec", "running"} => Len(list) = Len(args)
    /\ Len(list) <= Len(args)
    /\ \A j \in 1 .. Len(list) :
           /\ list[j] = args[j] /\ args[j].name # Unknown
           /\ args[j].name = All => j = 1

CopyInv ==
    /\ pc \in {"add", "update"} => mine = first
    /\ pc = "update" =>
           /\ i <= Len(list) + 1
           /\ Made(i - 1, first.bound, copy.bound) /\ Made(i - 1, {}, copy.inh)

\* What capng_apply() has made the process's own, and exec leaves of it.
Applied ==
    pc \in {"exec", "running"} /\ setpcap \in first.eff =>
        /\ Made(Len(args), first.bound, copy.bound)
        /\ mine.bound = first.bound \cap copy.bound /\ mine.inh \subseteq mine.bound
        /\ pc = "running" => /\ mine.eff = IF root THEN mine.inh \cup mine.bound ELSE {}
                             /\ mine.perm = mine.eff

CapsInv == CapsTyped /\ CapsListInv /\ CopyInv /\ Applied

CapsIInv == part = "caps" => CapsInv

-----------------------------------------------------------------------------
(* What a word does to a set.                                              *)

Changes(set, a) ==
    IF a.name # All THEN Cap!Changed(set, a) ELSE IF a.drop = TRUE THEN {} ELSE set

LEMMA OneMore ==
    ASSUME NEW n \in Nat, args \in Seq(Word), n + 1 <= Len(args),
           NEW start, NEW set, Made(n, start, set),
           args[n + 1].name # Unknown, args[n + 1].name = All => n = 0
    PROVE  Made(n + 1, start, Changes(set, args[n + 1]))
<1> DEFINE a == args[n + 1]
<1>1. a \in Word /\ n + 1 \in Nat /\ \A m : m \in 1 .. n + 1 <=> m \in 1 .. n \/ m = n + 1
  <2>1. n + 1 \in 1 .. Len(args)
    OBVIOUS
  <2> QED BY <2>1
<1> SUFFICES ASSUME NEW c \in Caps
             PROVE  \/ /\ Unnamed(c, n + 1)
                       /\ c \in Changes(set, a) <=> c \in start /\ ~FromNothing(n + 1)
                    \/ \E j \in 1 .. n + 1 :
                           /\ LastNamed(c, n + 1, j)
                           /\ c \in Changes(set, a) <=> args[j].drop = FALSE
  BY DEF Made
<1>2. c # All /\ All \notin Caps
  BY Inputs DEF Cap!CapabilitiesAssumption
<1>3. CASE a.name = All
  <2>1. n = 0 /\ Unnamed(c, n) /\ (c \in set <=> c \in start)
    <3>1. n = 0
      BY <1>3
    <3>2. ~FromNothing(n) /\ Unnamed(c, n) /\ ~\E j \in 1 .. n : TRUE
      BY <3>1 DEF FromNothing, Unnamed
    <3> QED BY <3>1, <3>2 DEF Made
  <2>2. Unnamed(c, n + 1)
    BY <1>1, <1>2, <1>3, <2>1 DEF Unnamed
  <2>3. FromNothing(n + 1) <=> a.drop = TRUE
    BY <1>3, <2>1 DEF FromNothing
  <2>4. c \in Changes(set, a) <=> c \in set /\ ~(a.drop = TRUE)
    BY <1>3 DEF Changes
  <2> QED BY <2>1, <2>2, <2>3, <2>4
<1>4. CASE a.name = c
  <2>1. LastNamed(c, n + 1, n + 1)
    BY <1>1, <1>4 DEF LastNamed
  <2>2. c \in Changes(set, a) <=> a.drop = FALSE
    <3>1. a.drop \in BOOLEAN
      BY <1>1 DEF Word
    <3>2. CASE a.drop = TRUE
      BY <1>2, <1>4, <3>2 DEF Changes, Cap!Changed
    <3>3. CASE a.drop = FALSE
      BY <1>2, <1>4, <3>3 DEF Changes, Cap!Changed
    <3> QED BY <3>1, <3>2, <3>3
  <2> QED BY <1>1, <2>1, <2>2
<1>5. CASE a.name \notin {All, c}
  <2>1. c \in Changes(set, a) <=> c \in set
    BY <1>5 DEF Changes, Cap!Changed
  <2>2. FromNothing(n + 1) <=> FromNothing(n)
    <3>1. CASE n = 0
      BY <1>5, <3>1 DEF FromNothing
    <3>2. CASE n >= 1
      BY <3>2 DEF FromNothing
    <3> QED BY <3>1, <3>2
  <2>3. Unnamed(c, n) => Unnamed(c, n + 1)
    BY <1>1, <1>5 DEF Unnamed
  <2>4. ASSUME NEW j \in 1 .. n, LastNamed(c, n, j) PROVE LastNamed(c, n + 1, j) /\ j \in 1 .. n + 1
    BY <1>1, <1>5, <2>4 DEF LastNamed
  <2>5. \/ Unnamed(c, n) /\ (c \in set <=> c \in start /\ ~FromNothing(n))
        \/ \E j \in 1 .. n : LastNamed(c, n, j) /\ (c \in set <=> args[j].drop = FALSE)
    BY DEF Made
  <2> QED BY <2>1, <2>2, <2>3, <2>4, <2>5
<1> QED BY <1>3, <1>4, <1>5

LEMMA NothingRead ==
    ASSUME NEW set PROVE Made(0, set, set)
BY DEF Made, Unnamed, FromNothing

-----------------------------------------------------------------------------
(* The invariant.                                                          *)

LEMMA InitCaps == ASSUME Cap!Init PROVE CapsInv
<1>1. args \in Seq(Word)
  <2>1. PICK m \in 0 .. MaxArgs : args \in [1 .. m -> Word]
    BY DEF Cap!Init, Cap!BoundedSeq, Cap!SeqOf, Word
  <2> QED BY <2>1
<1>2. PICK held \in HeldSets, bound \in {Caps} \cup HeldSets :
          mine = [eff |-> held, perm |-> held, inh |-> {}, bound |-> bound]
  BY DEF Cap!Init
<1>3. held \subseteq Caps /\ bound \subseteq Caps
  BY <1>2, Inputs DEF Cap!CapabilitiesAssumption
<1>4. mine \in Cap!Sets /\ mine.inh = {}
  BY <1>2, <1>3 DEF Cap!Sets
<1>5. first = mine /\ copy \in Cap!Sets /\ root \in BOOLEAN /\ list = <<>> /\ pc = "add" /\ i = 1
  BY DEF Cap!Init, Cap!Sets
<1>6. Len(args) \in Nat
  BY <1>1
<1>7. CapsTyped
  BY <1>1, <1>4, <1>5 DEF CapsTyped
<1> QED BY <1>5, <1>6, <1>7 DEF CapsInv, CapsListInv, CopyInv, Applied

LEMMA AddKeeps == ASSUME CapsInv, Cap!capability_add PROVE CapsInv'
<1>1. /\ pc = "add" /\ i <= Len(args) /\ UNCHANGED <<args, root, first, mine, copy>>
      /\ args \in Seq(Word) /\ list \in Seq(Word) /\ i \in Nat \ {0} /\ Len(list) = i - 1
  BY DEF CapsInv, CapsTyped, CapsListInv, Cap!capability_add, Cap!Fail, Cap!parameters
<1>2. CASE Cap!Fail
  BY <1>1, <1>2 DEF CapsInv, CapsTyped, CapsListInv, CopyInv, Applied, Cap!Fail
<1>3. CASE Cap!Accepted(args[i]) /\ list' = Append(list, args[i]) /\ i' = i + 1 /\ pc' = pc
  <2>1. args[i] \in Word
    BY <1>1
  <2>2. /\ list' \in Seq(Word) /\ Len(list') = i /\ list'[i] = args[i]
        /\ \A j \in 1 .. Len(list) : list'[j] = list[j]
    BY <1>1, <1>3, <2>1
  <2>3. args[i].name # Unknown /\ (args[i].name = All => i = 1)
    BY <1>1, <1>3 DEF Cap!Accepted
  <2>4. \A j \in 1 .. Len(list') : j \in 1 .. Len(list) \/ j = i
    BY <1>1, <2>2
  <2>5. CapsListInv'
    BY <1>1, <1>3, <2>2, <2>3, <2>4 DEF CapsInv, CapsListInv
  <2>6. CapsTyped'
    BY <1>1, <1>3, <2>2 DEF CapsInv, CapsTyped
  <2> QED BY <1>1, <1>3, <2>5, <2>6 DEF CapsInv, CopyInv, Applied
<1> QED BY <1>2, <1>3 DEF Cap!capability_add

LEMMA GetKeeps == ASSUME CapsInv, Cap!capng_get_caps_process PROVE CapsInv'
<1>1. /\ pc = "add" /\ pc' = "update" /\ i' = 1 /\ copy' = mine /\ i > Len(args)
      /\ UNCHANGED <<args, root, first, list, mine>>
  BY DEF Cap!capng_get_caps_process, Cap!parameters
<1>2. mine = first /\ first.inh = {}
  BY <1>1 DEF CapsInv, CapsTyped, CopyInv
<1>3. Made(0, first.bound, copy'.bound) /\ Made(0, {}, copy'.inh)
  BY <1>1, <1>2, NothingRead
<1>4. Made(0, first.bound, copy.bound)' /\ Made(0, {}, copy.inh)'
  BY <1>1, <1>3 DEF Made, Unnamed, LastNamed, FromNothing
<1>5. /\ Len(list) \in Nat /\ Len(args) \in Nat /\ i \in Nat
      /\ Len(list) = i - 1 /\ Len(list) <= Len(args)
  BY <1>1 DEF CapsInv, CapsTyped, CapsListInv
<1>6. Len(list) = Len(args) /\ i' <= Len(list') + 1 /\ i' - 1 = 0
  BY <1>1, <1>5
<1>7. CapsTyped'
  BY <1>1 DEF CapsInv, CapsTyped
<1>8. CapsListInv'
  BY <1>1, <1>6 DEF CapsInv, CapsListInv
<1>9. CopyInv'
  BY <1>1, <1>2, <1>4, <1>6 DEF CopyInv
<1> QED BY <1>1, <1>7, <1>8, <1>9 DEF CapsInv, Applied

LEMMA UpdateKeeps == ASSUME CapsInv, Cap!capng_update PROVE CapsInv'
<1> DEFINE a == args[i]
<1>1. /\ pc = "update" /\ pc' = "update" /\ i' = i + 1 /\ i <= Len(list)
      /\ UNCHANGED <<args, root, first, list, mine>>
  BY DEF Cap!capng_update, Cap!parameters
<1>2. /\ args \in Seq(Word) /\ i \in Nat \ {0} /\ i <= Len(args) /\ Len(args) \in Nat /\ list[i] = a
      /\ Len(list) = Len(args) /\ a.name # Unknown /\ (a.name = All => i = 1)
  <2>1. /\ args \in Seq(Word) /\ i \in Nat \ {0} /\ Len(list) = Len(args)
    BY <1>1 DEF CapsInv, CapsTyped, CapsListInv
  <2>2. i \in 1 .. Len(list)
    BY <1>1, <2>1
  <2> QED BY <1>1, <2>1, <2>2 DEF CapsInv, CapsListInv
<1>3. a \in Word /\ a.drop \in BOOLEAN /\ (a.name # All => a.name \in Caps)
  <2>1. a \in Word
    BY <1>2
  <2> QED BY <1>2, <2>1 DEF Word
<1>4. /\ copy' \in Cap!Sets
      /\ copy'.bound = Changes(copy.bound, a) /\ copy'.inh = Changes(copy.inh, a)
  <2>1. copy \in Cap!Sets
    BY DEF CapsInv, CapsTyped
  <2>2. CASE a.name # All
    <3>1. /\ copy' = Cap!Update(a)
          /\ \A set : Changes(set, a) = Cap!Changed(set, a)
          /\ \A set \in SUBSET Caps : Cap!Changed(set, a) \in SUBSET Caps
      BY <1>2, <1>3, <2>2 DEF Cap!capng_update, Changes, Cap!Changed
    <3>2. copy' = [eff |-> Cap!Changed(copy.eff, a), perm |-> Cap!Changed(copy.perm, a),
                   inh |-> Cap!Changed(copy.inh, a), bound |-> Cap!Changed(copy.bound, a)]
      BY <3>1 DEF Cap!Update
    <3>3. copy' \in Cap!Sets
      BY <2>1, <3>1, <3>2 DEF Cap!Sets
    <3>4. copy'.bound = Cap!Changed(copy.bound, a) /\ copy'.inh = Cap!Changed(copy.inh, a)
      BY <3>2
    <3> QED BY <3>1, <3>3, <3>4
  <2>3. CASE a.name = All /\ a.drop = TRUE
    <3>1. copy' = Cap!Cleared
      BY <1>2, <2>3 DEF Cap!capng_update
    <3> QED BY <2>3, <3>1 DEF Cap!Cleared, Cap!Sets, Changes
  <2>4. CASE a.name = All /\ a.drop = FALSE
    <3>1. copy' = copy
      BY <1>2, <2>4 DEF Cap!capng_update
    <3> QED BY <2>1, <2>4, <3>1 DEF Changes
  <2> QED BY <1>3, <2>2, <2>3, <2>4
<1>5. i - 1 \in Nat /\ (i - 1) + 1 = i /\ i' - 1 = i
  BY <1>1, <1>2
<1>6. Made(i - 1, first.bound, copy.bound) /\ Made(i - 1, {}, copy.inh)
  BY <1>1 DEF CapsInv, CopyInv
<1> DEFINE n == i - 1
<1>7. n \in Nat /\ n + 1 = i
  BY <1>5
<1>8. Made(n, first.bound, copy.bound) /\ Made(n, {}, copy.inh)
  BY <1>6
<1>9. a.name = All => n = 0
  BY <1>2
<1> HIDE DEF n
<1>10. /\ Made(n + 1, first.bound, Changes(copy.bound, args[n + 1]))
       /\ Made(n + 1, {}, Changes(copy.inh, args[n + 1]))
  BY <1>2, <1>7, <1>8, <1>9, OneMore
<1>11. Made(i, first.bound, copy'.bound) /\ Made(i, {}, copy'.inh)
  BY <1>4, <1>7, <1>10
<1>12. CopyInv'
  <2>1. i' <= Len(list') + 1 /\ mine' = first'
    BY <1>1, <1>2 DEF CapsInv, CopyInv
  <2>2. Made(i - 1, first.bound, copy.bound)' /\ Made(i - 1, {}, copy.inh)'
    BY <1>1, <1>5, <1>11 DEF Made, Unnamed, LastNamed, FromNothing
  <2> QED BY <1>1, <2>1, <2>2 DEF CopyInv
<1>13. CapsTyped'
  BY <1>1, <1>2, <1>4 DEF CapsInv, CapsTyped
<1>14. CapsListInv'
  BY <1>1 DEF CapsInv, CapsListInv
<1> QED BY <1>1, <1>12, <1>13, <1>14 DEF CapsInv, Applied

LEMMA ApplyKeeps == ASSUME CapsInv, Cap!capng_apply PROVE CapsInv'
<1>1. /\ pc = "update" /\ pc' = "exec" /\ i > Len(list) /\ Cap!MayTake
      /\ mine' = [copy EXCEPT !.bound = Cap!Bound]
      /\ UNCHANGED <<args, root, first, list, i, copy>>
  BY DEF Cap!capng_apply, Cap!parameters
<1>2. copy \in Cap!Sets /\ mine = first /\ mine \in Cap!Sets /\ first.inh = {}
  BY <1>1 DEF CapsInv, CapsTyped, CopyInv
<1>3. /\ mine'.bound = Cap!Bound /\ mine'.inh = copy.inh /\ mine' \in Cap!Sets
  BY <1>1, <1>2 DEF Cap!Sets, Cap!Bound
<1>4. ASSUME setpcap \in first.eff
      PROVE  /\ Made(Len(args), first.bound, copy.bound)
             /\ Cap!Bound = first.bound \cap copy.bound /\ copy.inh \subseteq Cap!Bound
  <2>1. i - 1 = Len(args)
    BY <1>1 DEF CapsInv, CapsTyped, CapsListInv, CopyInv
  <2>2. Made(Len(args), first.bound, copy.bound)
    BY <1>1, <2>1 DEF CapsInv, CopyInv
  <2> QED BY <1>1, <1>2, <1>4, <2>2 DEF Cap!Bound, Cap!MayTake
<1>5. Applied'
  <2>1. Made(Len(args), first.bound, copy.bound) => Made(Len(args), first.bound, copy.bound)'
    BY <1>1 DEF Made, Unnamed, LastNamed, FromNothing
  <2> QED BY <1>1, <1>3, <1>4, <2>1 DEF Applied
<1>6. CapsTyped' /\ CapsListInv' /\ CopyInv'
  BY <1>1, <1>3 DEF CapsInv, CapsTyped, CapsListInv, CopyInv
<1> QED BY <1>5, <1>6 DEF CapsInv

LEMMA ExecKeeps == ASSUME CapsInv, Cap!exec PROVE CapsInv'
<1> DEFINE new == IF root THEN mine.inh \cup mine.bound ELSE {}
<1>1. /\ pc = "exec" /\ pc' = "running" /\ mine' = [mine EXCEPT !.eff = new, !.perm = new]
      /\ UNCHANGED <<args, root, first, list, i, copy>>
  BY DEF Cap!exec, Cap!parameters
<1>2. mine \in Cap!Sets /\ new \in SUBSET Caps
  BY DEF CapsInv, CapsTyped, Cap!Sets
<1> HIDE DEF new
<1>3. /\ mine' \in Cap!Sets /\ mine'.eff = new /\ mine'.perm = new
      /\ mine'.inh = mine.inh /\ mine'.bound = mine.bound
  BY <1>1, <1>2 DEF Cap!Sets
<1>4. Applied'
  <2>1. Made(Len(args), first.bound, copy.bound) => Made(Len(args), first.bound, copy.bound)'
    BY <1>1 DEF Made, Unnamed, LastNamed, FromNothing
  <2>2. mine'.eff = IF root' THEN mine'.inh \cup mine'.bound ELSE {}
    BY <1>1, <1>3 DEF new
  <2> QED BY <1>1, <1>3, <2>1, <2>2 DEF CapsInv, Applied
<1>5. CapsTyped' /\ CapsListInv' /\ CopyInv'
  BY <1>1, <1>3 DEF CapsInv, CapsTyped, CapsListInv, CopyInv
<1> QED BY <1>4, <1>5 DEF CapsInv

LEMMA CapsInvariant == Spec => []CapsIInv
<1>1. Init => CapsIInv
  BY InitCaps DEF Init, CapsIInv
<1>2. CapsIInv /\ [Next]_vars => CapsIInv'
  <2> SUFFICES ASSUME CapsIInv, [Next]_vars, part' = "caps" PROVE CapsInv'
    BY DEF CapsIInv
  <2>1. CASE CapsStep
    <3>1. CapsInv /\ Cap!Next
      BY <2>1 DEF CapsStep, CapsIInv
    <3>2. CASE Cap!ApplyFails
      BY <3>1, <3>2 DEF CapsInv, CapsTyped, CapsListInv, CopyInv, Applied, Cap!ApplyFails, Cap!Fail,
         Cap!parameters
    <3> QED BY <3>1, <3>2, AddKeeps, GetKeeps, UpdateKeeps, ApplyKeeps, ExecKeeps DEF Cap!Next
  <2>2. CASE UNCHANGED vars
    <3>1. CapsInv /\ UNCHANGED <<args, root, first, list, pc, i, mine, copy>>
      BY <2>2 DEF vars, capsVars, CapsIInv
    <3> QED BY <3>1 DEF CapsInv, CapsTyped, CapsListInv, CopyInv, Applied, Made, Unnamed, LastNamed,
               FromNothing
  <2>3. CASE LineStep \/ OptlistStep \/ RequestStep \/ NetifStep \/ UserStep
    BY <2>3 DEF LineStep, OptlistStep, RequestStep, NetifStep, UserStep
  <2> QED BY <2>1, <2>2, <2>3 DEF Next
<1> QED BY <1>1, <1>2, PTL DEF Spec

-----------------------------------------------------------------------------
(* What it means.                                                          *)

\* The set that all words of the option make has what the option asks for.
LEMMA MadeAsAsked ==
    ASSUME args \in Seq(Word), NEW c \in Caps, NEW start, NEW set, Made(Len(args), start, set)
    PROVE  c \in start => (c \in set <=> Cap!Asks(c))
<1>1. DOMAIN args = 1 .. Len(args) /\ Len(args) \in Nat
  OBVIOUS
<1>2. CASE Unnamed(c, Len(args)) /\ (c \in set <=> c \in start /\ ~FromNothing(Len(args)))
  <2>1. Cap!Mentions(c) = {}
    BY <1>1, <1>2 DEF Cap!Mentions, Unnamed
  <2>2. Cap!FromNone <=> FromNothing(Len(args))
    <3>1. CASE args = <<>>
      BY <3>1 DEF Cap!FromNone, FromNothing
    <3>2. CASE args # <<>>
      <4>1. Head(args) = args[1] /\ Len(args) >= 1 /\ args[1] \in Word
        BY <3>2
      <4>2. args[1] = [drop |-> TRUE, name |-> All] <=> args[1].name = All /\ args[1].drop = TRUE
        <5>1. args[1] = [drop |-> args[1].drop, name |-> args[1].name]
          BY <4>1 DEF Word
        <5>2. ASSUME args[1].name = All, args[1].drop = TRUE
              PROVE  args[1] = [drop |-> TRUE, name |-> All]
          BY ONLY <5>1, <5>2, Zenon
        <5>3. ASSUME args[1] = [drop |-> TRUE, name |-> All]
              PROVE  args[1].name = All /\ args[1].drop = TRUE
          BY ONLY <5>3
        <5> QED BY <5>2, <5>3
      <4> QED BY <3>2, <4>1, <4>2 DEF Cap!FromNone, FromNothing
    <3> QED BY <3>1, <3>2
  <2> QED BY <1>2, <2>1, <2>2 DEF Cap!Asks
<1>3. ASSUME NEW j \in 1 .. Len(args), LastNamed(c, Len(args), j),
             c \in set <=> args[j].drop = FALSE
      PROVE  c \in set <=> Cap!Asks(c)
  <2>1. j \in Cap!Mentions(c) /\ \A m \in Cap!Mentions(c) : m <= j
    BY <1>1, <1>3 DEF Cap!Mentions, LastNamed
  <2>2. \A m \in Cap!Mentions(c) : m \in Nat
    BY <1>1 DEF Cap!Mentions
  <2> DEFINE P(m) == \A l \in Cap!Mentions(c) : l <= m
  <2>3. \A m \in Cap!Mentions(c) : P(m) => m = j
    BY <2>1, <2>2
  <2>4. (CHOOSE m \in Cap!Mentions(c) : P(m)) = j
    <3>1. P(j)
      BY <2>1
    <3> HIDE DEF P
    <3> QED BY <2>1, <2>3, <3>1
  <2>5. Cap!LastMention(c) = args[j]
    BY <2>4 DEF Cap!LastMention
  <2>6. args[j].drop \in BOOLEAN
    <3>1. args[j] \in Word
      BY <1>1
    <3> QED BY <3>1 DEF Word
  <2> QED BY <1>3, <2>1, <2>5, <2>6 DEF Cap!Asks
<1> QED BY <1>2, <1>3 DEF Made

\* Where the child may change its bounding set, the last mention of a capability
\* counts: root's command has what the option says, and nothing that was dropped
\* comes back later, to root or another user, with any program that the command
\* starts (capabilities.c:44-108).
THEOREM CapsAreAsAsked == Spec => []CapsAsAsked
<1>1. ASSUME CapsInv, pc = "running", setpcap \in first.eff
      PROVE  /\ \A c \in Caps : c \in mine.bound <=> c \in first.bound /\ Cap!Asks(c)
             /\ mine.bound \subseteq Caps /\ first.bound \subseteq Caps
             /\ mine.inh \cup mine.bound = mine.bound
             /\ mine.perm = mine.eff /\ mine.eff = IF root THEN mine.bound ELSE {}
  <2>1. /\ Made(Len(args), first.bound, copy.bound) /\ args \in Seq(Word)
        /\ mine.bound = first.bound \cap copy.bound /\ mine.inh \subseteq mine.bound
        /\ mine.eff = (IF root THEN mine.inh \cup mine.bound ELSE {}) /\ mine.perm = mine.eff
    BY <1>1 DEF CapsInv, CapsTyped, Applied
  <2>2. mine.bound \subseteq Caps /\ first.bound \subseteq Caps
    BY <1>1 DEF CapsInv, CapsTyped, Cap!Sets
  <2>3. mine.inh \cup mine.bound = mine.bound
    BY <2>1
  <2> QED BY <2>1, <2>2, <2>3, MadeAsAsked
<1>2. ASSUME CapsInv PROVE Cap!LastMentionCounts /\ Cap!DroppedForGood
  <2>1. Cap!LastMentionCounts
    BY <1>1, <1>2 DEF Cap!LastMentionCounts
  <2>2. Cap!DroppedForGood
    BY <1>1, <1>2 DEF Cap!DroppedForGood
  <2> QED BY <2>1, <2>2
<1>3. CapsIInv => CapsAsAsked
  BY <1>2 DEF CapsIInv, CapsAsAsked
<1> QED BY <1>3, CapsInvariant, PTL
=============================================================================
