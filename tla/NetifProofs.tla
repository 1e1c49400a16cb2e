----------------------------- MODULE NetifProofs ----------------------------
(***************************************************************************)
(* The interfaces of a container, for any --netif options, any interfaces  *)
(* of the host and any number of renames and removals by other programs;   *)
(* the answers to the netlink requests, and what the kernel reads of the   *)
(* requests, for names of any length: what MCOptions checks of its parts   *)
(* "netif" and "request", as theorems.                                     *)
(***************************************************************************)
EXTENDS MCOptions, SequenceTheorems, WellFoundedInduction, TLAPS

Made(j) == <<"made", j>>
Peer(j) == <<"peer", j>>

Word == STRING \ {Temp}
OptionType == [type : Net!Makers \cup {"move"}, dev : Word, name : Word]

IsInterface(x) ==
    /\ x = Net!Interface(x.id, x.ns, x.name, x.kind, x.of, x.up)
    /\ x.id # Net!Zero
    /\ x.ns \in {"host", "new"}
    /\ \A j : x.id \in {Made(j), Peer(j)} => x.kind \in Net!Makers

SettingUp == {"find", "create", "locate", "move"}

Typed ==
    /\ args \in Lists /\ newnet \in BOOLEAN
    /\ k \in Nat \ {0} /\ (pc = "parse" => k <= Len(args) + 1)
    /\ list \in Seq(OptionType)
    /\ Len(list) <= IF pc = "parse" THEN k - 1 ELSE Len(args)
    /\ pc \in SettingUp \ {"find"} => k <= Len(list)
    /\ DOMAIN found = DOMAIN args /\ DOMAIN made = DOMAIN args /\ DOMAIN moved = DOMAIN args

\* One interface has an index; pflask's are those made so far.
Interfaces ==
    /\ \A x \in ifs : IsInterface(x)
    /\ \A x, y \in ifs : x.id = y.id => x = y
    /\ \A x \in ifs, j \in Nat : x.id \in {Made(j), Peer(j)} =>
           /\ pc # "parse"
           /\ pc \in {"find", "create"} => j < k
           /\ pc \in {"locate", "move"} => j <= k

\* What is remembered of the options that are yet to come, and of all.
History ==
    /\ \A j \in DOMAIN args : made[j] \in {Net!Zero, Made(j)}
    /\ \A j \in DOMAIN args : pc = "parse" \/ j > k => made[j] = Net!Zero
    /\ \A j \in DOMAIN args : pc = "parse" \/ (pc \in SettingUp /\ j >= k) => moved[j] = Net!Zero
    /\ \A j \in DOMAIN args : j < k /\ made[j] # Net!Zero => moved[j] # Net!Zero
    /\ \A j \in DOMAIN args : pc # "parse" /\ made[j] # Net!Zero =>
           j <= Len(list) /\ list[j].type # "move"

\* The j-th option's interface does not have the name it was made under.
NoLonger(j) == ~\E x \in ifs : x.id = made[j] /\ x.name = Temp

\* The interface that is about to be looked for by its name, and the one found.
Found ==
    /\ pc \in {"locate", "move"} /\ list[k].type # "move" =>
           /\ made[k] = Made(k)
           /\ \A x \in ifs : x.id = Made(k) => x.ns = "host"
    /\ pc = "locate" => list[k].type # "move"
    /\ pc = "locate" => \A x \in ifs : x.ns = "host" /\ x.name = Temp => x.id = Made(k)
    /\ pc = "move" /\ list[k].type # "move" =>
           \/ if_index = Made(k)
           \/ if_index = Net!Zero /\ list[k].type # "veth" /\ NoLonger(k)
    /\ pc = "move" /\ list[k].type = "move" => if_index = found[k] /\ if_index # Net!Zero

\* What the j-th option has moved is what it was to move.
Right(j) ==
    IF Net!IsMove(j) THEN moved[j] = found[j] ELSE moved[j] = made[j] \/ Net!Interfered(j)

\* What was made and moved is in the container's namespace, if it has one.
InNamespace ==
    newnet => \A j \in DOMAIN args : moved[j] = made[j] /\ moved[j] # Net!Zero =>
        \A x \in ifs : x.id = made[j] => pc # "over" /\ x.ns = "new"

NetInv == Typed /\ Interfaces /\ History /\ Found /\ InNamespace /\ Net!OnlyNamedMoved

IInv == part = "netif" => NetInv

-----------------------------------------------------------------------------
(* Indices.                                                                *)

LEMMA Indices ==
    /\ \A j, m : Made(j) # Peer(m) /\ Made(j) # Net!Zero /\ Peer(j) # Net!Zero
    /\ \A j, m : Made(j) = Made(m) \/ Peer(j) = Peer(m) => j = m
    /\ \A j, n : Net!HostId(n) \notin {Made(j), Peer(j), Net!Zero}
BY DEF Made, Peer, Net!Zero, Net!HostId

LEMMA NewInterface ==
    ASSUME NEW id, id # Net!Zero, NEW ns \in {"host", "new"}, NEW name, NEW kind, NEW of, NEW up,
           \A j : id \in {Made(j), Peer(j)} => kind \in Net!Makers,
           NEW x, x = Net!Interface(id, ns, name, kind, of, up)
    PROVE  /\ IsInterface(x)
           /\ x.id = id /\ x.ns = ns /\ x.name = name /\ x.kind = kind
<1>1. /\ x.id = id /\ x.ns = ns /\ x.name = name /\ x.kind = kind /\ x.of = of /\ x.up = up
  BY DEF Net!Interface
<1> QED BY <1>1 DEF IsInterface

\* if_nametoindex() finds an interface of the name, if there is one.
LEMMA Lookup ==
    ASSUME NEW name
    PROVE  \/ Net!if_nametoindex(name) = Net!Zero /\ Net!Named("host", name) = {}
           \/ \E x \in ifs : /\ x.ns = "host" /\ x.name = name
                             /\ Net!if_nametoindex(name) = x.id
BY DEF Net!if_nametoindex, Net!Named

\* The interface of an index.
LEMMA ById ==
    ASSUME Interfaces, NEW id, Net!Exists(id)
    PROVE  /\ Net!If(id) \in ifs /\ Net!If(id).id = id
           /\ \A x \in ifs : x.id = id => x = Net!If(id)
BY DEF Interfaces, Net!Exists, Net!If

-----------------------------------------------------------------------------
(* Steps that leave the interfaces alone.                                  *)

LEMMA InitNet == ASSUME Net!Init PROVE NetInv
<1>1. args \in Seq(Seq(STRING)) /\ args \in Lists
  BY Inputs DEF Net!Init, Net!NetifAssumption
<1>2. Typed
  BY <1>1 DEF Net!Init, Typed, SettingUp
<1> DEFINE Lo     == Net!Interface(<<"new", 0>>, "new", "lo", "loopback", Net!Zero, FALSE)
           Dev(d) == Net!Interface(Net!HostId(d.name), "host", d.name, d.kind, Net!Zero, TRUE)
<1>3. \A x \in ifs : x = Lo \/ \E d \in Devices : x = Dev(d)
  BY DEF Net!Init
<1>4. IsInterface(Lo) /\ Lo.id = <<"new", 0>> /\ \A j : Lo.id \notin {Made(j), Peer(j)}
  <2>1. <<"new", 0>> # Net!Zero /\ \A j : <<"new", 0>> \notin {Made(j), Peer(j)}
    BY DEF Net!Zero, Made, Peer
  <2> QED BY <2>1, NewInterface DEF Net!Interface, IsInterface
<1>5. ASSUME NEW d \in Devices
      PROVE  /\ IsInterface(Dev(d)) /\ \A j : Dev(d).id \notin {Made(j), Peer(j)}
             /\ Dev(d).id = Net!HostId(d.name)
  <2>1. Net!HostId(d.name) # Net!Zero /\ \A j : Net!HostId(d.name) \notin {Made(j), Peer(j)}
    BY Indices
  <2> QED BY <2>1, NewInterface DEF Net!Interface, IsInterface
<1>6. \A d, e \in Devices : Net!HostId(d.name) = Net!HostId(e.name) => d = e
  BY Inputs DEF Net!HostId, Net!NetifAssumption
<1>7. \A d \in Devices : Net!HostId(d.name) # <<"new", 0>>
  BY DEF Net!HostId
<1> HIDE DEF Lo, Dev
<1>8. Interfaces
  <2>1. ASSUME NEW x \in ifs, NEW y \in ifs, x.id = y.id PROVE x = y
    <3>1. CASE x = Lo /\ y = Lo
      BY <3>1
    <3>2. ASSUME NEW d \in Devices, x = Dev(d) PROVE y # Lo
      BY <1>4, <1>5, <1>7, <2>1, <3>2
    <3>3. ASSUME NEW d \in Devices, y = Dev(d) PROVE x # Lo
      BY <1>4, <1>5, <1>7, <2>1, <3>3
    <3>4. ASSUME NEW d \in Devices, x = Dev(d), NEW e \in Devices, y = Dev(e) PROVE x = y
      BY <1>5, <1>6, <2>1, <3>4
    <3> QED BY <1>3, <3>1, <3>2, <3>3, <3>4
  <2>2. \A x \in ifs : IsInterface(x) /\ \A j : x.id \notin {Made(j), Peer(j)}
    BY <1>3, <1>4, <1>5
  <2> QED BY <2>1, <2>2 DEF Interfaces
<1>9. History
  BY <1>1 DEF Net!Init, History, SettingUp
<1>10. Found /\ InNamespace
  BY <1>1 DEF Net!Init, Found, InNamespace
<1>11. Net!OnlyNamedMoved
  BY <1>1 DEF Net!Init, Net!OnlyNamedMoved
<1> QED BY <1>2, <1>8, <1>9, <1>10, <1>11 DEF NetInv

LEMMA SameInterfaces ==
    ASSUME NetInv, UNCHANGED <<newnet, args, ifs, made, moved>>,
           \A j \in DOMAIN args : moved[j] # Net!Zero => found'[j] = found[j],
           \/ pc = "parse"
           \/ /\ pc' # "parse" /\ k' = k /\ list' = list
              /\ pc' \in {"find", "create"} => pc \in {"find", "create"}
              /\ pc' \in {"locate", "move"} => pc \in SettingUp,
           pc' # "over"
    PROVE  Interfaces' /\ InNamespace' /\ Net!OnlyNamedMoved'
<1>1. Interfaces' /\ InNamespace'
  <2>1. UNCHANGED <<newnet, args, ifs, made, moved>>
    OBVIOUS
  <2>2. InNamespace'
    BY <2>1 DEF NetInv, InNamespace
  <2>3. CASE pc = "parse"
    <3>1. \A x \in ifs, j \in Nat : x.id \notin {Made(j), Peer(j)}
      BY <2>3 DEF NetInv, Interfaces
    <3> QED BY <2>1, <2>2, <3>1 DEF NetInv, Interfaces
  <2>4. CASE pc # "parse"
    <3>1. Interfaces'
      <4>1. \A x \in ifs, j \in Nat : x.id \in {Made(j), Peer(j)} =>
           /\ pc' # "parse"
           /\ pc' \in {"find", "create"} => j < k'
           /\ pc' \in {"locate", "move"} => j <= k'
        <5> SUFFICES ASSUME NEW x \in ifs, NEW j \in Nat, x.id \in {Made(j), Peer(j)}
                     PROVE  /\ pc' \in {"find", "create"} => j < k
                            /\ pc' \in {"locate", "move"} => j <= k
          BY <2>4
        <5>1. /\ pc \in {"find", "create"} => j < k
              /\ pc \in {"locate", "move"} => j <= k
          BY DEF NetInv, Interfaces
        <5>2. k \in Nat
          BY DEF NetInv, Typed
        <5> QED BY <2>4, <5>1, <5>2 DEF SettingUp
      <4> QED BY <2>1, <4>1 DEF NetInv, Interfaces
    <3> QED BY <2>2, <3>1
  <2> QED BY <2>3, <2>4
<1>2. CASE pc = "parse"
  <2>1. DOMAIN moved = DOMAIN args /\ \A j \in DOMAIN args : moved[j] = Net!Zero
    BY <1>2 DEF NetInv, Typed, History
  <2> QED BY <1>1, <2>1 DEF Net!OnlyNamedMoved
<1>3. CASE list' = list
  <2>1. DOMAIN moved = DOMAIN args
    BY DEF NetInv, Typed
  <2> QED BY <1>1, <1>3, <2>1 DEF NetInv, Net!OnlyNamedMoved, Net!IsMove, Net!Interfered
<1> QED BY <1>1, <1>2, <1>3

LEMMA FailKeeps == ASSUME NetInv, Net!Fail PROVE NetInv'
<1>1. /\ pc' = "failed" /\ UNCHANGED <<args, newnet, list, k, ifs, found, made, moved>>
  BY DEF Net!Fail, Net!parameters, Net!history
<1>2. Interfaces' /\ InNamespace' /\ Net!OnlyNamedMoved'
  BY <1>1, SameInterfaces DEF SettingUp
<1>3. Typed'
  <2>1. Len(list) <= Len(args) /\ Len(args) \in Nat /\ Len(list) \in Nat
    BY Inputs DEF NetInv, Typed, Net!NetifAssumption
  <2> QED BY <1>1, <2>1 DEF NetInv, Typed, SettingUp
<1>4. History'
  BY <1>1 DEF NetInv, History, SettingUp
<1>5. Found'
  BY <1>1 DEF Found
<1> QED BY <1>2, <1>3, <1>4, <1>5 DEF NetInv

LEMMA OptionsAreTyped ==
    ASSUME NetInv, pc = "parse", k <= Len(args), Net!Accepted(args[k])
    PROVE  Net!FromSpec(args[k]) \in OptionType
<1>1. args \in Seq(Seq(STRING)) /\ args \in Lists /\ k \in DOMAIN args
  BY Inputs DEF NetInv, Typed, Net!NetifAssumption
<1>2. args[k] \in Seq(STRING) /\ \A n \in DOMAIN args[k] : args[k][n] \in Word
  BY <1>1, Inputs DEF Word, Net!NetifAssumption
<1>3. CASE Net!if_nametoindex(args[k][1]) # Net!Zero
  <2>1. args[k][1] \in Word /\ args[k][2] \in Word
    BY <1>2, <1>3 DEF Net!Accepted
  <2> QED BY <1>3, <2>1 DEF Net!FromSpec, OptionType
<1>4. CASE Net!if_nametoindex(args[k][1]) = Net!Zero
  <2>1. args[k][1] \in Net!Makers /\ args[k][2] \in Word /\ args[k][3] \in Word
    BY <1>2, <1>4 DEF Net!Accepted
  <2> QED BY <1>4, <2>1 DEF Net!FromSpec, OptionType
<1> QED BY <1>3, <1>4

LEMMA AddFromSpecKeeps == ASSUME NetInv, Net!netif_add_from_spec PROVE NetInv'
<1>1. CASE Net!Fail
  BY <1>1, FailKeeps
<1>2. CASE Net!Added /\ (list' = list \/ (Net!Accepted(args[k])
                                          /\ list' = Append(list, Net!FromSpec(args[k]))))
  <2>1. /\ pc = "parse" /\ pc' = "parse" /\ k' = k + 1 /\ k <= Len(args)
        /\ UNCHANGED <<args, newnet, ifs, found, made, moved>>
    BY <1>2 DEF Net!netif_add_from_spec, Net!Added, Net!history
  <2>2. Interfaces' /\ InNamespace' /\ Net!OnlyNamedMoved'
    BY <2>1, SameInterfaces
  <2>3. Typed'
    <3>1. /\ list \in Seq(OptionType) /\ Len(list) \in Nat /\ Len(list) <= k - 1
          /\ k \in Nat \ {0} /\ Len(args) \in Nat
      BY <2>1, Inputs DEF NetInv, Typed, Net!NetifAssumption
    <3>2. list' \in Seq(OptionType) /\ Len(list') <= Len(list) + 1
      BY <1>2, <2>1, <3>1, OptionsAreTyped
    <3>3. Len(list') \in Nat
      BY <3>2
    <3> QED BY <2>1, <3>1, <3>2, <3>3 DEF NetInv, Typed, SettingUp
  <2>4. History'
    BY <2>1 DEF NetInv, History
  <2>5. Found'
    BY <2>1 DEF Found
  <2> QED BY <2>2, <2>3, <2>4, <2>5 DEF NetInv
<1> QED BY <1>1, <1>2 DEF Net!netif_add_from_spec

LEMMA OptionsReadKeeps == ASSUME NetInv, Net!OptionsRead PROVE NetInv'
<1>1. /\ pc = "parse" /\ pc' = "find" /\ k' = 1 /\ k > Len(args)
      /\ UNCHANGED <<args, newnet, list, ifs, found, made, moved>>
  BY DEF Net!OptionsRead, Net!parameters, Net!history
<1>2. Interfaces' /\ InNamespace' /\ Net!OnlyNamedMoved'
  BY <1>1, SameInterfaces
<1>3. Typed'
  <2>1. Len(list) <= Len(args) /\ Len(args) \in Nat /\ Len(list) \in Nat
    <3>1. /\ k \in Nat /\ k <= Len(args) + 1 /\ Len(list) <= k - 1
          /\ Len(args) \in Nat /\ Len(list) \in Nat
      BY <1>1, Inputs DEF NetInv, Typed, Net!NetifAssumption
    <3> QED BY <3>1
  <2> QED BY <1>1, <2>1 DEF NetInv, Typed, SettingUp
<1>4. History'
  BY <1>1 DEF NetInv, History, SettingUp
<1>5. Found'
  BY <1>1 DEF Found
<1> QED BY <1>2, <1>3, <1>4, <1>5 DEF NetInv

LEMMA FindDevKeeps == ASSUME NetInv, Net!FindDev PROVE NetInv'
<1>1. /\ pc = "find" /\ k <= Len(list)
      /\ pc' = (IF list[k].type = "move" THEN "move" ELSE "create")
      /\ UNCHANGED <<args, newnet, list, k, ifs, made, moved>>
  BY DEF Net!FindDev, Net!Goes, Net!parameters
<1>2. k \in DOMAIN args /\ DOMAIN args \subseteq Nat /\ DOMAIN found = DOMAIN args
  <2>1. /\ k \in Nat \ {0} /\ Len(list) <= Len(args) /\ Len(list) \in Nat
        /\ args \in Seq(Seq(STRING)) /\ DOMAIN found = DOMAIN args
    BY <1>1, Inputs DEF NetInv, Typed, Net!NetifAssumption
  <2> QED BY <1>1, <2>1
<1>3. /\ DOMAIN found' = DOMAIN args
      /\ \A j \in DOMAIN args : j # k => found'[j] = found[j]
      /\ list[k].type = "move" => if_index' = found'[k] /\ if_index' # Net!Zero
  <2>1. CASE list[k].type = "veth"
    BY <1>2, <2>1 DEF Net!FindDev
  <2>2. CASE list[k].type # "veth"
    BY <1>2, <2>2 DEF Net!FindDev
  <2> QED BY <2>1, <2>2
<1>4. \A j \in DOMAIN args : moved[j] # Net!Zero => found'[j] = found[j]
  <2>1. moved[k] = Net!Zero
    BY <1>1, <1>2 DEF NetInv, History, SettingUp
  <2> QED BY <1>3, <2>1
<1>5. Interfaces' /\ InNamespace' /\ Net!OnlyNamedMoved'
  BY <1>1, <1>4, SameInterfaces DEF SettingUp
<1>6. Typed'
  BY <1>1, <1>3 DEF NetInv, Typed, SettingUp
<1>7. History'
  BY <1>1 DEF NetInv, History, SettingUp
<1>8. Found'
  BY <1>1, <1>3 DEF Found
<1> QED BY <1>5, <1>6, <1>7, <1>8 DEF NetInv

LEMMA LocateKeeps == ASSUME NetInv, Net!Locate PROVE NetInv'
<1>1. /\ pc = "locate" /\ k <= Len(list) /\ pc' = "move"
      /\ if_index' = Net!if_nametoindex(Temp)
      /\ list[k].type = "veth" => if_index' # Net!Zero
      /\ UNCHANGED <<args, newnet, list, k, ifs, found, made, moved>>
  BY DEF Net!Locate, Net!Goes, Net!parameters, Net!history
<1>2. Interfaces' /\ InNamespace' /\ Net!OnlyNamedMoved'
  BY <1>1, SameInterfaces DEF SettingUp
<1>3. Typed'
  BY <1>1 DEF NetInv, Typed, SettingUp
<1>4. History'
  BY <1>1 DEF NetInv, History, SettingUp
<1>5. Found'
  <2>1. /\ list[k].type # "move"
        /\ made[k] = Made(k) /\ \A x \in ifs : x.id = Made(k) => x.ns = "host"
        /\ \A x \in ifs : x.ns = "host" /\ x.name = Temp => x.id = Made(k)
    BY <1>1 DEF NetInv, Found
  <2>2. CASE if_index' = Net!Zero /\ Net!Named("host", Temp) = {}
    <3>1. NoLonger(k)
      BY <2>1, <2>2 DEF NoLonger, Net!Named
    <3>2. NoLonger(k)'
      BY <1>1, <3>1 DEF NoLonger
    <3> QED BY <1>1, <2>1, <2>2, <3>2 DEF Found
  <2>3. CASE \E x \in ifs : x.ns = "host" /\ x.name = Temp /\ if_index' = x.id
    BY <1>1, <2>1, <2>3 DEF Found
  <2>4. \/ if_index' = Net!Zero /\ Net!Named("host", Temp) = {}
        \/ \E x \in ifs : x.ns = "host" /\ x.name = Temp /\ if_index' = x.id
    BY <1>1, Lookup
  <2> QED BY <2>2, <2>3, <2>4
<1> QED BY <1>2, <1>3, <1>4, <1>5 DEF NetInv

LEMMA AllSetUpKeeps == ASSUME NetInv, Net!AllSetUp PROVE NetInv'
<1>1. /\ pc = "find" /\ pc' \in {"config", "running"}
      /\ UNCHANGED <<args, newnet, list, k, ifs, found, made, moved>>
  BY DEF Net!AllSetUp, Net!parameters, Net!history
<1>2. Interfaces' /\ InNamespace' /\ Net!OnlyNamedMoved'
  BY <1>1, SameInterfaces DEF SettingUp
<1>3. Typed'
  BY <1>1 DEF NetInv, Typed, SettingUp
<1>4. History'
  BY <1>1 DEF NetInv, History, SettingUp
<1>5. Found'
  BY <1>1 DEF Found
<1> QED BY <1>2, <1>3, <1>4, <1>5 DEF NetInv

-----------------------------------------------------------------------------
(* Steps that change interfaces.                                           *)

\* What x has become of y: the same interface, which cannot have got the name Temp,
\* and does not go back to the host.
Succeeds(x, y) == x.id = y.id /\ (x.name = Temp => y.name = Temp) /\ (y.ns = "new" => x.ns = "new")

LEMMA SetNs ==
    ASSUME NEW id, NEW ns, NEW name, NEW kind, NEW of, NEW up, NEW new
    PROVE  [Net!Interface(id, ns, name, kind, of, up) EXCEPT !.ns = new]
               = Net!Interface(id, new, name, kind, of, up)
BY DEF Net!Interface

LEMMA SetName ==
    ASSUME NEW id, NEW ns, NEW name, NEW kind, NEW of, NEW up, NEW new
    PROVE  [Net!Interface(id, ns, name, kind, of, up) EXCEPT !.name = new]
               = Net!Interface(id, ns, new, kind, of, up)
BY DEF Net!Interface

LEMMA SetUp ==
    ASSUME NEW id, NEW ns, NEW name, NEW kind, NEW of, NEW up, NEW new
    PROVE  [Net!Interface(id, ns, name, kind, of, up) EXCEPT !.up = new]
               = Net!Interface(id, ns, name, kind, of, new)
BY DEF Net!Interface

Alter(y, ns, name, up) == [y EXCEPT !.ns = ns, !.name = name, !.up = up]

LEMMA Altered ==
    ASSUME NEW y, IsInterface(y), NEW ns \in {"host", "new"}, NEW name, NEW up,
           NEW x, x = Alter(y, ns, name, up)
    PROVE  /\ IsInterface(x)
           /\ x.id = y.id /\ x.ns = ns /\ x.name = name /\ x.kind = y.kind
<1> DEFINE a == [y EXCEPT !.ns = ns]
           b == [a EXCEPT !.name = name]
           c == [b EXCEPT !.up = up]
<1>1. c = x
  BY DEF Alter
<1>2. a = Net!Interface(y.id, ns, y.name, y.kind, y.of, y.up)
  <2>1. y = Net!Interface(y.id, y.ns, y.name, y.kind, y.of, y.up)
    BY DEF IsInterface
  <2> QED BY <2>1, SetNs
<1> HIDE DEF a
<1>3. b = Net!Interface(y.id, ns, name, y.kind, y.of, y.up)
  BY ONLY <1>2, SetName
<1> HIDE DEF b
<1>4. c = Net!Interface(y.id, ns, name, y.kind, y.of, up)
  BY ONLY <1>3, SetUp
<1> HIDE DEF c
<1>5. y.id # Net!Zero /\ \A j : y.id \in {Made(j), Peer(j)} => y.kind \in Net!Makers
  BY DEF IsInterface
<1>6. IsInterface(c) /\ c.id = y.id /\ c.ns = ns /\ c.name = name /\ c.kind = y.kind
  <2>1. c.id = y.id /\ c.ns = ns /\ c.name = name /\ c.kind = y.kind /\ c.of = y.of /\ c.up = up
    BY ONLY <1>4 DEF Net!Interface
  <2> QED BY <1>4, <1>5, <2>1 DEF IsInterface
<1> QED BY <1>1, <1>6

\* The places of what was made have not changed.
LEMMA Successors ==
    ASSUME NetInv, UNCHANGED <<args, newnet, list, made>>,
           \A x \in ifs' : IsInterface(x),
           \A x, y \in ifs' : x.id = y.id => x = y,
           \A x \in ifs', j \in Nat : x.id \in {Made(j), Peer(j)} =>
               \E y \in ifs : Succeeds(x, y),
           \/ pc' = pc /\ k' = k
           \/ pc = "move" /\ pc' = "find" /\ k' = k + 1
           \/ pc # "parse" /\ pc' \in {"running", "failed"}
    PROVE  Interfaces' /\ \A j \in Nat : made[j] = Made(j) /\ NoLonger(j) => NoLonger(j)'
<1>1. ASSUME NEW x \in ifs', NEW j \in Nat, x.id \in {Made(j), Peer(j)}
      PROVE  /\ pc' # "parse"
             /\ pc' \in {"find", "create"} => j < k'
             /\ pc' \in {"locate", "move"} => j <= k'
  <2>1. PICK y \in ifs : Succeeds(x, y)
    BY <1>1
  <2>2. /\ pc # "parse" /\ k \in Nat
        /\ pc \in {"find", "create"} => j < k
        /\ pc \in {"locate", "move"} => j <= k
    BY <1>1, <2>1 DEF NetInv, Typed, Interfaces, Succeeds
  <2> QED BY <2>2
<1>2. Interfaces'
  BY <1>1 DEF Interfaces
<1>3. ASSUME NEW j \in Nat, made[j] = Made(j), NoLonger(j) PROVE NoLonger(j)'
  BY <1>3 DEF NoLonger, Succeeds
<1> QED BY <1>2, <1>3

\* What a program has done to the interface of an option stays done.
LEMMA StillInterfered ==
    ASSUME NetInv, UNCHANGED <<args, list, made>>, Interfaces',
           \A j \in Nat : made[j] = Made(j) /\ NoLonger(j) => NoLonger(j)',
           NEW j \in DOMAIN args, Net!Interfered(j)
    PROVE  Net!Interfered(j)'
<1>1. j \in Nat /\ made[j] \in {Net!Zero, Made(j)}
  BY Inputs DEF NetInv, Typed, History, Net!NetifAssumption
<1>2. CASE made[j] = Net!Zero
  BY <1>2 DEF Interfaces, IsInterface, Net!Interfered
<1>3. CASE made[j] = Made(j)
  BY <1>1, <1>3 DEF NoLonger, Net!Interfered
<1> QED BY <1>1, <1>2, <1>3

LEMMA InNamespaceKeeps ==
    ASSUME NetInv, UNCHANGED <<args, newnet, made, moved>>, pc' # "over",
           \A x \in ifs', j \in Nat : x.id \in {Made(j), Peer(j)} =>
               \E y \in ifs : Succeeds(x, y)
    PROVE  InNamespace'
<1> SUFFICES ASSUME newnet, NEW j \in DOMAIN args, moved[j] = made[j], moved[j] # Net!Zero,
                    NEW x \in ifs', x.id = made[j]
             PROVE  x.ns = "new"
  BY DEF InNamespace
<1>1. j \in Nat /\ made[j] = Made(j)
  BY Inputs DEF NetInv, Typed, History, Net!NetifAssumption
<1>2. PICK y \in ifs : Succeeds(x, y)
  BY <1>1
<1> QED BY <1>2 DEF NetInv, InNamespace, Succeeds

LEMMA OthersKeep ==
    ASSUME NetInv, UNCHANGED <<args, newnet, list, pc, k, if_index, found, made, moved>>,
           pc # "over",
           \A x \in ifs' : IsInterface(x),
           \A x, y \in ifs' : x.id = y.id => x = y,
           \A x \in ifs' : \E y \in ifs : Succeeds(x, y) /\ x.ns = y.ns
    PROVE  NetInv'
<1>1. Interfaces' /\ \A j \in Nat : made[j] = Made(j) /\ NoLonger(j) => NoLonger(j)'
  BY Successors
<1>2. InNamespace'
  BY InNamespaceKeeps
<1>3. Net!OnlyNamedMoved'
  <2>1. \A j \in DOMAIN args : Net!Interfered(j) => Net!Interfered(j)'
    BY <1>1, StillInterfered
  <2> QED BY <2>1 DEF NetInv, Typed, Net!OnlyNamedMoved, Net!IsMove
<1>4. Typed'
  BY DEF NetInv, Typed
<1>5. History'
  BY DEF NetInv, History
<1>6. Found'
  <2>1. k \in Nat
    BY DEF NetInv, Typed
  <2>2. pc = "move" /\ list[k].type # "move" /\ NoLonger(k) => NoLonger(k)'
    BY <1>1, <2>1 DEF NetInv, Found
  <2>3. ASSUME NEW x \in ifs'
        PROVE  \E y \in ifs : x.id = y.id /\ x.ns = y.ns /\ (x.name = Temp => y.name = Temp)
    BY DEF Succeeds
  <2> QED BY <2>2, <2>3 DEF NetInv, Found
<1> QED BY <1>1, <1>2, <1>3, <1>4, <1>5, <1>6 DEF NetInv

LEMMA OthersRenameKeep == ASSUME NetInv, Net!OthersRename PROVE NetInv'
<1>1. PICK i_ \in ifs, n \in OtherNames :
          i_.ns = "host" /\ Net!Meddle((ifs \ {i_}) \cup {[i_ EXCEPT !.name = n]})
  BY DEF Net!OthersRename
<1> DEFINE new == [i_ EXCEPT !.name = n]
<1>2. /\ UNCHANGED <<args, newnet, list, pc, k, if_index, found, made, moved>> /\ pc # "over"
      /\ ifs' = (ifs \ {i_}) \cup {new}
  BY <1>1 DEF Net!Meddle, Net!parameters, Net!history
<1>3. IsInterface(i_)
  BY DEF NetInv, Interfaces
<1>4. IsInterface(new) /\ new.id = i_.id /\ new.ns = i_.ns /\ new.name = n
  <2>1. i_ = [id |-> i_.id, ns |-> i_.ns, name |-> i_.name, kind |-> i_.kind, of |-> i_.of,
             up |-> i_.up]
    BY <1>3 DEF IsInterface, Net!Interface
  <2> QED BY <1>3, <2>1 DEF IsInterface, Net!Interface
<1>5. n # Temp
  BY Inputs DEF Net!NetifAssumption
<1> HIDE DEF new
<1>6. \A x, y \in ifs : x.id = y.id => x = y
  BY DEF NetInv, Interfaces
<1>7. \A x \in ifs' : IsInterface(x)
  BY <1>2, <1>4 DEF NetInv, Interfaces
<1>8. \A x, y \in ifs' : x.id = y.id => x = y
  BY <1>2, <1>4, <1>6
<1>9. \A x \in ifs' : \E y \in ifs : Succeeds(x, y) /\ x.ns = y.ns
  BY <1>2, <1>4, <1>5 DEF Succeeds
<1> QED BY <1>2, <1>7, <1>8, <1>9, OthersKeep

LEMMA OthersRemoveKeep == ASSUME NetInv, Net!OthersRemove PROVE NetInv'
<1>1. /\ UNCHANGED <<args, newnet, list, pc, k, if_index, found, made, moved>> /\ pc # "over"
      /\ ifs' \subseteq ifs
  BY DEF Net!OthersRemove, Net!Meddle, Net!parameters, Net!history
<1>2. \A x \in ifs' : \E y \in ifs : Succeeds(x, y) /\ x.ns = y.ns
  BY <1>1 DEF Succeeds
<1>3. (\A x \in ifs' : IsInterface(x)) /\ \A x, y \in ifs' : x.id = y.id => x = y
  BY <1>1 DEF NetInv, Interfaces
<1> QED BY <1>1, <1>2, <1>3, OthersKeep

LEMMA ConfigKeeps == ASSUME NetInv, Net!config_netif PROVE NetInv'
<1> DEFINE Up(x) == IF x.id = <<"new", 0>> THEN [x EXCEPT !.up = TRUE] ELSE x
<1>1. /\ pc = "config" /\ pc' = "running"
      /\ UNCHANGED <<args, newnet, list, k, if_index, found, made, moved>>
      /\ ifs' = {Up(x) : x \in ifs}
  BY DEF Net!config_netif, Net!parameters, Net!history
<1>2. ASSUME NEW x \in ifs
      PROVE  IsInterface(Up(x)) /\ Up(x).id = x.id /\ Up(x).ns = x.ns /\ Up(x).name = x.name
  <2>1. IsInterface(x)
    BY DEF NetInv, Interfaces
  <2>2. x = [id |-> x.id, ns |-> x.ns, name |-> x.name, kind |-> x.kind, of |-> x.of, up |-> x.up]
    BY <2>1 DEF IsInterface, Net!Interface
  <2>3. CASE x.id = <<"new", 0>>
    <3>1. Up(x) = Net!Interface(x.id, x.ns, x.name, x.kind, x.of, TRUE)
      BY <2>2, <2>3 DEF Net!Interface
    <3>2. /\ x.id # Net!Zero /\ x.ns \in {"host", "new"}
          /\ \A j : x.id \in {Made(j), Peer(j)} => x.kind \in Net!Makers
      BY <2>1 DEF IsInterface
    <3> HIDE DEF Up
    <3>3. /\ Up(x).id = x.id /\ Up(x).ns = x.ns /\ Up(x).name = x.name /\ Up(x).kind = x.kind
          /\ Up(x).of = x.of /\ Up(x).up = TRUE
      BY ONLY <3>1 DEF Net!Interface
    <3>4. Up(x) = Net!Interface(Up(x).id, Up(x).ns, Up(x).name, Up(x).kind, Up(x).of, Up(x).up)
      BY ONLY <3>1, <3>3, Zenon
    <3> QED BY <3>2, <3>3, <3>4 DEF IsInterface
  <2>4. CASE x.id # <<"new", 0>>
    <3>1. Up(x) = x
      BY <2>4
    <3> QED BY <2>1, <3>1
  <2> QED BY <2>3, <2>4
<1> HIDE DEF Up
<1>3. \A x \in ifs' : \E y \in ifs : Succeeds(x, y)
  BY <1>1, <1>2 DEF Succeeds
<1>4. \A x \in ifs' : IsInterface(x)
  BY <1>1, <1>2
<1>5. \A x, y \in ifs' : x.id = y.id => x = y
  BY <1>1, <1>2 DEF NetInv, Interfaces
<1>6. Interfaces' /\ \A j \in Nat : made[j] = Made(j) /\ NoLonger(j) => NoLonger(j)'
  BY <1>1, <1>3, <1>4, <1>5, Successors
<1>7. InNamespace'
  BY <1>1, <1>3, InNamespaceKeeps
<1>8. Net!OnlyNamedMoved'
  <2>1. \A j \in DOMAIN args : Net!Interfered(j) => Net!Interfered(j)'
    BY <1>1, <1>6, StillInterfered
  <2> QED BY <1>1, <2>1 DEF NetInv, Typed, Net!OnlyNamedMoved, Net!IsMove
<1>9. Typed' /\ History' /\ Found'
  BY <1>1 DEF NetInv, Typed, History, Found, SettingUp
<1> QED BY <1>6, <1>7, <1>8, <1>9 DEF NetInv

\* The new interfaces of an option.
MadeNow(added) ==
    /\ \A x \in added : /\ IsInterface(x) /\ x.ns = "host" /\ x.id \in {Made(k), Peer(k)}
                        /\ x.id = Peer(k) => x.name # Temp
    /\ \A x, y \in added : x.id = y.id => x = y

LEMMA CreateKeeps ==
    ASSUME NetInv, pc = "create", k <= Len(list), pc' = "locate", list[k].type # "move",
           UNCHANGED <<args, newnet, list, k, found, moved>>,
           made' = [made EXCEPT ![k] = Made(k)], Net!Named("host", Temp) = {},
           NEW added, ifs' = ifs \cup added, MadeNow(added)
    PROVE  NetInv'
<1> USE DEF MadeNow
<1>1. /\ k \in Nat /\ k \in DOMAIN args /\ k \in DOMAIN made
      /\ DOMAIN args \subseteq Nat /\ DOMAIN moved = DOMAIN args
  <2>1. /\ k \in Nat \ {0} /\ Len(list) <= Len(args) /\ Len(list) \in Nat
        /\ args \in Seq(Seq(STRING))
        /\ DOMAIN made = DOMAIN args /\ DOMAIN moved = DOMAIN args
    BY Inputs DEF NetInv, Typed, Net!NetifAssumption
  <2> QED BY <2>1
<1>2. \A x \in ifs, j \in Nat : x.id \in {Made(j), Peer(j)} => j < k
  BY DEF NetInv, Interfaces
<1>3. \A x \in ifs : x.id \notin {Made(k), Peer(k)}
  BY <1>1, <1>2
<1>4. Interfaces'
  <2>1. \A x, y \in ifs' : x.id = y.id => x = y
    BY <1>3 DEF NetInv, Interfaces
  <2>2. \A x \in ifs' : IsInterface(x)
    BY DEF NetInv, Interfaces
  <2>3. \A x \in ifs', j \in Nat : x.id \in {Made(j), Peer(j)} => j <= k
    BY <1>1, <1>2, Indices
  <2> QED BY <2>1, <2>2, <2>3 DEF Interfaces
<1>5. ASSUME NEW j \in DOMAIN args, moved[j] # Net!Zero
      PROVE  /\ j # k /\ made'[j] = made[j]
             /\ \A x \in ifs' : x.id = made[j] => x \in ifs
  <2>1. j < k /\ j \in Nat
    BY <1>1, <1>5 DEF NetInv, History, SettingUp
  <2>2. made'[j] = made[j]
    BY <1>1, <2>1
  <2>3. made[j] \notin {Made(k), Peer(k)}
    BY <1>1, <2>1, Indices DEF NetInv, History
  <2> QED BY <1>1, <2>1, <2>2, <2>3
<1>6. Net!OnlyNamedMoved'
  <2> SUFFICES ASSUME NEW j \in DOMAIN args, moved[j] # Net!Zero
               PROVE  Right(j)'
    BY <1>1 DEF Net!OnlyNamedMoved, Right
  <2>1. Right(j)
    BY <1>1 DEF NetInv, Net!OnlyNamedMoved, Right
  <2> QED BY <1>5, <2>1 DEF Net!IsMove, Net!Interfered, Right
<1>7. InNamespace'
  <2> SUFFICES ASSUME newnet, NEW j \in DOMAIN args, moved[j] = made'[j], moved[j] # Net!Zero,
                      NEW x \in ifs', x.id = made'[j]
               PROVE  x.ns = "new"
    BY DEF InNamespace
  <2> QED BY <1>5 DEF NetInv, InNamespace
<1>8. Typed'
  BY <1>1 DEF NetInv, Typed, SettingUp
<1>9. History'
  <2> SUFFICES ASSUME NEW j \in DOMAIN args
               PROVE  /\ made'[j] \in {Net!Zero, Made(j)}
                      /\ j > k => made'[j] = Net!Zero
                      /\ j >= k => moved[j] = Net!Zero
                      /\ j < k /\ made'[j] # Net!Zero => moved[j] # Net!Zero
                      /\ made'[j] # Net!Zero => j <= Len(list) /\ list[j].type # "move"
    BY DEF History
  <2>1. CASE j = k
    BY <1>1, <2>1 DEF NetInv, History, SettingUp
  <2>2. CASE j # k
    <3>1. made'[j] = made[j]
      BY <1>1, <2>2
    <3> QED BY <1>1, <3>1 DEF NetInv, History, SettingUp
  <2> QED BY <2>1, <2>2
<1>10. Found'
  <2>1. made'[k] = Made(k)
    BY <1>1
  <2>2. \A x \in ifs' : x.id = Made(k) => x.ns = "host"
    BY <1>3
  <2>3. \A x \in ifs' : x.ns = "host" /\ x.name = Temp => x.id = Made(k)
    BY DEF Net!Named
  <2> QED BY <2>1, <2>2, <2>3 DEF Found
<1> QED BY <1>4, <1>6, <1>7, <1>8, <1>9, <1>10 DEF NetInv

LEMMA NotHeld ==
    \A j : /\ Made(j) # Net!Zero /\ Peer(j) # Net!Zero /\ Made(j) # Peer(j)
BY Indices

LEMMA NewOfOption ==
    ASSUME NEW id, NEW j, id \in {Made(j), Peer(j)}, NEW name, NEW kind \in Net!Makers,
           NEW of, NEW up
    PROVE  LET x == Net!Interface(id, "host", name, kind, of, up) IN
           IsInterface(x) /\ x.id = id /\ x.ns = "host" /\ x.name = name
<1> DEFINE x == Net!Interface(id, "host", name, kind, of, up)
<1>1. x = Net!Interface(id, "host", name, kind, of, up)
  OBVIOUS
<1> HIDE DEF x
<1>2. id # Net!Zero /\ "host" \in {"host", "new"}
  BY NotHeld
<1>3. /\ x.id = id /\ x.ns = "host" /\ x.name = name /\ x.kind = kind /\ x.of = of /\ x.up = up
  BY <1>1 DEF Net!Interface
<1>4. IsInterface(x)
  BY <1>1, <1>2, <1>3 DEF IsInterface
<1> QED BY <1>3, <1>4 DEF x

LEMMA CreateOnMasterKeeps == ASSUME NetInv, Net!CreateOnMaster PROVE NetInv'
<1>1. PICK up \in BOOLEAN :
          ifs' = ifs \cup {Net!Interface(<<"made", k>>, "host", Temp, list[k].type, found[k], up)}
  BY DEF Net!CreateOnMaster
<1> DEFINE x == Net!Interface(Made(k), "host", Temp, list[k].type, found[k], up)
<1>2. IsInterface(x) /\ x.id = Made(k) /\ x.ns = "host"
  <2>1. list[k].type \in Net!Makers
    BY DEF Net!CreateOnMaster, Net!Makers
  <2> QED BY <2>1, NewOfOption
<1> HIDE DEF x
<1>3. ifs' = ifs \cup {x}
  BY <1>1 DEF x, Made
<1>4. /\ pc = "create" /\ k <= Len(list) /\ pc' = "locate" /\ list[k].type # "move"
      /\ UNCHANGED <<args, newnet, list, k, found, moved>>
      /\ made' = [made EXCEPT ![k] = Made(k)] /\ Net!Named("host", Temp) = {}
  BY DEF Net!CreateOnMaster, Net!Goes, Net!parameters, Made
<1>5. MadeNow({x})
  BY <1>2, NotHeld DEF MadeNow
<1> QED BY <1>3, <1>4, <1>5, CreateKeeps

LEMMA CreatePairKeeps == ASSUME NetInv, Net!CreatePair PROVE NetInv'
<1>1. PICK up \in BOOLEAN :
          ifs' = ifs \cup {Net!Interface(<<"made", k>>, "host", Temp, "veth", <<"peer", k>>, FALSE),
                           Net!Interface(<<"peer", k>>, "host", list[k].dev, "veth", <<"made", k>>, up)}
  BY DEF Net!CreatePair
<1> DEFINE x == Net!Interface(Made(k), "host", Temp, "veth", Peer(k), FALSE)
           y == Net!Interface(Peer(k), "host", list[k].dev, "veth", Made(k), up)
<1>2. IsInterface(x) /\ x.id = Made(k) /\ x.ns = "host"
  <2>1. "veth" \in Net!Makers
    BY DEF Net!Makers
  <2>2. \A up_ : LET z == Net!Interface(Made(k), "host", Temp, "veth", Peer(k), up_) IN
                  IsInterface(z) /\ z.id = Made(k) /\ z.ns = "host"
    BY <2>1, NewOfOption
  <2> QED BY ONLY <2>2, Zenon
<1>3. IsInterface(y) /\ y.id = Peer(k) /\ y.ns = "host" /\ y.name = list[k].dev
  <2>1. "veth" \in Net!Makers
    BY DEF Net!Makers
  <2> QED BY <2>1, NewOfOption
<1> HIDE DEF x, y
<1>4. ifs' = ifs \cup {x, y}
  BY <1>1 DEF x, y, Made, Peer
<1>5. /\ pc = "create" /\ k <= Len(list) /\ pc' = "locate" /\ list[k].type # "move"
      /\ UNCHANGED <<args, newnet, list, k, found, moved>>
      /\ made' = [made EXCEPT ![k] = Made(k)] /\ Net!Named("host", Temp) = {}
  BY DEF Net!CreatePair, Net!Goes, Net!parameters, Made
<1>6. list[k].dev # Temp
  <2>1. list \in Seq(OptionType) /\ k \in 1 .. Len(list)
    BY <1>5 DEF NetInv, Typed
  <2>2. list[k] \in OptionType
    BY <2>1
  <2> QED BY <2>2 DEF OptionType, Word
<1> DEFINE added == {x, y}
<1>7. ifs' = ifs \cup added /\ MadeNow(added)
  BY <1>2, <1>3, <1>4, <1>6, NotHeld DEF MadeNow
<1> HIDE DEF added
<1> QED BY ONLY NetInv, <1>5, <1>7, CreateKeeps

\* The interface that is to be moved.
LEMMA SubjectIs ==
    ASSUME NetInv, Net!Movable
    PROVE  LET y == Net!If(Net!Subject) IN
           /\ y \in ifs /\ y.id = Net!Subject /\ y.ns = "host"
           /\ \A z \in ifs : z.id = Net!Subject => z = y
<1> DEFINE y == Net!If(Net!Subject)
<1>1. Net!OnHost(Net!Subject) /\ Interfaces
  BY DEF Net!Movable, NetInv
<1>2. Net!Exists(Net!Subject)
  BY <1>1 DEF Net!OnHost, Net!Exists
<1>3. y \in ifs /\ y.id = Net!Subject /\ \A z \in ifs : z.id = Net!Subject => z = y
  BY <1>1, <1>2, ById
<1>4. PICK z \in ifs : z.id = Net!Subject /\ z.ns = "host"
  BY <1>1 DEF Net!OnHost
<1> HIDE DEF y
<1> QED BY <1>3, <1>4 DEF y

LEMMA PlacedSuccessors ==
    ASSUME NetInv, Net!Movable, NEW name, NEW up, ifs' = Net!Placed(name, up),
           name = Temp => Net!If(Net!Subject).name = Temp
    PROVE  /\ \A x \in ifs' : IsInterface(x)
           /\ \A x, y \in ifs' : x.id = y.id => x = y
           /\ \A x \in ifs' : \E y \in ifs : Succeeds(x, y)
           /\ \A x \in ifs' : x.id = Net!Subject => x.ns = Net!Target
<1> DEFINE y == Net!If(Net!Subject)
           x == Alter(y, Net!Target, name, up)
<1>1. y \in ifs /\ y.id = Net!Subject /\ y.ns = "host" /\ \A z \in ifs : z.id = Net!Subject => z = y
  BY SubjectIs
<1> HIDE DEF y
<1>2. IsInterface(x) /\ x.id = y.id /\ x.ns = Net!Target /\ x.name = name
  <2>1. Net!Target \in {"host", "new"}
    BY DEF Net!Target
  <2>2. IsInterface(y)
    BY <1>1 DEF NetInv, Interfaces
  <2>3. x = Alter(y, Net!Target, name, up)
    OBVIOUS
  <2> HIDE DEF x
  <2> QED BY ONLY <2>1, <2>2, <2>3, Altered
<1>3. ifs' = (ifs \ {y}) \cup {x}
  BY DEF Net!Placed, Alter, y
<1> HIDE DEF x
<1>4. \A z \in ifs' : IsInterface(z)
  BY <1>2, <1>3 DEF NetInv, Interfaces
<1>5. \A z, w \in ifs' : z.id = w.id => z = w
  BY <1>1, <1>2, <1>3 DEF NetInv, Interfaces
<1>6. Succeeds(x, y)
  BY <1>1, <1>2 DEF Succeeds, y
<1>7. \A z \in ifs' : \E w \in ifs : Succeeds(z, w)
  <2>1. \A z \in ifs : Succeeds(z, z)
    BY DEF Succeeds
  <2> QED BY <1>1, <1>3, <1>6, <2>1
<1>8. \A z \in ifs' : z.id = Net!Subject => z.ns = Net!Target
  BY <1>1, <1>2, <1>3
<1> QED BY <1>4, <1>5, <1>7, <1>8

\* What move_and_rename_if() does, whether or not it fails in the end.
Moves(name, up) ==
    /\ pc = "move" /\ Net!Movable
    /\ ifs' = Net!Placed(name, up)
    /\ name = Temp => Net!If(Net!Subject).name = Temp
    /\ moved' = [moved EXCEPT ![k] = Net!Subject]
    /\ UNCHANGED <<args, newnet, list, found, made>>
    /\ \/ pc' = "find" /\ k' = k + 1
       \/ pc' = "failed" /\ k' = k

LEMMA MovingKeeps == ASSUME NetInv, NEW name, NEW up, Moves(name, up) PROVE NetInv'
<1> USE DEF Moves
<1>1. /\ k \in Nat \ {0} /\ k \in DOMAIN args /\ DOMAIN made = DOMAIN args
      /\ DOMAIN args \subseteq Nat /\ DOMAIN moved = DOMAIN args
      /\ k <= Len(list) /\ Len(list) \in Nat /\ Len(list) <= Len(args)
  <2>1. /\ k \in Nat \ {0} /\ k <= Len(list) /\ Len(list) <= Len(args) /\ Len(list) \in Nat
        /\ args \in Seq(Seq(STRING)) /\ DOMAIN made = DOMAIN args /\ DOMAIN moved = DOMAIN args
    BY Inputs DEF NetInv, Typed, Net!NetifAssumption, SettingUp
  <2> QED BY <2>1
<1>2. /\ \A x \in ifs' : IsInterface(x)
      /\ \A x, y \in ifs' : x.id = y.id => x = y
      /\ \A x \in ifs' : \E y \in ifs : Succeeds(x, y)
      /\ \A x \in ifs' : x.id = Net!Subject => x.ns = Net!Target
  BY PlacedSuccessors
<1>3. Interfaces' /\ \A j \in Nat : made[j] = Made(j) /\ NoLonger(j) => NoLonger(j)'
  <2>1. \/ pc = "move" /\ pc' = "find" /\ k' = k + 1
        \/ pc # "parse" /\ pc' \in {"running", "failed"}
    OBVIOUS
  <2> QED BY <1>2, <2>1, Successors
<1>4. moved'[k] = Net!Subject /\ \A j \in DOMAIN args : j # k => moved'[j] = moved[j]
  BY <1>1
<1>5. \A j \in DOMAIN args : Net!Interfered(j) => Net!Interfered(j)'
  BY <1>3, StillInterfered
<1>6. Net!OnlyNamedMoved'
  <2>1. ASSUME NEW j \in DOMAIN args, j # k, moved[j] # Net!Zero
        PROVE  Right(j)'
    <3>1. Right(j)
      BY <1>1, <2>1 DEF NetInv, Net!OnlyNamedMoved, Right
    <3> QED BY <1>4, <1>5, <2>1, <3>1 DEF Net!IsMove, Right
  <2>2. ASSUME NEW j \in DOMAIN args, j = k
        PROVE  Right(j)'
    <3>1. CASE list[j].type = "move"
      <4>1. Net!Subject = found[k]
        BY <2>2, <3>1 DEF NetInv, Found, Net!Subject
      <4> QED BY <1>4, <2>2, <3>1, <4>1 DEF Net!IsMove, Right
    <3>2. CASE list[j].type # "move" /\ if_index = Made(j)
      <4>1. made[j] = Made(j)
        BY <2>2, <3>2 DEF NetInv, Found
      <4>2. Net!Subject = Made(j)
        BY <3>2, Indices DEF Net!Subject
      <4> QED BY <1>4, <2>2, <3>2, <4>1, <4>2 DEF Net!IsMove, Right
    <3>3. CASE list[j].type \notin {"move", "veth"} /\ NoLonger(j)
      <4>1. Net!Interfered(j)
        BY <3>3 DEF Net!Interfered, NoLonger
      <4> QED BY <1>5, <3>3, <4>1 DEF Net!IsMove, Right
    <3> QED BY <2>2, <3>1, <3>2, <3>3 DEF NetInv, Found
  <2> QED BY <1>1, <1>4, <2>1, <2>2 DEF Net!OnlyNamedMoved, Right
<1>7. InNamespace'
  <2> SUFFICES ASSUME newnet, NEW j \in DOMAIN args, moved'[j] = made[j], moved'[j] # Net!Zero,
                      NEW x \in ifs', x.id = made[j]
               PROVE  x.ns = "new"
    BY DEF InNamespace
  <2>1. CASE j = k
    BY <1>2, <1>4, <2>1 DEF Net!Target
  <2>2. CASE j # k
    <3>1. PICK y \in ifs : Succeeds(x, y)
      BY <1>2
    <3>2. moved[j] = made[j] /\ moved[j] # Net!Zero
      BY <1>4, <2>2
    <3> QED BY <3>1, <3>2 DEF NetInv, InNamespace, Succeeds
  <2> QED BY <2>1, <2>2
<1>8. Typed'
  BY <1>1 DEF NetInv, Typed, SettingUp
<1>9. History'
  <2> SUFFICES ASSUME NEW j \in DOMAIN args
               PROVE  /\ made[j] \in {Net!Zero, Made(j)}
                      /\ j > k' => made[j] = Net!Zero
                      /\ pc' = "find" /\ j >= k' => moved'[j] = Net!Zero
                      /\ j < k' /\ made[j] # Net!Zero => moved'[j] # Net!Zero
                      /\ made[j] # Net!Zero => j <= Len(list) /\ list[j].type # "move"
    BY DEF History, SettingUp
  <2>1. j \in Nat
    BY <1>1
  <2>2. Net!Subject # Net!Zero
    BY DEF Net!Movable
  <2> QED BY <1>1, <1>4, <2>1, <2>2 DEF NetInv, History, SettingUp
<1>10. Found'
  BY DEF Found
<1> QED BY <1>3, <1>6, <1>7, <1>8, <1>9, <1>10 DEF NetInv

\* No option asks for the name that only pflask gives.
LEMMA AskedName == ASSUME NetInv, pc = "move" PROVE list[k].name # Temp
<1>1. list \in Seq(OptionType) /\ k \in 1 .. Len(list)
  BY DEF NetInv, Typed, SettingUp
<1>2. list[k] \in OptionType
  BY <1>1
<1> QED BY <1>2 DEF OptionType, Word

LEMMA MoveKeeps == ASSUME NetInv, Net!move_and_rename_if PROVE NetInv'
<1>1. PICK up \in BOOLEAN : ifs' = Net!Placed(list[k].name, up)
  BY DEF Net!move_and_rename_if
<1>2. list[k].name # Temp
  BY AskedName DEF Net!move_and_rename_if
<1>3. /\ pc = "move" /\ Net!Movable /\ pc' = "find" /\ k' = k + 1
      /\ moved' = [moved EXCEPT ![k] = Net!Subject]
      /\ UNCHANGED <<args, newnet, list, found, made>>
  BY DEF Net!move_and_rename_if, Net!parameters
<1>4. Moves(list[k].name, up)
  BY <1>1, <1>2, <1>3 DEF Moves
<1> QED BY <1>4, MovingKeeps

LEMMA MoveThenFailKeeps == ASSUME NetInv, Net!MoveThenFail PROVE NetInv'
<1> DEFINE name == IF Net!CanRename THEN list[k].name ELSE Net!If(Net!Subject).name
           up   == FALSE
<1>1. Moves(name, up)
  BY AskedName DEF Moves, Net!MoveThenFail, Net!parameters
<1> HIDE DEF name, up
<1> QED BY <1>1, MovingKeeps

-----------------------------------------------------------------------------
(* The end of the namespace.                                               *)

LEMMA EndKeeps == ASSUME NetInv, Net!NamespaceEnds PROVE NetInv'
<1> DEFINE Left(x) == IF x.ns = "new" THEN Net!Back(x) ELSE x
<1>1. /\ pc \in {"running", "failed"} /\ pc' = "over"
      /\ UNCHANGED <<args, newnet, list, k, found, made, moved>>
      /\ ifs' = {Left(x) : x \in {x \in ifs : x.id \notin Net!Taken}}
  BY DEF Net!NamespaceEnds, Net!parameters, Net!history
<1>2. ASSUME NEW x \in ifs
      PROVE  /\ IsInterface(Left(x)) /\ Left(x).id = x.id
             /\ x.ns # "new" => Left(x) = x
  <2>1. IsInterface(x)
    BY DEF NetInv, Interfaces
  <2>2. CASE x.ns = "new"
    <3> DEFINE name == IF Net!Named("host", x.name) = {} THEN x.name ELSE "dev" \o x.name
               y    == [x EXCEPT !.ns = "host", !.name = name, !.up = FALSE]
               up   == FALSE
    <3>1. y = Alter(x, "host", name, up) /\ "host" \in {"host", "new"}
      BY DEF Alter
    <3>2. Left(x) = y
      BY <2>2 DEF Net!Back
    <3> HIDE DEF name, up, y, Left
    <3>3. IsInterface(y) /\ y.id = x.id
      BY ONLY <2>1, <3>1, Altered
    <3> QED BY <2>2, <3>2, <3>3
  <2>3. CASE x.ns # "new"
    <3>1. Left(x) = x
      BY <2>3
    <3> QED BY <2>1, <3>1
  <2> QED BY <2>2, <2>3
<1> HIDE DEF Left
<1>3. ASSUME NEW x \in ifs', NEW j \in Nat, x.id \in {Made(j), Peer(j)}
      PROVE  x \in ifs /\ x.ns = "host"
  <2>1. PICK y \in ifs : y.id \notin Net!Taken /\ x = Left(y)
    BY <1>1
  <2>2. IsInterface(y) /\ y.id = x.id
    BY <1>2, <2>1 DEF NetInv, Interfaces
  <2>3. y.kind # "physical"
    BY <1>3, <2>2 DEF IsInterface, Net!Makers
  <2>4. y.ns # "new"
    BY <2>1, <2>3 DEF Net!Taken, Net!Doomed
  <2> QED BY <1>2, <2>1, <2>2, <2>4 DEF IsInterface
<1>4. Interfaces'
  <2>1. \A x, y \in ifs' : x.id = y.id => x = y
    BY <1>1, <1>2 DEF NetInv, Interfaces
  <2>2. \A x \in ifs' : IsInterface(x)
    BY <1>1, <1>2
  <2> QED BY <1>1, <2>1, <2>2 DEF Interfaces
<1>5. \A j \in DOMAIN args : j \in Nat /\ made[j] \in {Net!Zero, Made(j)}
  BY Inputs DEF NetInv, Typed, History, Net!NetifAssumption
<1>6. InNamespace'
  <2> SUFFICES ASSUME newnet, NEW j \in DOMAIN args, moved[j] = made[j], moved[j] # Net!Zero,
                      NEW x \in ifs', x.id = made[j]
               PROVE  FALSE
    BY <1>1 DEF InNamespace
  <2>1. x \in ifs /\ x.ns = "host"
    BY <1>3, <1>5
  <2> QED BY <2>1 DEF NetInv, InNamespace
<1>7. Net!OnlyNamedMoved'
  <2>1. ASSUME NEW j \in DOMAIN args, Net!Interfered(j) PROVE Net!Interfered(j)'
    <3> SUFFICES ASSUME NEW x \in ifs', x.id = made[j], x.name = Temp PROVE FALSE
      BY <1>1, <2>1 DEF Net!Interfered
    <3>1. x.id # Net!Zero
      BY <1>4 DEF Interfaces, IsInterface
    <3>2. x \in ifs
      BY <1>3, <1>5, <3>1
    <3> QED BY <2>1, <3>2 DEF Net!Interfered
  <2> QED BY <1>1, <2>1 DEF NetInv, Typed, Net!OnlyNamedMoved, Net!IsMove
<1>8. Typed' /\ History' /\ Found'
  BY <1>1 DEF NetInv, Typed, History, Found, SettingUp
<1> QED BY <1>4, <1>6, <1>7, <1>8 DEF NetInv

-----------------------------------------------------------------------------
(* The invariant.                                                          *)

LEMMA Invariant == Spec => []IInv
<1>1. Init => IInv
  BY InitNet DEF Init, IInv
<1>2. IInv /\ [Next]_vars => IInv'
  <2> SUFFICES ASSUME IInv, [Next]_vars, part' = "netif" PROVE NetInv'
    BY DEF IInv
  <2>1. CASE NetifStep
    <3>1. NetInv /\ Net!Next
      BY <2>1 DEF NetifStep, IInv
    <3>2. CASE Net!DevMissing \/ Net!CreateFails \/ Net!LocateFails \/ Net!MoveFails
               \/ Net!ConfigFails
      BY <3>1, <3>2, FailKeeps DEF Net!DevMissing, Net!CreateFails, Net!LocateFails,
         Net!MoveFails, Net!ConfigFails
    <3> QED BY <3>1, <3>2, AddFromSpecKeeps, OptionsReadKeeps, FindDevKeeps,
               CreateOnMasterKeeps, CreatePairKeeps, LocateKeeps, MoveKeeps, MoveThenFailKeeps,
               AllSetUpKeeps, ConfigKeeps, EndKeeps, OthersRenameKeep, OthersRemoveKeep
               DEF Net!Next
  <2>2. CASE UNCHANGED vars
    <3>1. NetInv /\ UNCHANGED <<args, newnet, list, pc, k, if_index, ifs, found, made, moved>>
      BY <2>2 DEF vars, netifVars, IInv
    <3> QED BY <3>1 DEF NetInv, Typed, Interfaces, History, Found, NoLonger, InNamespace,
               Net!OnlyNamedMoved, Net!IsMove, Net!Interfered
  <2>3. CASE LineStep \/ OptlistStep \/ CapsStep \/ RequestStep \/ UserStep
    BY <2>3 DEF LineStep, OptlistStep, CapsStep, RequestStep, UserStep
  <2> QED BY <2>1, <2>2, <2>3 DEF Next
<1> QED BY <1>1, <1>2, PTL DEF Spec

\* No interface gets into the container but the one that had the name in the option
\* when it was looked up, or the one that the option has made, whatever other programs
\* do meanwhile; in place of a macvlan or an ipvlan that they rename or remove the
\* kernel may take another (netif.c:126-164).
THEOREM NoOtherIsMoved == Spec => []OnlyNamedMoved
<1>1. IInv => OnlyNamedMoved
  BY DEF IInv, NetInv, OnlyNamedMoved
<1> QED BY <1>1, Invariant, PTL

\* When the container is over none of the interfaces pflask made is left, but for
\* the one it was working on when it failed, and one that another program took out
\* of its hands (netif.c:126-164, README.rst:84).
THEOREM NoneIsLeft == Spec => []NothingLeft
<1>1. ASSUME NetInv PROVE Net!NothingLeft
  <2> SUFFICES ASSUME pc = "over", newnet, NEW j \in DOMAIN made, Net!Exists(made[j])
               PROVE  moved[j] # made[j] /\ (j = k \/ Net!Interfered(j))
    BY DEF Net!NothingLeft
  <2>1. /\ j \in DOMAIN args /\ j \in DOMAIN moved /\ j \in Nat /\ k \in Nat
    BY <1>1, Inputs DEF NetInv, Typed, Net!NetifAssumption
  <2>2. made[j] # Net!Zero
    BY <1>1 DEF NetInv, Interfaces, IsInterface, Net!Exists
  <2>3. moved[j] # made[j]
    BY <1>1, <2>1, <2>2 DEF NetInv, InNamespace, Net!Exists
  <2>4. ~(j > k) /\ (j < k => moved[j] # Net!Zero)
    BY <1>1, <2>1, <2>2 DEF NetInv, History
  <2>5. j < k => Net!Interfered(j)
    BY <1>1, <2>1, <2>2, <2>3, <2>4 DEF NetInv, History, Net!OnlyNamedMoved, Net!IsMove
  <2> QED BY <2>1, <2>3, <2>4, <2>5
<1>2. IInv => NothingLeft
  BY <1>1 DEF IInv, NothingLeft
<1> QED BY <1>2, Invariant, PTL

-----------------------------------------------------------------------------
(* What has been moved stays in its place.                                 *)

\* What was moved is an interface that there was, and no new one gets its index.
MovedIds ==
    \A j \in DOMAIN args, m \in Nat : moved[j] \in {Made(m), Peer(m)} =>
        /\ pc # "parse"
        /\ pc \in {"find", "create"} => m < k
        /\ pc \in {"locate", "move"} => m <= k

InPlace(j)    == \E x \in ifs : x.id = moved[j] /\ x.ns = Net!Target /\ x.name = list[j].name
TakenAway(j)  == meddled > 0 /\ (newnet => ~Net!Exists(moved[j]))
TakenLater(j) ==
    ~newnet /\ \E l \in DOMAIN args : l > j /\ moved[l] = moved[j] /\ moved[l] # Net!Zero

Accounted(j) == InPlace(j) \/ TakenAway(j) \/ TakenLater(j)

Deliveries ==
    /\ MovedIds /\ meddled \in Nat
    /\ pc \in {"config", "running"} => k > Len(list)
    /\ pc \in SettingUp \cup {"config", "running"} => \A j \in DOMAIN args : j < k => Accounted(j)

DInv == part = "netif" => NetInv /\ Deliveries

LEMMA Places == ASSUME NetInv PROVE DOMAIN args \subseteq Nat /\ k \in Nat
BY Inputs DEF NetInv, Typed, Net!NetifAssumption

\* A step that moves nothing.
LEMMA DeliveriesKeep ==
    ASSUME NetInv, Deliveries, UNCHANGED <<args, newnet, list, k, moved>>,
           meddled' \in Nat, meddled' >= meddled,
           \A y \in ifs' : \/ \E x \in ifs : x.id = y.id
                           \/ pc = "create" /\ y.id \in {Made(k), Peer(k)},
           \/ \A x \in ifs : \E y \in ifs' : y.id = x.id /\ y.ns = x.ns /\ y.name = x.name
           \/ /\ meddled' > 0
              /\ \A x \in ifs : x.ns = "new" => x \in ifs' \/ ~\E y \in ifs' : y.id = x.id
           \/ pc' \in {"failed", "over"},
           pc # "parse", pc' # "parse", pc' \in {"find", "create"} => pc \in {"find", "create"},
           pc' \in {"locate", "move"} => pc \in SettingUp,
           pc' \in {"config", "running"} => pc \in {"config", "running"} \/ k > Len(list),
           pc' \in SettingUp \cup {"config", "running"} => pc \in SettingUp \cup {"config"}
    PROVE  Deliveries'
<1>1. MovedIds'
  <2> SUFFICES ASSUME NEW j \in DOMAIN args, NEW m \in Nat, moved[j] \in {Made(m), Peer(m)}
               PROVE  /\ pc' \in {"find", "create"} => m < k
                      /\ pc' \in {"locate", "move"} => m <= k
    BY DEF MovedIds
  <2>1. /\ pc \in {"find", "create"} => m < k
        /\ pc \in {"locate", "move"} => m <= k
    BY DEF Deliveries, MovedIds
  <2> QED BY <2>1, Places DEF SettingUp
<1>2. ASSUME pc' \in SettingUp \cup {"config", "running"}, NEW j \in DOMAIN args, j < k
      PROVE  Accounted(j)'
  <2>1. Accounted(j)
    BY <1>2 DEF Deliveries
  <2>2. ASSUME ~Net!Exists(moved[j]) PROVE ~Net!Exists(moved[j])'
    <3> SUFFICES ASSUME NEW y \in ifs', y.id = moved[j] PROVE FALSE
      BY DEF Net!Exists
    <3>1. ~\E x \in ifs : x.id = y.id
      BY <2>2 DEF Net!Exists
    <3>2. pc = "create" /\ moved[j] \in {Made(k), Peer(k)}
      BY <3>1
    <3> QED BY <3>2, Places DEF Deliveries, MovedIds
  <2>3. CASE TakenAway(j)
    <3>1. meddled \in Nat
      BY DEF Deliveries
    <3> QED BY <2>2, <2>3, <3>1 DEF TakenAway, Accounted
  <2>4. CASE TakenLater(j)
    BY <2>4 DEF TakenLater, Accounted
  <2>5. CASE InPlace(j)
    <3>1. PICK x \in ifs : x.id = moved[j] /\ x.ns = Net!Target /\ x.name = list[j].name
      BY <2>5 DEF InPlace
    <3>2. CASE \E y \in ifs' : y.id = x.id /\ y.ns = x.ns /\ y.name = x.name
      BY <3>1, <3>2 DEF InPlace, Accounted, Net!Target
    <3>3. CASE /\ meddled' > 0
               /\ x.ns = "new" => x \in ifs' \/ ~\E y \in ifs' : y.id = x.id
      <4>1. CASE ~newnet
        BY <3>3, <4>1 DEF TakenAway, Accounted
      <4>2. CASE newnet
        <5>1. x \in ifs' \/ ~Net!Exists(moved[j])'
          BY <3>1, <3>3, <4>2 DEF Net!Target, Net!Exists
        <5> QED BY <3>1, <3>3, <5>1 DEF InPlace, TakenAway, Accounted, Net!Target
      <4> QED BY <4>1, <4>2
    <3> QED BY <1>2, <3>2, <3>3 DEF SettingUp
  <2> QED BY <2>1, <2>3, <2>4, <2>5 DEF Accounted
<1>3. pc' \in {"config", "running"} => k > Len(list)
  BY DEF Deliveries
<1> QED BY <1>1, <1>2, <1>3 DEF Deliveries

\* Steps that leave the interfaces alone.
LEMMA QuietDeliveries ==
    ASSUME NetInv, Deliveries, UNCHANGED <<args, newnet, ifs, moved, meddled>>,
           \/ pc = "parse" /\ k' = 1 /\ pc' = "find"
           \/ pc = "parse" /\ pc' \in {"parse", "failed"}
           \/ /\ UNCHANGED <<list, k>>
              /\ \/ pc = "find" /\ pc' \in {"create", "move"}
                 \/ pc = "locate" /\ pc' = "move"
                 \/ pc = "find" /\ k > Len(list) /\ pc' \in {"config", "running"}
                 \/ pc' = "failed" /\ pc # "parse"
    PROVE  Deliveries'
<1>1. CASE pc = "parse"
  <2>1. \A j \in DOMAIN args : moved[j] = Net!Zero
    BY <1>1 DEF NetInv, History
  <2>2. MovedIds'
    BY <2>1, Indices DEF MovedIds
  <2>3. pc' = "find" => \A j \in DOMAIN args : ~(j < k')
    BY <1>1, Inputs DEF NetInv, Typed, Net!NetifAssumption
  <2> QED BY <1>1, <2>2, <2>3 DEF Deliveries, SettingUp
<1>2. CASE pc # "parse"
  <2>1. meddled' \in Nat /\ meddled' >= meddled
    BY DEF Deliveries
  <2> QED BY <1>2, <2>1, DeliveriesKeep DEF SettingUp
<1> QED BY <1>1, <1>2

LEMMA MoveDelivers == ASSUME NetInv, Deliveries, Net!move_and_rename_if PROVE Deliveries'
<1>1. PICK up \in BOOLEAN : ifs' = Net!Placed(list[k].name, up)
  BY DEF Net!move_and_rename_if
<1>2. /\ pc = "move" /\ Net!Movable /\ pc' = "find" /\ k' = k + 1
      /\ moved' = [moved EXCEPT ![k] = Net!Subject]
      /\ UNCHANGED <<args, newnet, list, made, meddled>>
  BY DEF Net!move_and_rename_if, Net!parameters
<1> DEFINE y == Net!If(Net!Subject)
           x == Alter(y, Net!Target, list[k].name, up)
<1>3. y \in ifs /\ y.id = Net!Subject /\ y.ns = "host" /\ \A z \in ifs : z.id = Net!Subject => z = y
  BY <1>2, SubjectIs
<1> HIDE DEF y
<1>4. IsInterface(x) /\ x.id = y.id /\ x.ns = Net!Target /\ x.name = list[k].name
  <2>1. Net!Target \in {"host", "new"}
    BY DEF Net!Target
  <2>2. IsInterface(y)
    BY <1>3 DEF NetInv, Interfaces
  <2> QED BY <2>1, <2>2, Altered
<1>5. ifs' = (ifs \ {y}) \cup {x}
  BY <1>1 DEF Net!Placed, Alter, y
<1> HIDE DEF x
<1>6. k \in DOMAIN args /\ k \in DOMAIN moved /\ DOMAIN args \subseteq Nat /\ k \in Nat
  <2>1. /\ k \in Nat \ {0} /\ k <= Len(list) /\ Len(list) <= Len(args) /\ Len(list) \in Nat
        /\ args \in Seq(Seq(STRING)) /\ DOMAIN moved = DOMAIN args
    BY <1>2, Inputs DEF NetInv, Typed, Net!NetifAssumption, SettingUp
  <2> QED BY <2>1
<1>7. moved'[k] = Net!Subject /\ \A j \in DOMAIN args : j # k => moved'[j] = moved[j]
  BY <1>2, <1>6 DEF NetInv, Typed
<1>8. MovedIds'
  <2> SUFFICES ASSUME NEW j \in DOMAIN args, NEW m \in Nat, moved'[j] \in {Made(m), Peer(m)}
               PROVE  m < k'
    BY <1>2 DEF MovedIds
  <2>1. m <= k
    <3>1. CASE j = k
      BY <1>2, <1>3, <1>7, <3>1 DEF NetInv, Interfaces
    <3>2. CASE j # k
      BY <1>2, <1>7, <3>2 DEF Deliveries, MovedIds
    <3> QED BY <3>1, <3>2
  <2> QED BY <1>2, <1>6, <2>1
<1>10. ASSUME NEW j \in DOMAIN args, j < k' PROVE Accounted(j)'
  <2>1. CASE j = k
    <3>1. x \in ifs' /\ x.id = moved'[j] /\ x.ns = Net!Target' /\ x.name = list'[j].name
      BY <1>2, <1>3, <1>4, <1>5, <1>7, <2>1 DEF Net!Target
    <3> QED BY <3>1 DEF InPlace, Accounted
  <2>2. CASE j < k
    <3>1. Accounted(j) /\ moved'[j] = moved[j] /\ meddled' = meddled /\ newnet' = newnet
      BY <1>2, <1>6, <1>7, <2>2 DEF Deliveries, SettingUp
    <3>2. CASE TakenAway(j)
      <4>1. ~Net!Exists(moved[j]) => ~Net!Exists(moved[j])'
        BY <1>3, <1>4, <1>5, <3>1 DEF Net!Exists
      <4> QED BY <3>1, <3>2, <4>1 DEF TakenAway, Accounted
    <3>3. CASE TakenLater(j)
      <4>1. PICK l \in DOMAIN args : l > j /\ moved[l] = moved[j] /\ moved[l] # Net!Zero
        BY <3>3 DEF TakenLater
      <4>2. l # k
        BY <1>2, <1>6, <4>1 DEF NetInv, History, SettingUp
      <4>3. moved'[l] = moved[l] /\ args' = args
        BY <1>2, <1>7, <4>2
      <4> QED BY <3>1, <3>3, <4>1, <4>3 DEF TakenLater, Accounted
    <3>4. CASE InPlace(j)
      <4>1. PICK z \in ifs : z.id = moved[j] /\ z.ns = Net!Target /\ z.name = list[j].name
        BY <3>4 DEF InPlace
      <4>2. CASE z # y
        <5>1. z \in ifs' /\ list' = list /\ Net!Target' = Net!Target
          BY <1>2, <1>5, <4>2 DEF Net!Target
        <5> QED BY <3>1, <4>1, <5>1 DEF InPlace, Accounted
      <4>3. CASE z = y
        <5>1. ~newnet /\ moved'[k] = moved'[j] /\ moved'[k] # Net!Zero /\ k > j
          BY <1>2, <1>3, <1>6, <1>7, <2>2, <3>1, <4>1, <4>3 DEF Net!Target, Net!Movable
        <5>2. TakenLater(j)'
          BY <1>2, <1>6, <5>1 DEF TakenLater
        <5> QED BY <5>2 DEF Accounted
      <4> QED BY <4>2, <4>3
    <3> QED BY <3>1, <3>2, <3>3, <3>4 DEF Accounted
  <2> QED BY <1>2, <1>6, <1>10, <2>1, <2>2
<1> QED BY <1>2, <1>8, <1>10 DEF Deliveries

LEMMA CreateDelivers ==
    ASSUME NetInv, Deliveries, Net!CreateOnMaster \/ Net!CreatePair PROVE Deliveries'
<1>1. /\ pc = "create" /\ pc' = "locate"
      /\ UNCHANGED <<args, newnet, list, k, moved, meddled>>
  BY DEF Net!CreateOnMaster, Net!CreatePair, Net!Goes, Net!parameters
<1>2. ifs \subseteq ifs' /\ \A y \in ifs' : y \in ifs \/ y.id \in {Made(k), Peer(k)}
  BY DEF Net!CreateOnMaster, Net!CreatePair, Net!Interface, Made, Peer
<1>3. meddled' \in Nat /\ meddled' >= meddled
  BY <1>1 DEF Deliveries
<1> QED BY <1>1, <1>2, <1>3, DeliveriesKeep DEF SettingUp

LEMMA OthersDeliver ==
    ASSUME NetInv, Deliveries, NEW changed, Net!Meddle(changed),
           \A y \in changed : \E x \in ifs : x.id = y.id,
           \A x \in ifs : x.ns = "new" => x \in changed \/ ~\E y \in changed : y.id = x.id,
           pc # "parse"
    PROVE  Deliveries'
<1>1. /\ pc \notin {"running", "over"} /\ meddled' = meddled + 1 /\ ifs' = changed
      /\ UNCHANGED <<args, newnet, list, pc, k, moved>>
  BY DEF Net!Meddle, Net!parameters, Net!history
<1>2. meddled' \in Nat /\ meddled' >= meddled /\ meddled' > 0
  BY <1>1 DEF Deliveries
<1> QED BY <1>1, <1>2, DeliveriesKeep DEF SettingUp

LEMMA OthersRenameDeliver ==
    ASSUME NetInv, Deliveries, Net!OthersRename, pc # "parse" PROVE Deliveries'
<1>1. PICK i_ \in ifs, n \in OtherNames :
          i_.ns = "host" /\ Net!Meddle((ifs \ {i_}) \cup {[i_ EXCEPT !.name = n]})
  BY DEF Net!OthersRename
<1> DEFINE new     == [i_ EXCEPT !.name = n]
           changed == (ifs \ {i_}) \cup {new}
<1>2. new.id = i_.id
  <2>1. i_ = Net!Interface(i_.id, i_.ns, i_.name, i_.kind, i_.of, i_.up)
    BY DEF NetInv, Interfaces, IsInterface
  <2>2. new = Net!Interface(i_.id, i_.ns, n, i_.kind, i_.of, i_.up)
    BY <2>1, SetName
  <2> HIDE DEF new
  <2> QED BY <2>2 DEF Net!Interface
<1>3. Net!Meddle(changed)
  BY <1>1
<1> HIDE DEF new
<1>4. \A y \in changed : \E x \in ifs : x.id = y.id
  BY <1>2
<1>5. \A x \in ifs : x.ns = "new" => x \in changed
  BY <1>1
<1> HIDE DEF changed
<1> QED BY <1>3, <1>4, <1>5, OthersDeliver

LEMMA OthersRemoveDeliver ==
    ASSUME NetInv, Deliveries, Net!OthersRemove, pc # "parse" PROVE Deliveries'
<1>1. PICK i_ \in ifs : Net!Meddle({j \in ifs : j # i_ /\ j.of # i_.id})
  BY DEF Net!OthersRemove
<1> DEFINE changed == {j \in ifs : j # i_ /\ j.of # i_.id}
<1>2. \A y \in changed : \E x \in ifs : x.id = y.id
  OBVIOUS
<1>3. \A x \in ifs : x \in changed \/ ~\E y \in changed : y.id = x.id
  BY DEF NetInv, Interfaces
<1>4. Net!Meddle(changed)
  BY <1>1
<1> HIDE DEF changed
<1> QED BY <1>2, <1>3, <1>4, OthersDeliver

\* While options are read nothing has been moved.
LEMMA OthersWhileReading ==
    ASSUME NetInv, Deliveries, pc = "parse", Net!OthersRename \/ Net!OthersRemove PROVE Deliveries'
<1>1. UNCHANGED <<args, list, pc, k, moved>> /\ meddled' = meddled + 1
  BY DEF Net!OthersRename, Net!OthersRemove, Net!Meddle, Net!parameters, Net!history
<1>2. \A j \in DOMAIN args : moved[j] = Net!Zero
  BY DEF NetInv, History
<1>3. MovedIds'
  BY <1>1, <1>2, Indices DEF MovedIds
<1>4. meddled' \in Nat
  BY <1>1 DEF Deliveries
<1> QED BY <1>1, <1>3, <1>4 DEF Deliveries, SettingUp

LEMMA ConfigDelivers == ASSUME NetInv, Deliveries, Net!config_netif PROVE Deliveries'
<1> DEFINE Up(x) == IF x.id = <<"new", 0>> THEN [x EXCEPT !.up = TRUE] ELSE x
<1>1. /\ pc = "config" /\ pc' = "running"
      /\ UNCHANGED <<args, newnet, list, k, moved, meddled>>
      /\ ifs' = {Up(x) : x \in ifs}
  BY DEF Net!config_netif, Net!parameters, Net!history
<1>2. ASSUME NEW x \in ifs
      PROVE  Up(x).id = x.id /\ Up(x).ns = x.ns /\ Up(x).name = x.name
  <2>1. CASE x.id = <<"new", 0>>
    <3> DEFINE on == TRUE
               y  == [x EXCEPT !.up = on]
    <3>1. Up(x) = y
      BY <2>1
    <3>2. x = Net!Interface(x.id, x.ns, x.name, x.kind, x.of, x.up)
      BY DEF NetInv, Interfaces, IsInterface
    <3> HIDE DEF on, Up
    <3>3. y = Net!Interface(x.id, x.ns, x.name, x.kind, x.of, on)
      BY ONLY <3>2, SetUp
    <3> HIDE DEF y
    <3>4. y.id = x.id /\ y.ns = x.ns /\ y.name = x.name
      BY <3>3 DEF Net!Interface
    <3> QED BY <3>1, <3>4
  <2>2. CASE x.id # <<"new", 0>>
    BY <2>2
  <2> QED BY <2>1, <2>2
<1> HIDE DEF Up
<1>3. meddled' \in Nat /\ meddled' >= meddled
  BY <1>1 DEF Deliveries
<1>4. /\ \A y \in ifs' : \E x \in ifs : x.id = y.id
      /\ \A x \in ifs : \E y \in ifs' : y.id = x.id /\ y.ns = x.ns /\ y.name = x.name
  BY <1>1, <1>2
<1> QED BY <1>1, <1>3, <1>4, DeliveriesKeep DEF SettingUp

\* When it has failed or is over nothing is promised.
LEMMA StoppedDeliveries ==
    ASSUME Deliveries, pc # "parse", pc' \in {"failed", "over"}, meddled' = meddled
    PROVE  Deliveries'
BY DEF Deliveries, MovedIds, SettingUp

LEMMA DeliveriesInvariant == Spec => []DInv
<1>1. Init => DInv
  <2> SUFFICES ASSUME Net!Init PROVE NetInv /\ Deliveries
    BY DEF Init, DInv
  <2>1. NetInv
    BY InitNet
  <2>2. pc = "parse" /\ meddled \in Nat /\ \A j \in DOMAIN args : moved[j] = Net!Zero
    BY DEF Net!Init
  <2> QED BY <2>1, <2>2, Indices DEF Deliveries, MovedIds, SettingUp
<1>2. DInv /\ IInv' /\ [Next]_vars => DInv'
  <2> SUFFICES ASSUME DInv, IInv', [Next]_vars, part' = "netif" PROVE Deliveries'
    BY DEF DInv, IInv
  <2>1. CASE NetifStep
    <3>1. NetInv /\ Deliveries /\ Net!Next
      BY <2>1 DEF NetifStep, DInv
    <3>2. CASE Net!Fail
      BY <3>1, <3>2, QuietDeliveries DEF Net!Fail, Net!parameters, Net!history
    <3>3. CASE Net!netif_add_from_spec /\ ~Net!Fail
      <4>1. /\ pc = "parse" /\ pc' = "parse" /\ UNCHANGED <<args, newnet, ifs, moved, meddled>>
        BY <3>3 DEF Net!netif_add_from_spec, Net!Added, Net!history
      <4> QED BY <3>1, <4>1, QuietDeliveries
    <3>4. CASE Net!OptionsRead
      BY <3>1, <3>4, QuietDeliveries DEF Net!OptionsRead, Net!parameters, Net!history
    <3>5. CASE Net!FindDev
      BY <3>1, <3>5, QuietDeliveries DEF Net!FindDev, Net!Goes, Net!parameters, Net!history
    <3>6. CASE Net!Locate
      BY <3>1, <3>6, QuietDeliveries DEF Net!Locate, Net!Goes, Net!parameters, Net!history
    <3>7. CASE Net!AllSetUp
      BY <3>1, <3>7, QuietDeliveries DEF Net!AllSetUp, Net!parameters, Net!history
    <3>8. CASE Net!MoveThenFail
      BY <3>1, <3>8, StoppedDeliveries DEF Net!MoveThenFail
    <3>9. CASE Net!NamespaceEnds
      BY <3>1, <3>9, StoppedDeliveries DEF Net!NamespaceEnds, Net!history
    <3>10. CASE Net!OthersRename \/ Net!OthersRemove
      BY <3>1, <3>10, OthersRenameDeliver, OthersRemoveDeliver, OthersWhileReading
    <3>11. CASE Net!CreateOnMaster \/ Net!CreatePair
      BY <3>1, <3>11, CreateDelivers
    <3> QED BY <3>1, <3>2, <3>3, <3>4, <3>5, <3>6, <3>7, <3>8, <3>9, <3>10, <3>11,
               MoveDelivers, ConfigDelivers DEF Net!Next, Net!DevMissing, Net!CreateFails,
               Net!LocateFails, Net!MoveFails, Net!ConfigFails
  <2>2. CASE UNCHANGED vars
    <3>1. Deliveries /\ UNCHANGED <<args, newnet, list, pc, k, ifs, moved, meddled>>
      BY <2>2 DEF vars, netifVars, DInv
    <3> QED BY <3>1 DEF Deliveries, MovedIds, Accounted, InPlace, TakenAway, TakenLater,
               Net!Target, Net!Exists
  <2>3. CASE LineStep \/ OptlistStep \/ CapsStep \/ RequestStep \/ UserStep
    BY <2>3 DEF LineStep, OptlistStep, CapsStep, RequestStep, UserStep
  <2> QED BY <2>1, <2>2, <2>3 DEF Next
<1> QED BY <1>1, <1>2, Invariant, PTL DEF Spec

\* When the command starts each option has its interface in the container, under
\* the name it gave, unless others have removed it.  Where the container has no
\* namespace of its own all stays within their reach: there they may have renamed it,
\* too, or a later option has taken the same one (netif.c:111-166).
THEOREM EachIsDelivered == Spec => []Delivered
<1>1. ASSUME NetInv, Deliveries PROVE Net!Delivered
  <2> SUFFICES ASSUME pc \in {"config", "running"}, NEW j \in DOMAIN list
               PROVE  Accounted(j)
    BY <1>1 DEF Net!Delivered, NetInv, Typed, Accounted, InPlace, TakenAway, TakenLater
  <2>1. j \in DOMAIN args /\ j < k
    <3>1. /\ list \in Seq(OptionType) /\ args \in Seq(Seq(STRING)) /\ k \in Nat
          /\ Len(list) <= Len(args) /\ k > Len(list) /\ Len(list) \in Nat /\ Len(args) \in Nat
      BY <1>1, Inputs DEF NetInv, Typed, Deliveries, Net!NetifAssumption
    <3>2. j \in Nat /\ 1 <= j /\ j <= Len(list)
      BY <3>1
    <3> QED BY <3>1, <3>2
  <2> QED BY <1>1, <2>1 DEF Deliveries
<1>2. DInv => Delivered
  BY <1>1 DEF DInv, Delivered
<1> QED BY <1>2, DeliveriesInvariant, PTL

-----------------------------------------------------------------------------
(* The answers to the requests.                                            *)

LEMMA Aligned == ASSUME NEW n \in Nat PROVE Request!Align(n) \in Nat /\ Request!Align(n) >= n
BY DEF Request!Align

\* What an attribute or a gap takes is a number, whatever the names.
LEMMA SizesAreNumbers ==
    ASSUME NEW r \in [type : Request!Types, name : Lengths, out : OtherLengths],
           NEW n \in 1 .. Len(Request!Steps(r))
    PROVE  Request!Steps(r)[n].size \in Nat
<1>1. r.name + 1 \in Nat /\ r.out + 1 \in Nat
  <2>1. r.name \in Lengths /\ r.out \in OtherLengths
    OBVIOUS
  <2>2. r.name \in Nat /\ r.out \in Nat
    BY <2>1, Inputs DEF Request!NetlinkAssumption
  <2> QED BY <2>2
<1> DEFINE Sized(s) == \A m \in 1 .. Len(s) : s[m].size \in Nat
<1>2. r.type = "up" => Request!Steps(r) = <<>>
  BY DEF Request!Steps
<1>3. r.type = "move" => Sized(Request!Steps(r))
  BY <1>1 DEF Request!Steps, Request!Attr, Request!Word
<1>4. r.type = "macvlan" => Sized(Request!Steps(r))
  BY <1>1 DEF Request!Steps, Request!Attr, Request!Start, Request!End, Request!Word
<1>5. r.type = "ipvlan" => Sized(Request!Steps(r))
  BY <1>1 DEF Request!Steps, Request!Attr, Request!Start, Request!End, Request!Word
<1>6. r.type = "veth" => Sized(Request!Steps(r))
  BY <1>1 DEF Request!Steps, Request!Attr, Request!Start, Request!End, Request!Skip, Request!Word,
     Request!Ifinfo
<1> QED BY <1>2, <1>3, <1>4, <1>5, <1>6 DEF Request!Types

\* A message is long enough for the code in its answer to be read, from the start.
ReqInv ==
    /\ request \in [type : Request!Types, name : Lengths, out : OtherLengths]
    /\ i \in Nat \ {0} /\ len \in Nat /\ len >= Request!NLMSG_LENGTH(Request!Ifinfo)
    /\ pc = "recv" => answer \in {"ack", "error"}
    /\ Request!RefusalHeard

LEMMA BuildKeeps ==
    ASSUME ReqInv, UNCHANGED <<request, pc, answer>>, pc = "build", i' = i + 1,
           len' \in Nat, len' >= len
    PROVE  ReqInv'
<1>1. Request!NLMSG_LENGTH(Request!Ifinfo) \in Nat
  BY DEF Request!NLMSG_LENGTH, Request!Ifinfo
<1>2. len' >= Request!NLMSG_LENGTH(Request!Ifinfo)
  BY <1>1 DEF ReqInv
<1> QED BY <1>2 DEF ReqInv, Request!RefusalHeard

LEMMA RequestKeeps == ASSUME ReqInv, Request!Next PROVE ReqInv'
<1>1. CASE Request!rtattr_append
  <2>1. Request!Op.size \in Nat
    BY <1>1, SizesAreNumbers DEF ReqInv, Request!rtattr_append, Request!Does, Request!Op
  <2> DEFINE size == Request!RTA_LENGTH(Request!Op.size)
             tail == Request!Align(len)
  <2>2. size \in Nat
    BY <2>1 DEF Request!RTA_LENGTH
  <2>3. /\ len' = tail + Request!Align(size)
        /\ UNCHANGED <<request, pc, answer>> /\ pc = "build" /\ i' = i + 1
    BY <1>1 DEF Request!rtattr_append, Request!Does, Request!NLMSG_TAIL
  <2> HIDE DEF size
  <2>4. tail \in Nat /\ tail >= len /\ Request!Align(size) \in Nat /\ len \in Nat
    BY <2>2, Aligned DEF ReqInv
  <2> HIDE DEF tail
  <2>5. len' \in Nat /\ len' >= len
    BY <2>3, <2>4
  <2> QED BY <2>3, <2>5, BuildKeeps
<1>2. CASE Request!rtattr_start_nested
  <2>1. /\ len' = Request!Align(len) + 4
        /\ UNCHANGED <<request, pc, answer>> /\ pc = "build" /\ i' = i + 1
    BY <1>2 DEF Request!rtattr_start_nested, Request!Does, Request!NLMSG_TAIL,
       Request!RTA_LENGTH
  <2>2. Request!Align(len) \in Nat /\ Request!Align(len) >= len /\ len \in Nat
    BY Aligned DEF ReqInv
  <2>3. len' \in Nat /\ len' >= len
    BY <2>1, <2>2
  <2> QED BY <2>1, <2>3, BuildKeeps
<1>3. CASE Request!rtattr_end_nested
  <2>1. UNCHANGED <<request, pc, len, answer>> /\ pc = "build" /\ i' = i + 1
    BY <1>3 DEF Request!rtattr_end_nested, Request!Does
  <2> QED BY <2>1, BuildKeeps DEF ReqInv
<1>4. CASE Request!SkipIfinfo
  <2>1. Request!Op.size \in Nat /\ len \in Nat
    BY <1>4, SizesAreNumbers DEF ReqInv, Request!SkipIfinfo, Request!Does, Request!Op
  <2>2. /\ len' = len + Request!Op.size
        /\ UNCHANGED <<request, pc, answer>> /\ pc = "build" /\ i' = i + 1
    BY <1>4 DEF Request!SkipIfinfo, Request!Does
  <2>3. len' \in Nat /\ len' >= len
    BY <2>1, <2>2
  <2> QED BY <2>2, <2>3, BuildKeeps
<1>5. CASE Request!nl_send
  BY <1>5 DEF ReqInv, Request!nl_send, Request!message, Request!RefusalHeard
<1>6. CASE Request!nl_recv
  <2>1. Request!CodeRead
    BY DEF ReqInv, Request!CodeRead, Request!NLMSG_LENGTH, Request!Ifinfo, Request!Word
  <2> QED BY <1>6, <2>1 DEF ReqInv, Request!nl_recv, Request!message, Request!RefusalHeard
<1> QED BY <1>1, <1>2, <1>3, <1>4, <1>5, <1>6 DEF Request!Next

\* A request that the kernel refuses is never taken for one that it has carried
\* out (nl.c:112-135, netif.c:189-191).
THEOREM RefusalIsHeard == Spec => []RefusalHeard
<1> DEFINE Inv == part = "request" => ReqInv
<1>1. Init => Inv
  <2> SUFFICES ASSUME Request!Init PROVE ReqInv
    BY DEF Init
  <2> QED BY DEF ReqInv, Request!Init, Request!RefusalHeard, Request!NLMSG_LENGTH,
             Request!Ifinfo
<1>2. Inv /\ [Next]_vars => Inv'
  <2> SUFFICES ASSUME Inv, [Next]_vars, part' = "request" PROVE ReqInv'
    OBVIOUS
  <2>1. CASE RequestStep
    BY <2>1, RequestKeeps DEF RequestStep
  <2>2. CASE UNCHANGED vars
    BY <2>2 DEF vars, requestVars, ReqInv, Request!RefusalHeard
  <2>3. CASE LineStep \/ OptlistStep \/ CapsStep \/ NetifStep \/ UserStep
    BY <2>3 DEF LineStep, OptlistStep, CapsStep, NetifStep, UserStep
  <2> QED BY <2>1, <2>2, <2>3 DEF Next
<1>3. Inv => RefusalHeard
  BY DEF ReqInv, RefusalHeard
<1> QED BY <1>1, <1>2, <1>3, PTL DEF Spec

-----------------------------------------------------------------------------
(* Reading a message.                                                      *)

\* A set of numbers has a least one.
LEMMA LeastPlace ==
    ASSUME NEW S \in SUBSET Nat, S # {}
    PROVE  \E m \in S : \A j \in S : m <= j
<1>1. PICK m \in S : \A j \in S : ~(<<j, m>> \in OpToRel(<, Nat))
  BY NatLessThanWellFounded, WFMin
<1>2. \A j \in S : j \in Nat
  OBVIOUS
<1>3. \A j \in S : ~(j < m)
  BY <1>1, <1>2 DEF OpToRel
<1> QED BY <1>2, <1>3

Good == 0 .. Request!GoodSize

After(o) == o + Request!Align(header[o].len)

\* A reader that goes to the end of what w has read from the next attribute on.
Reads(w, o, to) ==
    IF to - o < 4 \/ o >= to THEN <<>>
    ELSE IF o \notin DOMAIN header THEN Request!Bad
    ELSE IF header[o].len < 4 \/ header[o].len > to - o THEN Request!Bad
    ELSE <<o>> \o w[After(o)]

\* All headers have a length, and there is room behind the last one.
Readable(to) ==
    /\ to \in Nat /\ to + 3 <= Request!GoodSize
    /\ \A o \in DOMAIN header : header[o].len \in Nat

LEMMA Alignment ==
    /\ \A n \in Nat : /\ Request!Align(n) \in Nat
                      /\ Request!Align(n) >= n /\ Request!Align(n) <= n + 3
    /\ \A n, m \in Nat : Request!Align(4 * m + Request!Align(n)) = 4 * m + Request!Align(n)
BY DEF Request!Align

\* Where a reader goes on is behind where it is.
LEMMA GoesOn ==
    ASSUME NEW to, Readable(to), NEW o \in Good, o \in DOMAIN header, to - o >= 4, o < to,
           header[o].len >= 4, header[o].len <= to - o
    PROVE  After(o) \in Good /\ After(o) > o
<1>1. Request!GoodSize \in Nat
  BY DEF Request!GoodSize
<1>2. header[o].len \in Nat /\ to \in Nat
  BY DEF Readable
<1>3. /\ Request!Align(header[o].len) \in Nat
      /\ Request!Align(header[o].len) >= header[o].len
      /\ Request!Align(header[o].len) <= header[o].len + 3
  BY <1>2, Alignment
<1> QED BY <1>1, <1>2, <1>3 DEF After, Good, Readable

Readings == [Good -> Seq(Int)]

LEMMA ReadsHasType ==
    ASSUME NEW to, Readable(to), NEW o \in Good, NEW w \in Readings
    PROVE  Reads(w, o, to) \in Seq(Int)
<1>1. <<>> \in Seq(Int) /\ Request!Bad \in Seq(Int) /\ <<o>> \in Seq(Int)
  BY DEF Request!Bad, Good
<1>2. CASE /\ o \in DOMAIN header /\ to - o >= 4 /\ o < to
           /\ header[o].len >= 4 /\ header[o].len <= to - o
  <2>1. w[After(o)] \in Seq(Int)
    BY <1>2, GoesOn DEF Readings
  <2>2. <<o>> \o w[After(o)] \in Seq(Int)
    BY <1>1, <2>1, ConcatProperties
  <2> QED BY <1>1, <2>2 DEF Reads
<1>3. CASE ~(to - o < 4 \/ o >= to) /\ o \in DOMAIN header
           /\ ~(header[o].len < 4 \/ header[o].len > to - o)
  <2>1. o \in Int /\ to \in Int /\ header[o].len \in Int
    BY <1>3 DEF Good, Readable
  <2> QED BY <1>2, <1>3, <2>1
<1>4. CASE ~(~(to - o < 4 \/ o >= to) /\ o \in DOMAIN header
             /\ ~(header[o].len < 4 \/ header[o].len > to - o))
  BY <1>1, <1>4 DEF Reads
<1> QED BY <1>3, <1>4

\* What is read does not depend on what w has for the places before.
LEMMA SameBehind ==
    ASSUME NEW to, Readable(to), NEW o \in Good, NEW w \in Readings, NEW v \in Readings,
           \A q \in Good : q > o => v[q] = w[q]
    PROVE  Reads(v, o, to) = Reads(w, o, to)
<1>1. CASE /\ o \in DOMAIN header /\ to - o >= 4 /\ o < to
           /\ header[o].len >= 4 /\ header[o].len <= to - o
  <2>1. v[After(o)] = w[After(o)]
    BY <1>1, GoesOn
  <2> QED BY <2>1 DEF Reads
<1>2. CASE ~(/\ o \in DOMAIN header /\ to - o >= 4 /\ o < to
             /\ header[o].len >= 4 /\ header[o].len <= to - o)
  <2>1. o \in Int /\ to \in Int /\ \A q \in DOMAIN header : header[q].len \in Int
    BY DEF Good, Readable
  <2>2. \/ to - o < 4 \/ o >= to \/ o \notin DOMAIN header
        \/ o \in DOMAIN header /\ (header[o].len < 4 \/ header[o].len > to - o)
    BY <1>2, <2>1
  <2> QED BY <2>2 DEF Reads
<1> QED BY <1>1, <1>2

\* The last n places can be read.
ReadsLast(w, n, to) == \A o \in Good : o + n > Request!GoodSize => w[o] = Reads(w, o, to)

\* One more place, counted from the end.
LEMMA OneMorePlace ==
    ASSUME NEW to, Readable(to), NEW n \in Nat, n <= Request!GoodSize,
           NEW w \in Readings, ReadsLast(w, n, to)
    PROVE  \E v \in Readings : ReadsLast(v, n + 1, to)
<1>1. PICK last : last = Request!GoodSize - n
  OBVIOUS
<1>2. last \in Good /\ last \in Nat /\ Request!GoodSize \in Nat
  BY <1>1 DEF Good, Request!GoodSize
<1>3. PICK v : v = [w EXCEPT ![last] = Reads(w, last, to)]
  OBVIOUS
<1>4. v \in Readings /\ v[last] = Reads(w, last, to) /\ \A q \in Good : q # last => v[q] = w[q]
  BY <1>2, <1>3, ReadsHasType DEF Readings
<1>5. ASSUME NEW o \in Good, o + (n + 1) > Request!GoodSize
      PROVE  v[o] = Reads(v, o, to)
  <2>1. o \in Nat /\ o >= last
    BY <1>1, <1>2, <1>5 DEF Good
  <2>2. \A q \in Good : q > o => v[q] = w[q]
    BY <1>2, <1>4, <2>1 DEF Good
  <2>3. Reads(v, o, to) = Reads(w, o, to)
    BY <1>4, <2>2, SameBehind
  <2>4. CASE o = last
    BY <1>4, <2>3, <2>4
  <2>5. CASE o # last
    <3>1. o + n > Request!GoodSize
      BY <1>1, <1>2, <2>1, <2>5
    <3> QED BY <1>4, <2>3, <2>5, <3>1 DEF ReadsLast
  <2> QED BY <2>4, <2>5
<1> QED BY <1>4, <1>5 DEF ReadsLast

\* So all of them can.
LEMMA AllPlaces ==
    ASSUME NEW to, Readable(to)
    PROVE  \E w \in Readings : \A o \in Good : w[o] = Reads(w, o, to)
<1> DEFINE Can(n) == \E w \in Readings : ReadsLast(w, n, to)
           G      == Request!GoodSize
           Not    == {m \in 1 .. G + 1 : ~Can(m)}
<1>1. G \in Nat
  BY DEF Request!GoodSize
<1>2. Can(0)
  <2>1. PICK w : w = [o \in Good |-> <<>>]
    OBVIOUS
  <2>2. w \in Readings /\ \A o \in Good : ~(o + 0 > G)
    BY <1>1, <2>1 DEF Readings, Good
  <2> QED BY <2>2 DEF ReadsLast
<1>3. ASSUME Not # {}
      PROVE  FALSE
  <2> HIDE DEF Can
  <2>1. PICK m \in Not : \A j \in Not : m <= j
    <3>1. Not \in SUBSET Nat
      BY <1>1
    <3> QED BY <1>3, <3>1, LeastPlace
  <2>2. m - 1 \in Nat /\ m - 1 \notin Not /\ m - 1 <= G /\ (m - 1) + 1 = m
    BY <1>1, <2>1
  <2>3. Can(m - 1)
    BY <1>1, <1>2, <2>1, <2>2
  <2>4. Can((m - 1) + 1)
    BY <2>2, <2>3, OneMorePlace DEF Can
  <2> QED BY <2>1, <2>2, <2>4
<1>4. Can(G + 1)
  BY <1>1, <1>3
<1>5. PICK w \in Readings : ReadsLast(w, G + 1, to)
  BY <1>4
<1>6. \A o \in Good : o + (G + 1) > G
  BY <1>1 DEF Good
<1> QED BY <1>5, <1>6 DEF ReadsLast

\* What the kernel reads from a place is the attribute there and what it reads from
\* the next one on.
LEMMA WalkGoesOn ==
    ASSUME NEW to, Readable(to), NEW o \in Good
    PROVE  Request!Walk(o, to) =
               IF to - o < 4 \/ o >= to THEN <<>>
               ELSE IF o \notin DOMAIN header THEN Request!Bad
               ELSE IF header[o].len < 4 \/ header[o].len > to - o THEN Request!Bad
               ELSE <<o>> \o Request!Walk(After(o), to)
<1> DEFINE walk == CHOOSE w : w = [p \in Good |-> Reads(w, p, to)]
<1>1. \A p : Request!Walk(p, to) = walk[p]
  BY DEF Request!Walk, Reads, Good, After
<1>2. \E w : w = [p \in Good |-> Reads(w, p, to)]
  <2>1. PICK w \in Readings : \A p \in Good : w[p] = Reads(w, p, to)
    BY AllPlaces
  <2>2. w = [p \in Good |-> Reads(w, p, to)]
    BY <2>1 DEF Readings
  <2> QED BY <2>2
<1>3. walk = [p \in Good |-> Reads(walk, p, to)]
  BY <1>2
<1> HIDE DEF walk
<1>4. walk[o] = Reads(walk, o, to)
  BY <1>3
<1> QED BY <1>1, <1>4 DEF Reads

-----------------------------------------------------------------------------
(* Writing a message.                                                      *)

\* An attribute of this type and length is at this place; the nested one that is open
\* there.
Is(place, attr, n) == place \in DOMAIN header /\ header[place] = [type |-> attr, len |-> n]
Opened(attr, place) == attr \in DOMAIN nested /\ nested[attr] = place

\* Nothing that is there changes but the attribute at this place.
KeepsBut(p) ==
    /\ DOMAIN header \subseteq DOMAIN header'
    /\ \A q \in DOMAIN header : q # p => header'[q] = header[q]

LEMMA AppendEffect ==
    ASSUME Request!rtattr_append, NEW attr, NEW size, Request!Op = Request!Attr(attr, size),
           NEW tail, tail = Request!Align(len)
    PROVE  /\ Is(tail, attr, 4 + size)' /\ KeepsBut(tail)
           /\ len' = tail + Request!Align(4 + size) /\ i' = i + 1
           /\ UNCHANGED <<request, pc, nested>>
           /\ DOMAIN header' = DOMAIN header \cup {tail}
BY DEF Request!rtattr_append, Request!Attr, Request!Put, Request!NLMSG_TAIL, Request!RTA_LENGTH,
   Is, KeepsBut

LEMMA StartEffect ==
    ASSUME Request!rtattr_start_nested, NEW attr, Request!Op = Request!Start(attr),
           NEW tail, tail = Request!Align(len)
    PROVE  /\ Is(tail, attr, 4)' /\ KeepsBut(tail)
           /\ Opened(attr, tail)'
           /\ \A a, p : a # attr /\ Opened(a, p) => Opened(a, p)'
           /\ len' = tail + 4 /\ i' = i + 1
           /\ UNCHANGED <<request, pc>>
           /\ DOMAIN header' = DOMAIN header \cup {tail}
BY DEF Request!rtattr_start_nested, Request!Start, Request!Put, Request!NLMSG_TAIL,
   Request!RTA_LENGTH, Is, Opened, KeepsBut

LEMMA EndEffect ==
    ASSUME Request!rtattr_end_nested, NEW attr, Request!Op = Request!End(attr),
           NEW p, Opened(attr, p), NEW n, Is(p, attr, n), NEW m, m = Request!Align(len) - p
    PROVE  /\ Is(p, attr, m)' /\ KeepsBut(p) /\ i' = i + 1
           /\ UNCHANGED <<request, pc, nested, len>>
           /\ DOMAIN header' = DOMAIN header \cup {p}
BY DEF Request!rtattr_end_nested, Request!End, Request!NLMSG_TAIL, Is, Opened, KeepsBut

\* The requests' steps, and which action takes which.
LEMMA StepOf ==
    ASSUME Request!Next, pc = "build", i \in 1 .. Len(Request!Steps(request))
    PROVE  /\ Request!Op.op = "append" => Request!rtattr_append
           /\ Request!Op.op = "start"  => Request!rtattr_start_nested
           /\ Request!Op.op = "end"    => Request!rtattr_end_nested
           /\ Request!Op.op = "skip"   => Request!SkipIfinfo
BY DEF Request!Next, Request!rtattr_append, Request!rtattr_start_nested,
   Request!rtattr_end_nested, Request!SkipIfinfo, Request!nl_send, Request!nl_recv, Request!Does

IsRequest(t, n, o) == request = [type |-> t, name |-> n, out |-> o]

LEMMA MoveSteps ==
    ASSUME NEW n \in Nat, NEW o \in Nat, IsRequest("move", n, o)
    PROVE  LET s == Request!Steps(request) IN
           /\ Len(s) = 2
           /\ s[1] = Request!Attr("NET_NS_PID", 4) /\ s[2] = Request!Attr("IFNAME", n + 1)
BY DEF IsRequest, Request!Steps, Request!Word

KindOf(t) == IF t = "macvlan" THEN 8 ELSE 7

LEMMA MasterSteps ==
    ASSUME NEW n \in Nat, NEW o \in Nat, NEW t \in {"macvlan", "ipvlan"}, IsRequest(t, n, o)
    PROVE  LET s == Request!Steps(request) IN
           /\ Len(s) = 5
           /\ s[1] = Request!Start("LINKINFO") /\ s[2] = Request!Attr("KIND", KindOf(t))
           /\ s[3] = Request!End("LINKINFO") /\ s[4] = Request!Attr("LINK", 4)
           /\ s[5] = Request!Attr("IFNAME", n + 1)
<1>1. CASE t = "macvlan"
  BY <1>1 DEF IsRequest, Request!Steps, Request!Word, KindOf
<1>2. CASE t = "ipvlan"
  BY <1>2 DEF IsRequest, Request!Steps, Request!Word, KindOf
<1> QED BY <1>1, <1>2

LEMMA PairSteps ==
    ASSUME NEW n \in Nat, NEW o \in Nat, IsRequest("veth", n, o)
    PROVE  LET s == Request!Steps(request) IN
           /\ Len(s) = 10
           /\ s[1] = Request!Start("LINKINFO") /\ s[2] = Request!Attr("KIND", 5)
           /\ s[3] = Request!Start("DATA") /\ s[4] = Request!Start("PEER")
           /\ s[5] = Request!Skip(16) /\ s[6] = Request!Attr("IFNAME", n + 1)
           /\ s[7] = Request!End("PEER") /\ s[8] = Request!End("DATA")
           /\ s[9] = Request!End("LINKINFO") /\ s[10] = Request!Attr("IFNAME", o + 1)
BY DEF IsRequest, Request!Steps, Request!Word, Request!Ifinfo

\* What there is of a message before step i.
Size(n) == Request!Align(4 + (n + 1))

Move(n) ==
    /\ i \in 1 .. 3
    /\ i = 1 => len = 32
    /\ i = 2 => len = 40
    /\ i = 3 => len = 40 + Size(n)
    /\ i > 1 => Is(32, "NET_NS_PID", 4 + 4)
    /\ i > 2 => Is(40, "IFNAME", 4 + (n + 1))

Master(t, n) ==
    /\ i \in 1 .. 6
    /\ i = 1 => len = 32
    /\ i = 2 => len = 36
    /\ i \in 3 .. 4 => len = 48
    /\ i = 5 => len = 56
    /\ i = 6 => len = 56 + Size(n)
    /\ i \in 2 .. 3 => Is(32, "LINKINFO", 4) /\ Opened("LINKINFO", 32)
    /\ i > 3 => Is(32, "LINKINFO", 16)
    /\ i > 2 => Is(36, "KIND", 4 + KindOf(t))
    /\ i > 4 => Is(48, "LINK", 4 + 4)
    /\ i > 5 => Is(56, "IFNAME", 4 + (n + 1))

Pair(n, o) ==
    /\ i \in 1 .. 11
    /\ i = 1 => len = 32
    /\ i = 2 => len = 36
    /\ i = 3 => len = 48
    /\ i = 4 => len = 52
    /\ i = 5 => len = 56
    /\ i = 6 => len = 72
    /\ i \in 7 .. 10 => len = 72 + Size(n)
    /\ i = 11 => len = 72 + Size(n) + Size(o)
    /\ i \in 2 .. 9 => Is(32, "LINKINFO", 4) /\ Opened("LINKINFO", 32)
    /\ i > 9 => Is(32, "LINKINFO", 40 + Size(n))
    /\ i > 2 => Is(36, "KIND", 4 + 5)
    /\ i \in 4 .. 8 => Is(48, "DATA", 4) /\ Opened("DATA", 48)
    /\ i > 8 => Is(48, "DATA", 24 + Size(n))
    /\ i \in 5 .. 7 => Is(52, "PEER", 4) /\ Opened("PEER", 52)
    /\ i > 7 => Is(52, "PEER", 20 + Size(n))
    /\ i > 6 => Is(72, "IFNAME", 4 + (n + 1))
    /\ i > 10 => Is(72 + Size(n), "IFNAME", 4 + (o + 1))

Numbers == \A p \in DOMAIN header : header[p].len \in Nat

LEMMA NumbersKeep ==
    ASSUME Numbers, NEW p, NEW attr, NEW m \in Nat, KeepsBut(p), Is(p, attr, m)',
           DOMAIN header' = DOMAIN header \cup {p}
    PROVE  Numbers'
BY DEF Numbers, KeepsBut, Is

LEMMA Sizes ==
    ASSUME NEW n \in Nat
    PROVE  /\ Size(n) \in Nat /\ Size(n) >= 4 + (n + 1) /\ Size(n) <= n + 8
           /\ Request!Align(40 + Size(n)) = 40 + Size(n)
           /\ Request!Align(72 + Size(n)) = 72 + Size(n)
           /\ Request!Align(24 + Size(n)) = 24 + Size(n)
           /\ Request!Align(20 + Size(n)) = 20 + Size(n)
<1>1. 4 + (n + 1) \in Nat
  OBVIOUS
<1>2. \A m \in Nat : Request!Align(4 * m + Size(n)) = 4 * m + Size(n)
  BY <1>1, Alignment DEF Size
<1>3. /\ 40 = 4 * 10 /\ 72 = 4 * 18 /\ 24 = 4 * 6 /\ 20 = 4 * 5
      /\ 10 \in Nat /\ 18 \in Nat /\ 6 \in Nat /\ 5 \in Nat
  OBVIOUS
<1>4. /\ Size(n) \in Nat /\ Size(n) >= 4 + (n + 1) /\ Size(n) <= n + 8
  BY <1>1, Alignment DEF Size
<1> HIDE DEF Size
<1> QED BY <1>2, <1>3, <1>4

LEMMA PlacesOfParts ==
    /\ Request!Align(32) = 32 /\ Request!Align(36) = 36 /\ Request!Align(40) = 40
    /\ Request!Align(48) = 48 /\ Request!Align(52) = 52 /\ Request!Align(56) = 56
    /\ Request!Align(72) = 72 /\ Request!Align(4 + 4) = 8 /\ Request!Align(4 + 5) = 12
    /\ Request!Align(4 + 7) = 12 /\ Request!Align(4 + 8) = 12 /\ Request!Align(16) = 16
BY DEF Request!Align

LEMMA MoveIsBuilt ==
    ASSUME NEW n \in Nat, NEW o \in Nat, IsRequest("move", n, o), Move(n), Numbers,
           Request!Next, pc = "build", i \in 1 .. 2
    PROVE  Move(n)' /\ Numbers' /\ UNCHANGED <<request, pc>>
<1>1. Len(Request!Steps(request)) = 2
  BY MoveSteps
<1>2. CASE i = 1
  <2>1. Request!Op = Request!Attr("NET_NS_PID", 4) /\ Request!rtattr_append
    BY <1>1, <1>2, MoveSteps, StepOf DEF Request!Op, Request!Attr
  <2>2. Request!Align(len) = 32
    BY <1>2, PlacesOfParts, Sizes DEF Move
  <2>3. /\ Is(32, "NET_NS_PID", 4 + (4))' /\ KeepsBut(32)
        /\ len' = 32 + Request!Align(4 + (4)) /\ i' = 1 + 1
        /\ UNCHANGED <<request, pc, nested>>
        /\ DOMAIN header' = DOMAIN header \cup {32}
    BY <1>2, <2>1, <2>2, AppendEffect
  <2>4. Numbers'
    BY <2>3, Sizes, NumbersKeep
  <2>5. Move(n)'
    BY <1>2, <2>3, PlacesOfParts, Sizes DEF Move, Is, Opened, KeepsBut, Size
  <2> QED BY <2>3, <2>4, <2>5
<1>3. CASE i = 2
  <2>1. Request!Op = Request!Attr("IFNAME", n + 1) /\ Request!rtattr_append
    BY <1>1, <1>3, MoveSteps, StepOf DEF Request!Op, Request!Attr
  <2>2. Request!Align(len) = 40
    BY <1>3, PlacesOfParts, Sizes DEF Move
  <2>3. /\ Is(40, "IFNAME", 4 + (n + 1))' /\ KeepsBut(40)
        /\ len' = 40 + Request!Align(4 + (n + 1)) /\ i' = 2 + 1
        /\ UNCHANGED <<request, pc, nested>>
        /\ DOMAIN header' = DOMAIN header \cup {40}
    BY <1>3, <2>1, <2>2, AppendEffect
  <2>4. Numbers'
    BY <2>3, Sizes, NumbersKeep
  <2>5. Move(n)'
    BY <1>3, <2>3, PlacesOfParts, Sizes DEF Move, Is, Opened, KeepsBut, Size
  <2> QED BY <2>3, <2>4, <2>5
<1> QED BY <1>2, <1>3

LEMMA MasterIsBuilt ==
    ASSUME NEW t \in {"macvlan", "ipvlan"}, NEW n \in Nat, NEW o \in Nat, IsRequest(t, n, o),
           Master(t, n), Numbers, Request!Next, pc = "build", i \in 1 .. 5
    PROVE  Master(t, n)' /\ Numbers' /\ UNCHANGED <<request, pc>>
<1>1. Len(Request!Steps(request)) = 5
  BY MasterSteps
<1>2. CASE i = 1
  <2>1. Request!Op = Request!Start("LINKINFO") /\ Request!rtattr_start_nested
    BY <1>1, <1>2, MasterSteps, StepOf DEF Request!Op, Request!Start
  <2>2. Request!Align(len) = 32
    BY <1>2, PlacesOfParts DEF Master, KindOf
  <2>3. /\ Is(32, "LINKINFO", 4)' /\ KeepsBut(32) /\ Opened("LINKINFO", 32)'
        /\ \A a, p : a # "LINKINFO" /\ Opened(a, p) => Opened(a, p)'
        /\ len' = 32 + 4 /\ i' = 1 + 1
        /\ UNCHANGED <<request, pc>>
        /\ DOMAIN header' = DOMAIN header \cup {32}
    BY <1>2, <2>1, <2>2, StartEffect
  <2>4. Numbers'
    BY <2>3, Sizes, NumbersKeep DEF KindOf
  <2>5. Master(t, n)'
    BY <1>2, <2>3, PlacesOfParts, Sizes DEF Master, KindOf, Is, Opened, KeepsBut, Size
  <2> QED BY <2>3, <2>4, <2>5
<1>3. CASE i = 2
  <2>1. Request!Op = Request!Attr("KIND", KindOf(t)) /\ Request!rtattr_append
    BY <1>1, <1>3, MasterSteps, StepOf DEF Request!Op, Request!Attr
  <2>2. Request!Align(len) = 36
    BY <1>3, PlacesOfParts, Sizes DEF Master, KindOf
  <2>3. /\ Is(36, "KIND", 4 + (KindOf(t)))' /\ KeepsBut(36)
        /\ len' = 36 + Request!Align(4 + (KindOf(t))) /\ i' = 2 + 1
        /\ UNCHANGED <<request, pc, nested>>
        /\ DOMAIN header' = DOMAIN header \cup {36}
    BY <1>3, <2>1, <2>2, AppendEffect
  <2>4. Numbers'
    <3>1. PICK m : m = 4 + KindOf(t)
      OBVIOUS
    <3>2. m \in Nat /\ Is(36, "KIND", m)'
      BY <2>3, <3>1 DEF KindOf
    <3> QED BY <2>3, <3>2, NumbersKeep
  <2>5. Master(t, n)'
    BY <1>3, <2>3, PlacesOfParts, Sizes DEF Master, KindOf, Is, Opened, KeepsBut, Size
  <2> QED BY <2>3, <2>4, <2>5
<1>4. CASE i = 3
  <2>1. Request!Op = Request!End("LINKINFO") /\ Request!rtattr_end_nested
    BY <1>1, <1>4, MasterSteps, StepOf DEF Request!Op, Request!End
  <2>2. Request!Align(len) - 32 = 16 /\ Opened("LINKINFO", 32) /\ Is(32, "LINKINFO", 4)
    BY <1>4, PlacesOfParts, Sizes DEF Master, KindOf
  <2>3. /\ Is(32, "LINKINFO", 16)' /\ KeepsBut(32) /\ i' = 3 + 1
        /\ UNCHANGED <<request, pc, nested, len>>
        /\ DOMAIN header' = DOMAIN header \cup {32}
    BY <1>4, <2>1, <2>2, EndEffect
  <2>4. Numbers'
    BY <2>3, Sizes, NumbersKeep DEF KindOf
  <2>5. Master(t, n)'
    BY <1>4, <2>3, PlacesOfParts, Sizes DEF Master, KindOf, Is, Opened, KeepsBut, Size
  <2> QED BY <2>3, <2>4, <2>5
<1>5. CASE i = 4
  <2>1. Request!Op = Request!Attr("LINK", 4) /\ Request!rtattr_append
    BY <1>1, <1>5, MasterSteps, StepOf DEF Request!Op, Request!Attr
  <2>2. Request!Align(len) = 48
    BY <1>5, PlacesOfParts, Sizes DEF Master, KindOf
  <2>3. /\ Is(48, "LINK", 4 + (4))' /\ KeepsBut(48)
        /\ len' = 48 + Request!Align(4 + (4)) /\ i' = 4 + 1
        /\ UNCHANGED <<request, pc, nested>>
        /\ DOMAIN header' = DOMAIN header \cup {48}
    BY <1>5, <2>1, <2>2, AppendEffect
  <2>4. Numbers'
    BY <2>3, Sizes, NumbersKeep DEF KindOf
  <2>5. Master(t, n)'
    BY <1>5, <2>3, PlacesOfParts, Sizes DEF Master, KindOf, Is, Opened, KeepsBut, Size
  <2> QED BY <2>3, <2>4, <2>5
<1>6. CASE i = 5
  <2>1. Request!Op = Request!Attr("IFNAME", n + 1) /\ Request!rtattr_append
    BY <1>1, <1>6, MasterSteps, StepOf DEF Request!Op, Request!Attr
  <2>2. Request!Align(len) = 56
    BY <1>6, PlacesOfParts, Sizes DEF Master, KindOf
  <2>3. /\ Is(56, "IFNAME", 4 + (n + 1))' /\ KeepsBut(56)
        /\ len' = 56 + Request!Align(4 + (n + 1)) /\ i' = 5 + 1
        /\ UNCHANGED <<request, pc, nested>>
        /\ DOMAIN header' = DOMAIN header \cup {56}
    BY <1>6, <2>1, <2>2, AppendEffect
  <2>4. Numbers'
    BY <2>3, Sizes, NumbersKeep DEF KindOf
  <2>5. Master(t, n)'
    BY <1>6, <2>3, PlacesOfParts, Sizes DEF Master, KindOf, Is, Opened, KeepsBut, Size
  <2> QED BY <2>3, <2>4, <2>5
<1> QED BY <1>2, <1>3, <1>4, <1>5, <1>6

LEMMA PairIsBuilt ==
    ASSUME NEW n \in Nat, NEW o \in Nat, IsRequest("veth", n, o), Pair(n, o), Numbers,
           Request!Next, pc = "build", i \in 1 .. 10
    PROVE  Pair(n, o)' /\ Numbers' /\ UNCHANGED <<request, pc>>
<1>1. Len(Request!Steps(request)) = 10
  BY PairSteps
<1>2. CASE i = 1
  <2>1. Request!Op = Request!Start("LINKINFO") /\ Request!rtattr_start_nested
    BY <1>1, <1>2, PairSteps, StepOf DEF Request!Op, Request!Start
  <2>2. Request!Align(len) = 32
    BY <1>2, PlacesOfParts DEF Pair
  <2>3. /\ Is(32, "LINKINFO", 4)' /\ KeepsBut(32) /\ Opened("LINKINFO", 32)'
        /\ \A a, p : a # "LINKINFO" /\ Opened(a, p) => Opened(a, p)'
        /\ len' = 32 + 4 /\ i' = 1 + 1
        /\ UNCHANGED <<request, pc>>
        /\ DOMAIN header' = DOMAIN header \cup {32}
    BY <1>2, <2>1, <2>2, StartEffect
  <2>4. Numbers'
    BY <2>3, Sizes, NumbersKeep
  <2>5. Pair(n, o)'
    BY <1>2, <2>3, PlacesOfParts, Sizes DEF Pair, Is, Opened, KeepsBut, Size
  <2> QED BY <2>3, <2>4, <2>5
<1>3. CASE i = 2
  <2>1. Request!Op = Request!Attr("KIND", 5) /\ Request!rtattr_append
    BY <1>1, <1>3, PairSteps, StepOf DEF Request!Op, Request!Attr
  <2>2. Request!Align(len) = 36
    BY <1>3, PlacesOfParts, Sizes DEF Pair
  <2>3. /\ Is(36, "KIND", 4 + (5))' /\ KeepsBut(36)
        /\ len' = 36 + Request!Align(4 + (5)) /\ i' = 2 + 1
        /\ UNCHANGED <<request, pc, nested>>
        /\ DOMAIN header' = DOMAIN header \cup {36}
    BY <1>3, <2>1, <2>2, AppendEffect
  <2>4. Numbers'
    BY <2>3, Sizes, NumbersKeep
  <2>5. Pair(n, o)'
    BY <1>3, <2>3, PlacesOfParts, Sizes DEF Pair, Is, Opened, KeepsBut, Size
  <2> QED BY <2>3, <2>4, <2>5
<1>4. CASE i = 3
  <2>1. Request!Op = Request!Start("DATA") /\ Request!rtattr_start_nested
    BY <1>1, <1>4, PairSteps, StepOf DEF Request!Op, Request!Start
  <2>2. Request!Align(len) = 48
    BY <1>4, PlacesOfParts DEF Pair
  <2>3. /\ Is(48, "DATA", 4)' /\ KeepsBut(48) /\ Opened("DATA", 48)'
        /\ \A a, p : a # "DATA" /\ Opened(a, p) => Opened(a, p)'
        /\ len' = 48 + 4 /\ i' = 3 + 1
        /\ UNCHANGED <<request, pc>>
        /\ DOMAIN header' = DOMAIN header \cup {48}
    BY <1>4, <2>1, <2>2, StartEffect
  <2>4. Numbers'
    BY <2>3, Sizes, NumbersKeep
  <2>5. Pair(n, o)'
    BY <1>4, <2>3, PlacesOfParts, Sizes DEF Pair, Is, Opened, KeepsBut, Size
  <2> QED BY <2>3, <2>4, <2>5
<1>5. CASE i = 4
  <2>1. Request!Op = Request!Start("PEER") /\ Request!rtattr_start_nested
    BY <1>1, <1>5, PairSteps, StepOf DEF Request!Op, Request!Start
  <2>2. Request!Align(len) = 52
    BY <1>5, PlacesOfParts DEF Pair
  <2>3. /\ Is(52, "PEER", 4)' /\ KeepsBut(52) /\ Opened("PEER", 52)'
        /\ \A a, p : a # "PEER" /\ Opened(a, p) => Opened(a, p)'
        /\ len' = 52 + 4 /\ i' = 4 + 1
        /\ UNCHANGED <<request, pc>>
        /\ DOMAIN header' = DOMAIN header \cup {52}
    BY <1>5, <2>1, <2>2, StartEffect
  <2>4. Numbers'
    BY <2>3, Sizes, NumbersKeep
  <2>5. Pair(n, o)'
    BY <1>5, <2>3, PlacesOfParts, Sizes DEF Pair, Is, Opened, KeepsBut, Size
  <2> QED BY <2>3, <2>4, <2>5
<1>6. CASE i = 5
  <2>1. Request!Op = Request!Skip(16) /\ Request!SkipIfinfo
    BY <1>1, <1>6, PairSteps, StepOf DEF Request!Op, Request!Skip
  <2>2. len' = len + 16 /\ i' = 5 + 1 /\ UNCHANGED <<request, pc, header, nested>>
    BY <1>6, <2>1 DEF Request!SkipIfinfo, Request!Skip
  <2> QED BY <1>6, <2>2 DEF Pair, Numbers, Is, Opened
<1>7. CASE i = 6
  <2>1. Request!Op = Request!Attr("IFNAME", n + 1) /\ Request!rtattr_append
    BY <1>1, <1>7, PairSteps, StepOf DEF Request!Op, Request!Attr
  <2>2. Request!Align(len) = 72
    BY <1>7, PlacesOfParts, Sizes DEF Pair
  <2>3. /\ Is(72, "IFNAME", 4 + (n + 1))' /\ KeepsBut(72)
        /\ len' = 72 + Request!Align(4 + (n + 1)) /\ i' = 6 + 1
        /\ UNCHANGED <<request, pc, nested>>
        /\ DOMAIN header' = DOMAIN header \cup {72}
    BY <1>7, <2>1, <2>2, AppendEffect
  <2>4. Numbers'
    BY <2>3, Sizes, NumbersKeep
  <2>5. Pair(n, o)'
    BY <1>7, <2>3, PlacesOfParts, Sizes DEF Pair, Is, Opened, KeepsBut, Size
  <2> QED BY <2>3, <2>4, <2>5
<1>8. CASE i = 7
  <2>1. Request!Op = Request!End("PEER") /\ Request!rtattr_end_nested
    BY <1>1, <1>8, PairSteps, StepOf DEF Request!Op, Request!End
  <2>2. Request!Align(len) - 52 = 20 + Size(n) /\ Opened("PEER", 52) /\ Is(52, "PEER", 4)
    BY <1>8, PlacesOfParts, Sizes DEF Pair
  <2>3. /\ Is(52, "PEER", 20 + Size(n))' /\ KeepsBut(52) /\ i' = 7 + 1
        /\ UNCHANGED <<request, pc, nested, len>>
        /\ DOMAIN header' = DOMAIN header \cup {52}
    BY <1>8, <2>1, <2>2, EndEffect
  <2>4. Numbers'
    BY <2>3, Sizes, NumbersKeep
  <2>5. Pair(n, o)'
    BY <1>8, <2>3, PlacesOfParts, Sizes DEF Pair, Is, Opened, KeepsBut, Size
  <2> QED BY <2>3, <2>4, <2>5
<1>9. CASE i = 8
  <2>1. Request!Op = Request!End("DATA") /\ Request!rtattr_end_nested
    BY <1>1, <1>9, PairSteps, StepOf DEF Request!Op, Request!End
  <2>2. Request!Align(len) - 48 = 24 + Size(n) /\ Opened("DATA", 48) /\ Is(48, "DATA", 4)
    BY <1>9, PlacesOfParts, Sizes DEF Pair
  <2>3. /\ Is(48, "DATA", 24 + Size(n))' /\ KeepsBut(48) /\ i' = 8 + 1
        /\ UNCHANGED <<request, pc, nested, len>>
        /\ DOMAIN header' = DOMAIN header \cup {48}
    BY <1>9, <2>1, <2>2, EndEffect
  <2>4. Numbers'
    BY <2>3, Sizes, NumbersKeep
  <2>5. Pair(n, o)'
    BY <1>9, <2>3, PlacesOfParts, Sizes DEF Pair, Is, Opened, KeepsBut, Size
  <2> QED BY <2>3, <2>4, <2>5
<1>10. CASE i = 9
  <2>1. Request!Op = Request!End("LINKINFO") /\ Request!rtattr_end_nested
    BY <1>1, <1>10, PairSteps, StepOf DEF Request!Op, Request!End
  <2>2. Request!Align(len) - 32 = 40 + Size(n) /\ Opened("LINKINFO", 32) /\ Is(32, "LINKINFO", 4)
    BY <1>10, PlacesOfParts, Sizes DEF Pair
  <2>3. /\ Is(32, "LINKINFO", 40 + Size(n))' /\ KeepsBut(32) /\ i' = 9 + 1
        /\ UNCHANGED <<request, pc, nested, len>>
        /\ DOMAIN header' = DOMAIN header \cup {32}
    BY <1>10, <2>1, <2>2, EndEffect
  <2>4. Numbers'
    BY <2>3, Sizes, NumbersKeep
  <2>5. Pair(n, o)'
    BY <1>10, <2>3, PlacesOfParts, Sizes DEF Pair, Is, Opened, KeepsBut, Size
  <2> QED BY <2>3, <2>4, <2>5
<1>11. CASE i = 10
  <2>1. Request!Op = Request!Attr("IFNAME", o + 1) /\ Request!rtattr_append
    BY <1>1, <1>11, PairSteps, StepOf DEF Request!Op, Request!Attr
  <2>2. Request!Align(len) = 72 + Size(n)
    BY <1>11, PlacesOfParts, Sizes DEF Pair
  <2>3. /\ Is(72 + Size(n), "IFNAME", 4 + (o + 1))' /\ KeepsBut(72 + Size(n))
        /\ len' = 72 + Size(n) + Request!Align(4 + (o + 1)) /\ i' = 10 + 1
        /\ UNCHANGED <<request, pc, nested>>
        /\ DOMAIN header' = DOMAIN header \cup {72 + Size(n)}
    BY <1>11, <2>1, <2>2, AppendEffect
  <2>4. Numbers'
    BY <2>3, Sizes, NumbersKeep
  <2>5. Pair(n, o)'
    BY <1>11, <2>3, PlacesOfParts, Sizes DEF Pair, Is, Opened, KeepsBut, Size
  <2> QED BY <2>3, <2>4, <2>5
<1> QED BY <1>2, <1>3, <1>4, <1>5, <1>6, <1>7, <1>8, <1>9, <1>10, <1>11

-----------------------------------------------------------------------------
(* What the kernel reads of the messages.                                  *)

\* Names that fit: the kernel's have less than 16 characters.
NamesFit == \A n \in Lengths \cup OtherLengths : n < 4096

LEMMA WalkStep ==
    ASSUME NEW to, Readable(to), NEW o \in Good, NEW attr, NEW m \in Nat, Is(o, attr, m),
           m >= 4, o + m <= to, NEW next, next = o + Request!Align(m)
    PROVE  Request!Walk(o, to) = <<o>> \o Request!Walk(next, to)
<1>1. o \in DOMAIN header /\ header[o].len = m
  BY DEF Is
<1>2. o \in Nat /\ to \in Nat
  BY DEF Good, Readable
<1>3. ~(to - o < 4 \/ o >= to) /\ ~(m < 4 \/ m > to - o)
  BY <1>2
<1> QED BY <1>1, <1>3, WalkGoesOn DEF After

LEMMA WalkEnd ==
    ASSUME NEW to, Readable(to)
    PROVE  Request!Walk(to, to) = <<>>
<1>1. to \in Good /\ to >= to
  BY DEF Good, Readable, Request!GoodSize
<1> QED BY <1>1, WalkGoesOn

LEMMA One == ASSUME NEW a PROVE <<a>> \o <<>> = <<a>>
<1>1. <<a>> \in Seq({a})
  OBVIOUS
<1> QED BY <1>1, ConcatEmptySeq

LEMMA Two == ASSUME NEW a, NEW b PROVE <<a>> \o <<b>> = <<a, b>>
<1>1. <<a>> \in Seq({a, b}) /\ <<b>> \in Seq({a, b}) /\ <<a, b>> \in Seq({a, b})
  OBVIOUS
<1>2. /\ Len(<<a>>) = 1 /\ Len(<<b>>) = 1 /\ Len(<<a, b>>) = 2
      /\ <<a>>[1] = a /\ <<b>>[1] = b /\ <<a, b>>[1] = a /\ <<a, b>>[2] = b
  OBVIOUS
<1>3. <<a>> \o <<b>> \in Seq({a, b}) /\ Len(<<a>> \o <<b>>) = 2
  BY <1>1, <1>2, ConcatProperties
<1>4. (<<a>> \o <<b>>)[1] = a
  BY <1>1, <1>2, ConcatProperties
<1>5. (<<a>> \o <<b>>)[2] = b
  BY <1>1, <1>2, ConcatProperties
<1>6. \A x \in 1 .. 2 : (<<a>> \o <<b>>)[x] = <<a, b>>[x]
  <2>1. \A x \in 1 .. 2 : x = 1 \/ x = 2
    OBVIOUS
  <2> QED BY <1>2, <1>4, <1>5, <2>1
<1> QED BY <1>1, <1>2, <1>3, <1>6, SeqEqual

LEMMA Three == ASSUME NEW a, NEW b, NEW c PROVE <<a>> \o <<b, c>> = <<a, b, c>>
<1>1. /\ <<a>> \in Seq({a, b, c}) /\ <<b, c>> \in Seq({a, b, c})
      /\ <<a, b, c>> \in Seq({a, b, c})
  OBVIOUS
<1>2. /\ Len(<<a>>) = 1 /\ Len(<<b, c>>) = 2 /\ Len(<<a, b, c>>) = 3
      /\ <<a>>[1] = a /\ <<b, c>>[1] = b /\ <<b, c>>[2] = c
      /\ <<a, b, c>>[1] = a /\ <<a, b, c>>[2] = b /\ <<a, b, c>>[3] = c
  OBVIOUS
<1>3. <<a>> \o <<b, c>> \in Seq({a, b, c}) /\ Len(<<a>> \o <<b, c>>) = 3
  BY <1>1, <1>2, ConcatProperties
<1>4. (<<a>> \o <<b, c>>)[1] = a
  BY <1>1, <1>2, ConcatProperties
<1>5. (<<a>> \o <<b, c>>)[2] = b
  BY <1>1, <1>2, ConcatProperties
<1>6. (<<a>> \o <<b, c>>)[3] = c
  BY <1>1, <1>2, ConcatProperties
<1>7. \A x \in 1 .. 3 : (<<a>> \o <<b, c>>)[x] = <<a, b, c>>[x]
  <2>1. \A x \in 1 .. 3 : x = 1 \/ x = 2 \/ x = 3
    OBVIOUS
  <2> QED BY <1>2, <1>4, <1>5, <1>6, <2>1
<1> QED BY <1>1, <1>2, <1>3, <1>7, SeqEqual

\* The attribute at a place is one that is wanted.
Wanted(p, w) == \E attr, m : Is(p, attr, m) /\ w[1] = attr /\ (w[2] # 0 => m - 4 = w[2])

LEMMA WantedIs ==
    ASSUME NEW p, NEW w, Wanted(p, w)
    PROVE  /\ p \in DOMAIN header
           /\ header[p].type = w[1] /\ (w[2] # 0 => header[p].len - 4 = w[2])
BY DEF Wanted, Is

LEMMA OneIsWanted ==
    ASSUME NEW p, NEW u, Wanted(p, u)
    PROVE  Request!Are(<<p>>, <<u>>)
<1>1. /\ p \in DOMAIN header
      /\ header[p].type = u[1] /\ (u[2] # 0 => header[p].len - 4 = u[2])
  BY WantedIs
<1> DEFINE places == <<p>>
           wanted == <<u>>
<1>2. /\ DOMAIN places = {1} /\ Len(places) = Len(wanted)
      /\ places[1] = p /\ wanted[1] = u
  OBVIOUS
<1> HIDE DEF places, wanted
<1>3. Request!Attributes(places)[1] = <<header[p].type, header[p].len - 4>>
  BY <1>2 DEF Request!Attributes
<1>4. Request!Known(places)
  BY <1>1, <1>2 DEF Request!Known
<1>5. Request!Are(places, wanted)
  BY <1>1, <1>2, <1>3, <1>4 DEF Request!Are
<1> QED BY <1>5 DEF places, wanted

LEMMA TwoAreWanted ==
    ASSUME NEW p, NEW q, NEW u, NEW v, Wanted(p, u), Wanted(q, v)
    PROVE  Request!Are(<<p, q>>, <<u, v>>)
BY WantedIs DEF Request!Are, Request!Known, Request!Attributes

LEMMA ThreeAreWanted ==
    ASSUME NEW p, NEW q, NEW r, NEW u, NEW v, NEW w, Wanted(p, u), Wanted(q, v), Wanted(r, w)
    PROVE  Request!Are(<<p, q, r>>, <<u, v, w>>)
BY WantedIs DEF Request!Are, Request!Known, Request!Attributes

LEMMA StartOfMessage == Request!NLMSG_LENGTH(Request!Ifinfo) = 32 /\ Request!GoodSize = 9216
BY DEF Request!NLMSG_LENGTH, Request!Ifinfo, Request!GoodSize

LEMMA UpIsRead ==
    ASSUME len = 32, Numbers
    PROVE  Request!Are(Request!Top, <<>>)
<1>1. Readable(32)
  BY StartOfMessage DEF Readable, Numbers
<1>2. Request!Top = <<>>
  BY <1>1, WalkEnd, StartOfMessage DEF Request!Top
<1> QED BY <1>2 DEF Request!Are, Request!Known

LEMMA MoveIsRead ==
    ASSUME NEW n \in Nat, n < 4096, Move(n), i = 3, Numbers
    PROVE  Request!Are(Request!Top, <<<<"NET_NS_PID", 4>>, <<"IFNAME", n + 1>>>>)
<1>1. /\ Is(32, "NET_NS_PID", 4 + 4) /\ Is(40, "IFNAME", 4 + (n + 1))
      /\ len = 40 + Size(n)
  BY DEF Move
<1>2. /\ Size(n) \in Nat /\ Size(n) >= 4 + (n + 1) /\ Size(n) <= n + 8
  BY Sizes
<1>3. Readable(len)
  BY <1>1, <1>2, StartOfMessage DEF Readable, Numbers
<1>4. 32 \in Good /\ 40 \in Good
  BY StartOfMessage DEF Good
<1>5. Request!Walk(40, len) = <<40>> \o Request!Walk(len, len)
  <2>1. PICK m : m = 4 + (n + 1)
    OBVIOUS
  <2>2. /\ m \in Nat /\ m >= 4 /\ Is(40, "IFNAME", m)
        /\ len = 40 + Request!Align(m) /\ 40 + m <= len
    BY <1>1, <1>2, <2>1 DEF Size
  <2> QED BY ONLY <1>3, <1>4, <2>2, WalkStep
<1>6. Request!Walk(32, len) = <<32>> \o Request!Walk(40, len)
  <2>1. 40 = 32 + Request!Align(4 + 4) /\ 32 + (4 + 4) <= len
    BY <1>1, <1>2, PlacesOfParts
  <2> QED BY <1>1, <1>3, <1>4, <2>1, WalkStep
<1>7. Request!Top = <<32, 40>>
  <2>1. Request!Walk(len, len) = <<>>
    BY <1>3, WalkEnd
  <2>2. Request!Walk(40, len) = <<40>>
    BY <1>5, <2>1, One
  <2>3. Request!Walk(32, len) = <<32, 40>>
    <3>1. <<32>> \o <<40>> = <<32, 40>>
      BY Two
    <3> QED BY ONLY <1>6, <2>2, <3>1
  <2> QED BY <2>3, StartOfMessage DEF Request!Top
<1>8. Wanted(32, <<"NET_NS_PID", 4>>) /\ Wanted(40, <<"IFNAME", n + 1>>)
  BY <1>1 DEF Wanted
<1> QED BY <1>7, <1>8, TwoAreWanted

\* An attribute around others has them inside from here to there.
LEMMA InsideIs ==
    ASSUME NEW p, NEW attr, NEW m, Is(p, attr, m), NEW skip
    PROVE  Request!Inside(p, skip) = Request!Walk(p + 4 + skip, p + m)
BY DEF Request!Inside, Is

LEMMA MasterIsRead ==
    ASSUME NEW t \in {"macvlan", "ipvlan"}, NEW n \in Nat, n < 4096, Master(t, n), i = 6, Numbers
    PROVE  /\ Request!Are(Request!Top,
                   <<<<"LINKINFO", 0>>, <<"LINK", 4>>, <<"IFNAME", n + 1>>>>)
           /\ Request!Are(Request!Inside(Request!Top[1], 0), <<<<"KIND", KindOf(t)>>>>)
<1>1. /\ Is(32, "LINKINFO", 16) /\ Is(36, "KIND", 4 + KindOf(t))
      /\ Is(48, "LINK", 4 + 4) /\ Is(56, "IFNAME", 4 + (n + 1))
      /\ len = 56 + Size(n)
  BY DEF Master
<1>2. /\ Size(n) \in Nat /\ Size(n) >= 4 + (n + 1) /\ Size(n) <= n + 8
  BY Sizes
<1>3. Readable(len) /\ Readable(48)
  BY <1>1, <1>2, StartOfMessage DEF Readable, Numbers
<1>4. 32 \in Good /\ 36 \in Good /\ 48 \in Good /\ 56 \in Good
  BY StartOfMessage DEF Good
<1>5. Request!Walk(56, len) = <<56>> \o Request!Walk(len, len)
  <2>1. PICK m : m = 4 + (n + 1)
    OBVIOUS
  <2>2. /\ m \in Nat /\ m >= 4 /\ Is(56, "IFNAME", m)
        /\ len = 56 + Request!Align(m) /\ 56 + m <= len
    BY <1>1, <1>2, <2>1 DEF Size
  <2> QED BY ONLY <1>3, <1>4, <2>2, WalkStep
<1>6. Request!Walk(48, len) = <<48>> \o Request!Walk(56, len)
  <2>1. 56 = 48 + Request!Align(4 + 4) /\ 48 + (4 + 4) <= len
    BY <1>1, <1>2, PlacesOfParts
  <2> QED BY <1>1, <1>3, <1>4, <2>1, WalkStep
<1>7. Request!Walk(32, len) = <<32>> \o Request!Walk(48, len)
  <2>1. 48 = 32 + Request!Align(16) /\ 32 + 16 <= len
    BY <1>1, <1>2, PlacesOfParts
  <2> QED BY <1>1, <1>3, <1>4, <2>1, WalkStep
<1>8. Request!Top = <<32, 48, 56>>
  <2>1. Request!Walk(len, len) = <<>>
    BY <1>3, WalkEnd
  <2>2. Request!Walk(56, len) = <<56>>
    BY <1>5, <2>1, One
  <2>3. <<48>> \o <<56>> = <<48, 56>>
    BY Two
  <2>4. <<32>> \o <<48, 56>> = <<32, 48, 56>>
    BY Three
  <2>5. Request!Walk(32, len) = <<32, 48, 56>>
    BY ONLY <1>6, <1>7, <2>2, <2>3, <2>4
  <2> QED BY <2>5, StartOfMessage DEF Request!Top
<1>9. Request!Walk(36, 48) = <<36>>
  <2>1. /\ 4 + KindOf(t) \in Nat /\ 4 + KindOf(t) >= 4 /\ 36 + (4 + KindOf(t)) <= 48
        /\ 48 = 36 + Request!Align(4 + KindOf(t))
    BY PlacesOfParts DEF KindOf
  <2>2. Request!Walk(36, 48) = <<36>> \o Request!Walk(48, 48)
    BY <1>1, <1>3, <1>4, <2>1, WalkStep
  <2>3. Request!Walk(48, 48) = <<>>
    BY <1>3, WalkEnd
  <2> QED BY <2>2, <2>3, One
<1>10. Request!Inside(Request!Top[1], 0) = <<36>>
  <2>1. Request!Top[1] = 32
    BY <1>8
  <2>2. Request!Inside(32, 0) = Request!Walk(32 + 4 + 0, 32 + 16)
    BY <1>1, InsideIs
  <2> QED BY <1>9, <2>1, <2>2
<1>11. /\ Wanted(32, <<"LINKINFO", 0>>) /\ Wanted(48, <<"LINK", 4>>)
       /\ Wanted(56, <<"IFNAME", n + 1>>) /\ Wanted(36, <<"KIND", KindOf(t)>>)
  BY <1>1 DEF Wanted, KindOf
<1> QED BY <1>8, <1>10, <1>11, OneIsWanted, ThreeAreWanted

LEMMA PairIsRead ==
    ASSUME NEW n \in Nat, n < 4096, NEW o \in Nat, o < 4096, Pair(n, o), i = 11, Numbers
    PROVE  /\ Request!Are(Request!Top, <<<<"LINKINFO", 0>>, <<"IFNAME", o + 1>>>>)
           /\ Request!Top[1] = 32
           /\ Request!Are(Request!Inside(32, 0), <<<<"KIND", 5>>, <<"DATA", 0>>>>)
           /\ Request!Inside(32, 0)[2] = 48
           /\ Request!Are(Request!Inside(48, 0), <<<<"PEER", 0>>>>)
           /\ Request!Inside(48, 0)[1] = 52
           /\ Request!Are(Request!Inside(52, 16), <<<<"IFNAME", n + 1>>>>)
<1>0. PICK a : a = 72 + Size(n)
  OBVIOUS
<1>1. /\ Is(32, "LINKINFO", 40 + Size(n)) /\ Is(36, "KIND", 4 + 5)
      /\ Is(48, "DATA", 24 + Size(n)) /\ Is(52, "PEER", 20 + Size(n))
      /\ Is(72, "IFNAME", 4 + (n + 1)) /\ Is(a, "IFNAME", 4 + (o + 1))
      /\ len = a + Size(o)
  BY <1>0 DEF Pair
<1>2. /\ Size(n) \in Nat /\ Size(n) >= 4 + (n + 1) /\ Size(n) <= n + 8
      /\ Size(o) \in Nat /\ Size(o) >= 4 + (o + 1) /\ Size(o) <= o + 8
      /\ Request!Align(40 + Size(n)) = 40 + Size(n)
      /\ Request!Align(24 + Size(n)) = 24 + Size(n)
      /\ Request!Align(20 + Size(n)) = 20 + Size(n)
  BY Sizes, Alignment DEF Size
<1>3. Readable(len) /\ Readable(a)
  BY <1>0, <1>1, <1>2, StartOfMessage DEF Readable, Numbers
<1>4. 32 \in Good /\ 36 \in Good /\ 48 \in Good /\ 52 \in Good /\ 72 \in Good /\ a \in Good
  <2>1. a \in 0 .. 9216
    <3>1. PICK size : size = Size(n)
      OBVIOUS
    <3>2. size \in Nat /\ size <= n + 8 /\ a = 72 + size
      BY <1>0, <1>2, <3>1
    <3> QED BY <3>2
  <2>2. /\ 32 \in 0 .. 9216 /\ 36 \in 0 .. 9216 /\ 48 \in 0 .. 9216 /\ 52 \in 0 .. 9216
        /\ 72 \in 0 .. 9216
    OBVIOUS
  <2> QED BY ONLY <2>1, <2>2, StartOfMessage DEF Good
<1>5. Request!Walk(len, len) = <<>> /\ Request!Walk(a, a) = <<>>
  BY <1>3, WalkEnd
<1>6. Request!Top = <<32, a>>
  <2>1. len = a + Request!Align(4 + (o + 1)) /\ a + (4 + (o + 1)) <= len
    BY <1>0, <1>1, <1>2 DEF Size
  <2>2. Request!Walk(a, len) = <<a>> \o Request!Walk(len, len)
    <3>1. PICK m : m = 4 + (o + 1)
      OBVIOUS
    <3>2. /\ m \in Nat /\ m >= 4 /\ Is(a, "IFNAME", m)
          /\ len = a + Request!Align(m) /\ a + m <= len
      BY <1>1, <2>1, <3>1
    <3> QED BY ONLY <1>3, <1>4, <3>2, WalkStep
  <2>3. a = 32 + Request!Align(40 + Size(n)) /\ 32 + (40 + Size(n)) <= len
    BY <1>0, <1>1, <1>2
  <2>4. Request!Walk(32, len) = <<32>> \o Request!Walk(a, len)
    <3>1. PICK m : m = 40 + Size(n)
      OBVIOUS
    <3>2. /\ m \in Nat /\ m >= 4 /\ Is(32, "LINKINFO", m)
          /\ a = 32 + Request!Align(m) /\ 32 + m <= len
      BY <1>1, <1>2, <2>3, <3>1
    <3> QED BY ONLY <1>3, <1>4, <3>2, WalkStep
  <2>5. Request!Walk(a, len) = <<a>>
    BY <1>5, <2>2, One
  <2>6. <<32>> \o <<a>> = <<32, a>>
    BY Two
  <2>7. Request!Walk(32, len) = <<32, a>>
    BY ONLY <2>4, <2>5, <2>6
  <2> QED BY <2>7, StartOfMessage DEF Request!Top
<1>7. Request!Inside(32, 0) = <<36, 48>>
  <2>1. Request!Inside(32, 0) = Request!Walk(36, a)
    <3>1. Request!Inside(32, 0) = Request!Walk(32 + 4 + 0, 32 + (40 + Size(n)))
      BY <1>1, InsideIs
    <3>2. 32 + 4 + 0 = 36 /\ 32 + (40 + Size(n)) = a
      BY <1>0, <1>2
    <3> QED BY <3>1, <3>2
  <2>2. a = 48 + Request!Align(24 + Size(n)) /\ 48 + (24 + Size(n)) <= a
    BY <1>0, <1>2
  <2>3. Request!Walk(48, a) = <<48>> \o Request!Walk(a, a)
    <3>1. PICK m : m = 24 + Size(n)
      OBVIOUS
    <3>2. /\ m \in Nat /\ m >= 4 /\ Is(48, "DATA", m)
          /\ a = 48 + Request!Align(m) /\ 48 + m <= a
      BY <1>1, <1>2, <2>2, <3>1
    <3> QED BY ONLY <1>3, <1>4, <3>2, WalkStep
  <2>4. 48 = 36 + Request!Align(4 + 5) /\ 36 + (4 + 5) <= a
    BY <1>0, <1>2, PlacesOfParts
  <2>5. Request!Walk(36, a) = <<36>> \o Request!Walk(48, a)
    <3>1. 4 + 5 \in Nat /\ 4 + 5 >= 4
      OBVIOUS
    <3>2. Is(36, "KIND", 4 + 5)
      BY <1>1
    <3> QED BY ONLY <1>3, <1>4, <2>4, <3>1, <3>2, WalkStep
  <2>6. Request!Walk(48, a) = <<48>>
    BY <1>5, <2>3, One
  <2>7. <<36>> \o <<48>> = <<36, 48>>
    BY Two
  <2> QED BY ONLY <2>1, <2>5, <2>6, <2>7
<1>8. Request!Inside(48, 0) = <<52>>
  <2>1. Request!Inside(48, 0) = Request!Walk(52, a)
    <3>1. Request!Inside(48, 0) = Request!Walk(48 + 4 + 0, 48 + (24 + Size(n)))
      BY <1>1, InsideIs
    <3>2. 48 + 4 + 0 = 52 /\ 48 + (24 + Size(n)) = a
      BY <1>0, <1>2
    <3> QED BY <3>1, <3>2
  <2>2. a = 52 + Request!Align(20 + Size(n)) /\ 52 + (20 + Size(n)) <= a
    BY <1>0, <1>2
  <2>3. Request!Walk(52, a) = <<52>> \o Request!Walk(a, a)
    <3>1. PICK m : m = 20 + Size(n)
      OBVIOUS
    <3>2. /\ m \in Nat /\ m >= 4 /\ Is(52, "PEER", m)
          /\ a = 52 + Request!Align(m) /\ 52 + m <= a
      BY <1>1, <1>2, <2>2, <3>1
    <3> QED BY ONLY <1>3, <1>4, <3>2, WalkStep
  <2> QED BY <1>5, <2>1, <2>3, One
<1>9. Request!Inside(52, 16) = <<72>>
  <2>1. Request!Inside(52, 16) = Request!Walk(72, a)
    <3>1. Request!Inside(52, 16) = Request!Walk(52 + 4 + 16, 52 + (20 + Size(n)))
      BY <1>1, InsideIs
    <3>2. 52 + 4 + 16 = 72 /\ 52 + (20 + Size(n)) = a
      BY <1>0, <1>2
    <3> QED BY <3>1, <3>2
  <2>2. a = 72 + Request!Align(4 + (n + 1)) /\ 72 + (4 + (n + 1)) <= a
    BY <1>0, <1>2 DEF Size
  <2>3. Request!Walk(72, a) = <<72>> \o Request!Walk(a, a)
    <3>1. PICK m : m = 4 + (n + 1)
      OBVIOUS
    <3>2. /\ m \in Nat /\ m >= 4 /\ Is(72, "IFNAME", m)
          /\ a = 72 + Request!Align(m) /\ 72 + m <= a
      BY <1>1, <2>2, <3>1
    <3> QED BY ONLY <1>3, <1>4, <3>2, WalkStep
  <2> QED BY <1>5, <2>1, <2>3, One
<1>10. /\ Wanted(32, <<"LINKINFO", 0>>) /\ Wanted(a, <<"IFNAME", o + 1>>)
       /\ Wanted(36, <<"KIND", 5>>) /\ Wanted(48, <<"DATA", 0>>)
       /\ Wanted(52, <<"PEER", 0>>) /\ Wanted(72, <<"IFNAME", n + 1>>)
  BY <1>1 DEF Wanted
<1>11. /\ Request!Are(<<32, a>>, <<<<"LINKINFO", 0>>, <<"IFNAME", o + 1>>>>)
       /\ Request!Are(<<36, 48>>, <<<<"KIND", 5>>, <<"DATA", 0>>>>)
  BY <1>10, TwoAreWanted
<1>12. /\ Request!Are(<<52>>, <<<<"PEER", 0>>>>)
       /\ Request!Are(<<72>>, <<<<"IFNAME", n + 1>>>>)
  BY <1>10, OneIsWanted
<1> QED BY <1>6, <1>7, <1>8, <1>9, <1>11, <1>12

\* What has been laid out of a request, and that it is sent when all of it has.
Built(t, n, o) ==
    /\ IsRequest(t, n, o)
    /\ t = "up" => i = 1 /\ len = 32
    /\ t = "move" => Move(n)
    /\ t \in {"macvlan", "ipvlan"} => Master(t, n)
    /\ t = "veth" => Pair(n, o)

MessageInv ==
    /\ Numbers
    /\ pc = "recv" => i > Len(Request!Steps(request))
    /\ \E t \in Request!Types, n \in Lengths, o \in OtherLengths : Built(t, n, o)

LEMMA LengthsAreNumbers == Lengths \subseteq Nat /\ OtherLengths \subseteq Nat
BY Inputs DEF Request!NetlinkAssumption

LEMMA InitMessage == ASSUME Request!Init PROVE MessageInv
<1>1. PICK t \in Request!Types, n \in Lengths, o \in OtherLengths : IsRequest(t, n, o)
  BY DEF Request!Init, IsRequest
<1>2. i = 1 /\ len = 32 /\ pc = "build" /\ DOMAIN header = {}
  BY StartOfMessage DEF Request!Init, Request!NoHeader
<1>3. n \in Nat /\ o \in Nat
  BY LengthsAreNumbers
<1>4. Move(n) /\ Master(t, n) /\ Pair(n, o)
  BY <1>2, <1>3 DEF Move, Master, Pair
<1>5. Built(t, n, o)
  BY <1>1, <1>2, <1>4 DEF Built
<1> QED BY <1>2, <1>5 DEF MessageInv, Numbers

LEMMA LengthOfSteps ==
    ASSUME NEW t \in Request!Types, NEW n \in Nat, NEW o \in Nat, IsRequest(t, n, o)
    PROVE  Len(Request!Steps(request)) = CASE t = "up"   -> 0
                                           [] t = "move" -> 2
                                           [] t = "veth" -> 10
                                           [] OTHER      -> 5
<1>1. CASE t = "up"
  BY <1>1 DEF IsRequest, Request!Steps
<1>2. CASE t = "move"
  BY <1>2, MoveSteps
<1>3. CASE t = "veth"
  BY <1>3, PairSteps
<1>4. CASE t \in {"macvlan", "ipvlan"}
  BY <1>4, MasterSteps
<1> QED BY <1>1, <1>2, <1>3, <1>4 DEF Request!Types

LEMMA MessageKeeps == ASSUME MessageInv, Request!Next PROVE MessageInv'
<1>1. PICK t \in Request!Types, n \in Lengths, o \in OtherLengths : Built(t, n, o)
  BY DEF MessageInv
<1>2. n \in Nat /\ o \in Nat /\ IsRequest(t, n, o) /\ Numbers
  BY <1>1, LengthsAreNumbers DEF Built, MessageInv
<1>3. CASE pc = "build" /\ i <= Len(Request!Steps(request))
  <2>1. CASE t = "up"
    BY <1>1, <1>2, <1>3, <2>1, LengthOfSteps DEF Built
  <2>2. CASE t = "move"
    <3>1. Move(n) /\ i \in 1 .. 2
      <4>1. Len(Request!Steps(request)) = 2
        BY <1>2, <1>3, <2>2, MoveSteps
      <4>2. Move(n)
        BY <1>1, <2>2 DEF Built
      <4>3. i \in 1 .. 3
        BY <4>2 DEF Move
      <4> QED BY <1>3, <4>1, <4>2, <4>3
    <3>2. Move(n)' /\ Numbers' /\ UNCHANGED <<request, pc>>
      BY <1>2, <1>3, <2>2, <3>1, MoveIsBuilt
    <3>3. Built(t, n, o)'
      BY <1>2, <2>2, <3>2 DEF Built, IsRequest
    <3> QED BY <1>3, <3>2, <3>3 DEF MessageInv
  <2>3. CASE t \in {"macvlan", "ipvlan"}
    <3>1. Master(t, n) /\ i \in 1 .. 5
      <4>1. Len(Request!Steps(request)) = 5
        BY <1>2, <1>3, <2>3, MasterSteps
      <4>2. Master(t, n)
        BY <1>1, <2>3 DEF Built
      <4>3. i \in 1 .. 6
        BY <4>2 DEF Master
      <4> QED BY <1>3, <4>1, <4>2, <4>3
    <3>2. Master(t, n)' /\ Numbers' /\ UNCHANGED <<request, pc>>
      BY <1>2, <1>3, <2>3, <3>1, MasterIsBuilt
    <3>3. Built(t, n, o)'
      BY <1>2, <2>3, <3>2 DEF Built, IsRequest
    <3> QED BY <1>3, <3>2, <3>3 DEF MessageInv
  <2>4. CASE t = "veth"
    <3>1. Pair(n, o) /\ i \in 1 .. 10
      <4>1. Len(Request!Steps(request)) = 10
        BY <1>2, <1>3, <2>4, PairSteps
      <4>2. Pair(n, o)
        BY <1>1, <2>4 DEF Built
      <4>3. i \in 1 .. 11
        BY <4>2 DEF Pair
      <4> QED BY <1>3, <4>1, <4>2, <4>3
    <3>2. Pair(n, o)' /\ Numbers' /\ UNCHANGED <<request, pc>>
      BY <1>2, <1>3, <2>4, <3>1, PairIsBuilt
    <3>3. Built(t, n, o)'
      BY <1>2, <2>4, <3>2 DEF Built, IsRequest
    <3> QED BY <1>3, <3>2, <3>3 DEF MessageInv
  <2> QED BY <2>1, <2>2, <2>3, <2>4 DEF Request!Types
<1>4. CASE Request!nl_send \/ Request!nl_recv
  <2>1. UNCHANGED <<request, i, len, header, nested>>
    BY <1>4 DEF Request!nl_send, Request!nl_recv, Request!message
  <2>2. Built(t, n, o)' /\ Numbers'
    BY <1>1, <1>2, <2>1 DEF Built, IsRequest, Move, Master, Pair, Is, Opened, Numbers
  <2>3. pc' = "recv" => i > Len(Request!Steps(request))
    BY <1>4 DEF Request!nl_send, Request!nl_recv
  <2> QED BY <2>1, <2>2, <2>3 DEF MessageInv, Request!Steps
<1> QED BY <1>3, <1>4 DEF Request!Next, Request!rtattr_append, Request!rtattr_start_nested,
           Request!rtattr_end_nested, Request!SkipIfinfo, Request!Does

LEMMA RequestRead ==
    ASSUME NamesFit, MessageInv
    PROVE  Request!ReadAsMeant
<1> SUFFICES ASSUME pc = "recv" PROVE Request!ReadAsMeant
  BY DEF Request!ReadAsMeant
<1>1. PICK t \in Request!Types, n \in Lengths, o \in OtherLengths : Built(t, n, o)
  BY DEF MessageInv
<1>2. n \in Nat /\ o \in Nat /\ n < 4096 /\ o < 4096
  BY LengthsAreNumbers DEF NamesFit
<1>3. /\ IsRequest(t, n, o) /\ Numbers /\ i > Len(Request!Steps(request))
      /\ request.type = t /\ request.name = n /\ request.out = o
  BY <1>1 DEF Built, IsRequest, MessageInv
<1>4. CASE t = "up"
  <2>1. Request!Are(Request!Top, <<>>)
    BY <1>1, <1>3, <1>4, UpIsRead DEF Built
  <2> QED BY <1>3, <1>4, <2>1 DEF Request!ReadAsMeant
<1>5. CASE t = "move"
  <2>1. Move(n) /\ i = 3
    <3>1. Len(Request!Steps(request)) = 2
      BY <1>2, <1>3, <1>5, MoveSteps
    <3>2. Move(n)
      BY <1>1, <1>5 DEF Built
    <3>3. i \in 1 .. 3
      BY <3>2 DEF Move
    <3> QED BY <1>3, <3>1, <3>2, <3>3
  <2>2. Request!Are(Request!Top, <<<<"NET_NS_PID", 4>>, <<"IFNAME", n + 1>>>>)
    BY <1>2, <1>3, <2>1, MoveIsRead
  <2> QED BY <1>3, <1>5, <2>2 DEF Request!ReadAsMeant
<1>6. CASE t \in {"macvlan", "ipvlan"}
  <2>1. Master(t, n) /\ i = 6
    <3>1. Len(Request!Steps(request)) = 5
      BY <1>2, <1>3, <1>6, MasterSteps
    <3>2. Master(t, n)
      BY <1>1, <1>6 DEF Built
    <3>3. i \in 1 .. 6
      BY <3>2 DEF Master
    <3> QED BY <1>3, <3>1, <3>2, <3>3
  <2>2. /\ Request!Are(Request!Top,
                <<<<"LINKINFO", 0>>, <<"LINK", 4>>, <<"IFNAME", n + 1>>>>)
        /\ Request!Are(Request!Inside(Request!Top[1], 0), <<<<"KIND", KindOf(t)>>>>)
    <3>1. n \in Nat /\ n < 4096 /\ Numbers
      BY <1>2, <1>3
    <3> QED BY ONLY <1>6, <2>1, <3>1, MasterIsRead
  <2>3. Request!KindLength(t) = KindOf(t)
    BY <1>6 DEF Request!KindLength, KindOf
  <2> QED BY <1>3, <1>6, <2>2, <2>3 DEF Request!ReadAsMeant
<1>7. CASE t = "veth"
  <2>1. Pair(n, o) /\ i = 11
    <3>1. Len(Request!Steps(request)) = 10
      BY <1>2, <1>3, <1>7, PairSteps
    <3>2. Pair(n, o)
      BY <1>1, <1>7 DEF Built
    <3>3. i \in 1 .. 11
      BY <3>2 DEF Pair
    <3> QED BY <1>3, <3>1, <3>2, <3>3
  <2>2. /\ Request!Are(Request!Top, <<<<"LINKINFO", 0>>, <<"IFNAME", o + 1>>>>)
        /\ Request!Top[1] = 32
        /\ Request!Are(Request!Inside(32, 0), <<<<"KIND", 5>>, <<"DATA", 0>>>>)
        /\ Request!Inside(32, 0)[2] = 48
        /\ Request!Are(Request!Inside(48, 0), <<<<"PEER", 0>>>>)
        /\ Request!Inside(48, 0)[1] = 52
        /\ Request!Are(Request!Inside(52, 16), <<<<"IFNAME", n + 1>>>>)
    BY <1>2, <1>3, <2>1, PairIsRead
  <2>3. Request!KindLength(t) = 5 /\ Request!Ifinfo = 16
    BY <1>7 DEF Request!KindLength, Request!Ifinfo
  <2> QED BY <1>3, <1>7, <2>2, <2>3 DEF Request!ReadAsMeant
<1> QED BY <1>4, <1>5, <1>6, <1>7 DEF Request!Types

\* Every netlink request says what it is to say when the kernel reads it, for any set of
\* names of interfaces that the message has room for; the kernel's have less than 16
\* characters (nl.c:41-64, netif.c:173-315).
THEOREM RequestsAreRead == ASSUME NamesFit PROVE Spec => []ReadAsMeant
<1> DEFINE Inv == part = "request" => MessageInv
<1>1. Init => Inv
  BY InitMessage DEF Init
<1>2. Inv /\ [Next]_vars => Inv'
  <2> SUFFICES ASSUME Inv, [Next]_vars, part' = "request" PROVE MessageInv'
    OBVIOUS
  <2>1. CASE RequestStep
    BY <2>1, MessageKeeps DEF RequestStep
  <2>2. CASE UNCHANGED vars
    <3>1. MessageInv /\ UNCHANGED <<request, pc, i, len, header, nested>>
      BY <2>2 DEF vars, requestVars
    <3>2. PICK t \in Request!Types, n \in Lengths, o \in OtherLengths : Built(t, n, o)
      BY <3>1 DEF MessageInv
    <3>3. Built(t, n, o)'
      BY <3>1, <3>2 DEF Built, IsRequest, Move, Master, Pair, Is, Opened
    <3> QED BY <3>1, <3>3 DEF MessageInv, Numbers, Request!Steps
  <2>3. CASE LineStep \/ OptlistStep \/ CapsStep \/ NetifStep \/ UserStep
    BY <2>3 DEF LineStep, OptlistStep, CapsStep, NetifStep, UserStep
  <2> QED BY <2>1, <2>2, <2>3 DEF Next
<1>3. Inv => ReadAsMeant
  BY RequestRead DEF ReadAsMeant
<1> QED BY <1>1, <1>2, <1>3, PTL DEF Spec
=============================================================================
