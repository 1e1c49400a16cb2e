------------------------------ MODULE Netlink ------------------------------
(***************************************************************************)
(* The netlink requests of src/netif.c and how src/nl.c lays them out: a   *)
(* header, a struct ifinfomsg, and attributes, each with a length of its   *)
(* own and aligned, some of them around others.  The receiver goes by the  *)
(* lengths alone.                                                          *)
(*                                                                         *)
(* A message is its length and the attribute headers by their place in it; *)
(* of the data of an attribute its length is kept.                         *)
(***************************************************************************)
EXTENDS Naturals, Sequences

CONSTANTS
    Lengths,        \* lengths of interface names
    OtherLengths    \* lengths of the name of the other end of a pair

NetlinkAssumption == Lengths \subseteq Nat /\ OtherLengths \subseteq Nat

VARIABLES
    request,    \* what is asked for: [type, name, out], the names as their lengths
    pc, i,      \* the step, and the place in what the function does
    len,        \* nlmsg_len
    header,     \* attribute headers, by place: [type, len]
    nested,     \* the places that rtattr_start_nested() returned, by type
    answer      \* of the kernel: none, ack or error

message == <<len, header, nested>>
vars    == <<request, pc, i, message, answer>>

Types == {"up", "move", "macvlan", "ipvlan", "veth"}

\* NLMSG_ALIGN() and RTA_ALIGN(); NLMSG_LENGTH(n) and RTA_LENGTH(n).
Align(n)        == ((n + 3) \div 4) * 4
NLMSG_LENGTH(n) == 16 + n
RTA_LENGTH(n)   == 4 + n
Ifinfo          == 16       \* sizeof(struct ifinfomsg)
Word            == 4

\* The message grows up to this: NLMSG_GOOD_SIZE.
GoodSize == 36 * 256

Attr(attr, n) == [op |-> "append", attr |-> attr, size |-> n]
Start(attr)      == [op |-> "start", attr |-> attr, size |-> 0]
End(attr)        == [op |-> "end", attr |-> attr, size |-> 0]
Skip(n)          == [op |-> "skip", attr |-> "none", size |-> n]

\* Names go with the character that ends them.
Steps(r) ==
    LET Name(n) == Attr("IFNAME", n + 1)
        OnMaster(kind) == <<Start("LINKINFO"), Attr("KIND", kind), End("LINKINFO"),
                            Attr("LINK", Word), Name(r.name)>>
    IN  CASE r.type = "up"      -> <<>>
          [] r.type = "move"    -> <<Attr("NET_NS_PID", Word), Name(r.name)>>
          [] r.type = "macvlan" -> OnMaster(8)
          [] r.type = "ipvlan"  -> OnMaster(7)
          [] r.type = "veth"    ->
                <<Start("LINKINFO"), Attr("KIND", 5), Start("DATA"), Start("PEER"),
                  Skip(Ifinfo), Name(r.name), End("PEER"), End("DATA"), End("LINKINFO"),
                  Name(r.out)>>

NoHeader == [place \in {} |-> <<>>]

Init ==
    /\ request \in [type : Types, name : Lengths, out : OtherLengths]
    /\ pc = "build" /\ i = 1
    /\ len = NLMSG_LENGTH(Ifinfo)
    /\ header = NoHeader
    /\ nested = [attr \in {} |-> 0]
    /\ answer = "none"

Op    == Steps(request)[i]
Does(op) == pc = "build" /\ i <= Len(Steps(request)) /\ Op.op = op

\* Where the next attribute goes.
NLMSG_TAIL == Align(len)

Put(attr, place, size) == [q \in DOMAIN header \cup {place} |->
                              IF q = place THEN [type |-> attr, len |-> size] ELSE header[q]]

-----------------------------------------------------------------------------
rtattr_append ==
    /\ Does("append")
    /\ header' = Put(Op.attr, NLMSG_TAIL, RTA_LENGTH(Op.size))
    /\ len' = NLMSG_TAIL + Align(RTA_LENGTH(Op.size))
    /\ i' = i + 1
    /\ UNCHANGED <<request, pc, nested, answer>>

rtattr_start_nested ==
    /\ Does("start")
    /\ nested' = [a \in DOMAIN nested \cup {Op.attr} |->
                     IF a = Op.attr THEN NLMSG_TAIL ELSE nested[a]]
    /\ header' = Put(Op.attr, NLMSG_TAIL, RTA_LENGTH(0))
    /\ len' = NLMSG_TAIL + RTA_LENGTH(0)
    /\ i' = i + 1
    /\ UNCHANGED <<request, pc, answer>>

\* Mutant: the length without the header.
EndNestedData ==
    /\ Does("end")
    /\ header' = [header EXCEPT ![nested[Op.attr]].len = NLMSG_TAIL - nested[Op.attr] - 4]
    /\ i' = i + 1
    /\ UNCHANGED <<request, pc, len, nested, answer>>

rtattr_end_nested ==
    /\ Does("end")
    /\ header' = [header EXCEPT ![nested[Op.attr]].len = NLMSG_TAIL - nested[Op.attr]]
    /\ i' = i + 1
    /\ UNCHANGED <<request, pc, len, nested, answer>>

\* The struct ifinfomsg of the other end of a pair, which nobody fills in.
SkipIfinfo ==
    /\ Does("skip")
    /\ len' = len + Op.size
    /\ i' = i + 1
    /\ UNCHANGED <<request, pc, header, nested, answer>>

\* The kernel takes the message and has an answer to it at once.
nl_send ==
    /\ pc = "build" /\ i > Len(Steps(request))
    /\ pc' = "recv"
    /\ answer' \in {"ack", "error"}
    /\ UNCHANGED <<request, i, message>>

\* What is read of the answer, which may be longer: as much as was sent.  The code
\* in it comes first after the header.
CodeRead == len >= NLMSG_LENGTH(Word)

\* Mutant: what sendmsg() said is enough.
RecvNothing ==
    /\ pc = "recv"
    /\ pc' = "ok"
    /\ UNCHANGED <<request, i, message, answer>>

\* Otherwise what the request had there is taken for the code.
nl_recv ==
    /\ pc = "recv"
    /\ pc' \in IF CodeRead THEN {IF answer = "error" THEN "failed" ELSE "ok"}
               ELSE {"failed", "ok"}
    /\ UNCHANGED <<request, i, message, answer>>

Next ==
    \/ rtattr_append \/ rtattr_start_nested \/ rtattr_end_nested \/ SkipIfinfo
    \/ nl_send \/ nl_recv

Spec == Init /\ [][Next]_vars

-----------------------------------------------------------------------------
(* Properties.                                                             *)

\* Every variable has its type, and the message fits in its memory.
TypeOK ==
    /\ pc \in {"build", "recv", "ok", "failed"} /\ answer \in {"none", "ack", "error"}
    /\ i \in 1 .. Len(Steps(request)) + 1
    /\ len \in 0 .. GoodSize
    /\ \A place \in DOMAIN header :
           place = Align(place) /\ header[place].len >= 4 /\ place + header[place].len <= Align(len)

\* The attributes from one place to another, as the kernel walks them: the places
\* of their headers, or Bad where one is not there or does not fit.
Bad == <<0>>
Walk(from, to) ==
    LET next(o) == o + Align(header[o].len)
        walk[o \in 0 .. GoodSize] ==
            IF to - o < 4 \/ o >= to THEN <<>>
            ELSE IF o \notin DOMAIN header THEN Bad
            ELSE IF header[o].len < 4 \/ header[o].len > to - o THEN Bad
            ELSE <<o>> \o walk[next(o)]
    IN  walk[from]

\* What an attribute has inside, from its data on.
Inside(o, skip) == Walk(o + 4 + skip, o + header[o].len)

Attributes(places) ==
    [n \in DOMAIN places |-> <<header[places[n]].type, header[places[n]].len - 4>>]

Known(places) == \A n \in DOMAIN places : places[n] \in DOMAIN header

Top == Walk(NLMSG_LENGTH(Ifinfo), len)

\* An attribute list of exactly these types, and data of exactly these lengths
\* where a length is given.
Are(places, wanted) ==
    /\ Known(places) /\ Len(places) = Len(wanted)
    /\ \A n \in DOMAIN places : LET a == Attributes(places)[n] IN
           a[1] = wanted[n][1] /\ (wanted[n][2] # 0 => a[2] = wanted[n][2])

KindLength(type) == IF type = "macvlan" THEN 8 ELSE IF type = "ipvlan" THEN 7 ELSE 5

\* Every request says what it is to say when the kernel reads it, for names of any
\* length: the attributes that are meant, one within the other as they are meant,
\* with nothing between or behind them (nl.c:41-64, netif.c:173-315).
ReadAsMeant ==
    LET name == <<"IFNAME", request.name + 1>>
        out  == <<"IFNAME", request.out + 1>>
        kind == <<"KIND", KindLength(request.type)>>
    IN  pc = "recv" =>
        CASE request.type = "up"   -> Are(Top, <<>>)
          [] request.type = "move" -> Are(Top, <<<<"NET_NS_PID", 4>>, name>>)
          [] request.type = "veth" ->
                /\ Are(Top, <<<<"LINKINFO", 0>>, out>>)
                /\ Are(Inside(Top[1], 0), <<kind, <<"DATA", 0>>>>)
                /\ LET data == Inside(Top[1], 0)[2] IN
                   /\ Are(Inside(data, 0), <<<<"PEER", 0>>>>)
                   /\ Are(Inside(Inside(data, 0)[1], Ifinfo), <<name>>)
          [] OTHER ->
                /\ Are(Top, <<<<"LINKINFO", 0>>, <<"LINK", 4>>, name>>)
                /\ Are(Inside(Top[1], 0), <<kind>>)

\* A request that the kernel refuses is never taken for one that it has carried
\* out, though only a part of the answer is read (nl.c:112-135, netif.c:189-191).
RefusalHeard == pc = "ok" => answer = "ack"
=============================================================================
