------------------------------ MODULE Optlist ------------------------------
(***************************************************************************)
(* The values of --mount and --user-map, lists separated by colons: how    *)
(* split_str() (src/util.c) cuts them, what validate_optlist() and main()  *)
(* (src/pflask.c) and mount_add_from_spec() (src/mount.c) make of them.    *)
(*                                                                         *)
(* A value is the sequence of its fields, between the colons; the string   *)
(* of no characters is <<Empty>>.  Numbers are 64 bits wide where they are *)
(* read and less where they are kept.                                      *)
(***************************************************************************)
EXTENDS Naturals, Sequences, FiniteSets

CONSTANTS
    MountValues,    \* values of --mount
    MapValues,      \* values of --user-map
    Empty,          \* a field of no characters
    Paths,          \* fields that are absolute paths
    Number,         \* what strtoul() makes of a field, for those it can read
    IdBits          \* width of an id

\* No string at all.
Null == "null"

OptlistAssumption ==
    /\ IdBits \in Nat /\ Empty \notin Paths
    /\ Empty \in DOMAIN Number /\ Number[Empty] = 0
    /\ \A f \in DOMAIN Number : Number[f] \in Nat
    /\ MountValues \cup MapValues \subseteq Seq(STRING \ {Null}) \ {<<>>}

VARIABLES
    option, value,  \* the option and its value
    pc,
    entry           \* what the value stands for

vars == <<option, value, pc, entry>>

Init ==
    /\ \/ option = "mount" /\ value \in MountValues
       \/ option = "user-map" /\ value \in MapValues
    /\ pc = "validate" /\ entry = <<>>

Ends(how, what) ==
    /\ pc' = how
    /\ entry' = what
    /\ UNCHANGED <<option, value>>

\* strtok() skips empty fields; without any other it finds one token, Null.
Tokens(v)   == {i \in DOMAIN v : v[i] # Empty}
Token(v, n) == CHOOSE i \in Tokens(v) : Cardinality({j \in Tokens(v) : j <= i}) = n
split_str(v) ==
    IF Tokens(v) = {} THEN <<Null>>
    ELSE [n \in 1 .. Cardinality(Tokens(v)) |-> v[Token(v, n)]]

Opts == split_str(value)

\* A value of no characters is not looked at; a Null is looked into.
validate_optlist ==
    /\ pc = "validate"
    /\ IF value = <<Empty>> THEN Ends("parse", <<>>)
       ELSE IF Opts[1] = Null THEN Ends("crashed", <<>>)
       ELSE IF \E i \in DOMAIN Opts : Opts[i] = Empty THEN Ends("refused", <<>>)
       ELSE Ends("parse", <<>>)

\* Words that begin with bind are binds, for bind-ro the word has to be the same.
Binds == {"bind", "bind-ro", "bindro"}

\* Mutant: the number of fields is not looked at.
EnoughAlways(n) == TRUE

Enough(n) == Len(Opts) >= n

Absolute(is) == \A i \in is : i \in DOMAIN Opts => Opts[i] \in Paths

Field(i) == IF i \in DOMAIN Opts THEN Opts[i] ELSE Null

MountEntry(n, word) ==
    IF Enough(n) /\ Absolute(2 .. n)
    THEN Ends("accepted", <<word>> \o [i \in 1 .. n - 1 |-> Field(i + 1)])
    ELSE Ends("refused", <<>>)

mount_add_from_spec ==
    /\ pc = "parse" /\ option = "mount"
    /\ CASE Opts[1] = Null      -> Ends("crashed", <<>>)
         [] Opts[1] \in Binds   -> MountEntry(3, IF Opts[1] = "bind-ro" THEN "bind-ro" ELSE "bind")
         [] Opts[1] = "overlay" -> MountEntry(4, "overlay")
         [] Opts[1] = "tmp"     -> MountEntry(2, "tmp")
         [] OTHER               -> Ends("refused", <<>>)

\* strtoul() three times, on the value itself: no field more, none less.
Readable == Len(value) = 3 /\ \A i \in 1 .. 3 : value[i] \in DOMAIN Number

Id(f) == Number[f] % 2 ^ IdBits

user_map ==
    /\ pc = "parse" /\ option = "user-map"
    /\ IF Readable
       THEN Ends("accepted", <<Id(value[1]), Id(value[2]), Number[value[3]]>>)
       ELSE Ends("refused", <<>>)

Next == validate_optlist \/ mount_add_from_spec \/ user_map

Spec == Init /\ [][Next]_vars

-----------------------------------------------------------------------------
(* Properties.                                                             *)

\* Every variable has its type.
TypeOK ==
    /\ option \in {"mount", "user-map"}
    /\ pc \in {"validate", "parse", "accepted", "refused", "crashed"}
    /\ entry # <<>> <=> pc = "accepted"
    /\ pc = "accepted" /\ option = "user-map" => \A i \in 1 .. 2 : entry[i] < 2 ^ IdBits

NoEmptyField == \A i \in DOMAIN value : value[i] # Empty

\* A value is crashed on only if it has nothing but colons, and if all of it was
\* written and understood then each field has its meaning: the fields of a mount are
\* there and absolute, and none is left of an id map (mount.c:94-131,
\* pflask.c:140-160).
FieldsHaveMeaning ==
    /\ pc = "crashed" => \A i \in DOMAIN value : value[i] = Empty
    /\ pc = "accepted" /\ option = "mount" =>
           \A i \in 2 .. Len(entry) :
               entry[i] \in Paths /\ (NoEmptyField => entry[i] = value[i])
    /\ pc = "accepted" /\ option = "user-map" =>
           /\ Len(value) = 3
           /\ \A i \in 1 .. 3 : Number[value[i]] < 2 ^ IdBits => entry[i] = Number[value[i]]
=============================================================================
