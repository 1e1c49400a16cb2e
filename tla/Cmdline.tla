------------------------------ MODULE Cmdline ------------------------------
(***************************************************************************)
(* The command line parser (src/cmdline.c): options that may be given      *)
(* once, flags, and options that may be given many times with many values, *)
(* separated by commas, each time.  A comma after a backslash is part of   *)
(* the value.                                                              *)
(*                                                                         *)
(* The values of a multiple option are collected in a linked list, newest  *)
(* first, which is turned into an array at the end.  A string is a         *)
(* sequence of characters, of which the comma and the backslash matter.    *)
(* The default of --caps is left out: its count is 0, and nobody reads it. *)
(***************************************************************************)
EXTENDS Naturals, FiniteSets, SequencesExt

CONSTANTS
    Multiple,       \* options like --mount: many times, many values
    Single,         \* options like --chroot: once, one value
    Integer,        \* those of them with a number for a value: --attach
    Flags,          \* options like --detach: once, without a value
    Comma, Backslash, Letters,
    Digits,         \* the letters that are numbers
    CommandLines    \* command lines: sequences of options as getopt_long() finds them

Chars  == Letters \cup {Comma, Backslash}
Values == Seq(Chars)

\* An option without a value, as --netif may be.
Null == <<"null">>

Once == Single \cup Flags

\* An option with its value: a number, or not, for an integer; or something that is
\* no option, or --help.
Occurrence(a) ==
    CASE a.opt \in Multiple -> a.val \in Values \cup {Null}
      [] a.opt \in Single   -> a.val \in Letters
      [] OTHER              -> a.opt \in Flags \cup {"invalid", "help"} /\ a.val = Null

CmdlineAssumption ==
    /\ Digits \subseteq Letters /\ Integer \subseteq Single /\ Multiple \cap Single = {}
    /\ Flags \cap (Multiple \cup Single) = {}
    /\ {"chroot", "user"} \subseteq Single /\ "ephemeral" \in Flags
    /\ Comma \notin Letters /\ Backslash \notin Letters /\ Comma # Backslash
    /\ "null" \notin Chars
    /\ \A line \in CommandLines :
           /\ line \in Seq({line[n] : n \in DOMAIN line})
           /\ \A n \in DOMAIN line : Occurrence(line[n])

VARIABLES
    argv,       \* the command line
    pc, at,     \* the step, and the place in argv
    rest,       \* what is left of the value of a multiple option, or Null
    lists,      \* struct generic_list, by option
    prev,       \* local_args_info: how many values each option has so far
    given, arg  \* args_info

vars == <<argv, pc, at, rest, lists, prev, given, arg>>

Default(o) ==
    IF o \in Multiple THEN <<>> ELSE IF o \in Flags THEN FALSE
    ELSE IF o = "user" THEN "root" ELSE "null"

Options == Multiple \cup Once

Init ==
    /\ argv \in CommandLines
    /\ pc = "getopt" /\ at = 1 /\ rest = Null
    /\ lists = [o \in Multiple |-> <<>>]
    /\ prev = [o \in Options |-> 0] /\ given = [o \in Options |-> 0]
    /\ arg = [o \in Options |-> Default(o)]

Opt == argv[at].opt
Val == argv[at].val

Ends(how) ==
    /\ pc' = how
    /\ UNCHANGED <<argv, at, rest, lists, prev, given, arg>>

-----------------------------------------------------------------------------
(* Options that may be given once.                                         *)

\* strtol() has to take all of it.
Numeric(val) == val \in Digits

CanUpdate == prev[Opt] = 0 /\ (Opt \in Integer => Numeric(Val))

\* Without override an option that has a value keeps it.
update_arg ==
    /\ pc = "getopt" /\ at <= Len(argv) /\ Opt \in Once
    /\ IF CanUpdate
       THEN /\ at' = at + 1
            /\ IF given[Opt] > 0 THEN UNCHANGED <<prev, given, arg>>
               ELSE /\ prev' = [prev EXCEPT ![Opt] = @ + 1]
                    /\ given' = [given EXCEPT ![Opt] = @ + 1]
                    /\ arg' = [arg EXCEPT ![Opt] = IF Opt \in Flags THEN ~@ ELSE Val]
            /\ UNCHANGED <<argv, pc, rest, lists>>
       ELSE Ends("failed")

-----------------------------------------------------------------------------
(* Options with many values.                                               *)

\* Where a value ends: at a comma that has no backslash before it.  What is in
\* front of the string, where the code looks, too, is none.
EndsAt(s, i) == s[i] = Comma /\ (i = 1 \/ s[i - 1] # Backslash)

FirstEnd(s) ==
    LET ends == {i \in DOMAIN s : EndsAt(s, i)} IN
    IF ends = {} THEN Len(s) + 1 ELSE CHOOSE i \in ends : \A j \in ends : i <= j

\* Places, from the first to the last.
InOrder(S) == [n \in 1 .. Cardinality(S) |-> CHOOSE i \in S : Cardinality({j \in S : j <= i}) = n]

\* The backslashes before commas are dropped.
Unescaped(s) ==
    LET kept == InOrder({i \in DOMAIN s : ~(s[i] = Backslash /\ i < Len(s) /\ s[i + 1] = Comma)})
    IN  [n \in DOMAIN kept |-> s[kept[n]]]

get_multiple_arg_token(s) ==
    IF s = Null THEN Null ELSE Unescaped(SubSeq(s, 1, FirstEnd(s) - 1))

\* Nothing comes after a comma that is the last character.
get_multiple_arg_token_next(s) ==
    IF s = Null \/ FirstEnd(s) >= Len(s) THEN Null ELSE SubSeq(s, FirstEnd(s) + 1, Len(s))

\* add_node() and update_arg() for one value.
AddNode(s) ==
    /\ lists' = [lists EXCEPT ![Opt] = <<get_multiple_arg_token(s)>> \o @]
    /\ prev' = [prev EXCEPT ![Opt] = @ + 1]
    /\ rest' = get_multiple_arg_token_next(s)
    /\ IF rest' # Null THEN pc' = "tokens" /\ UNCHANGED at
       ELSE pc' = "getopt" /\ at' = at + 1
    /\ UNCHANGED <<argv, given, arg>>

update_multiple_arg_temp ==
    /\ at <= Len(argv) /\ Opt \in Multiple
    /\ \/ pc = "getopt" /\ AddNode(Val)
       \/ pc = "tokens" /\ AddNode(rest)

\* Mutant: the array is filled from its beginning.
ArrayBackwards(o) == lists[o]

\* update_multiple_arg(): from the end of the array, as the list is newest first.
Array(o) == [n \in 1 .. prev[o] |-> lists[o][prev[o] - n + 1]]

update_multiple_arg ==
    /\ pc = "getopt" /\ at > Len(argv)
    /\ pc' = "check"
    /\ arg' = [o \in Options |-> IF o \in Multiple THEN Array(o) ELSE arg[o]]
    /\ given' = [o \in Options |-> IF o \in Multiple THEN prev[o] ELSE given[o]]
    /\ lists' = [o \in Multiple |-> <<>>]
    /\ prev' = [o \in Options |-> IF o \in Multiple THEN 0 ELSE prev[o]]
    /\ UNCHANGED <<argv, at, rest>>

\* No option has a minimum or a maximum of occurrences; one depends on another.
cmdline_parser_required2 ==
    /\ pc = "check"
    /\ Ends(IF given["ephemeral"] > 0 /\ given["chroot"] = 0 THEN "failed" ELSE "done")

InvalidOption == pc = "getopt" /\ at <= Len(argv) /\ Opt = "invalid" /\ Ends("failed")
PrintHelp     == pc = "getopt" /\ at <= Len(argv) /\ Opt = "help" /\ Ends("exited")

Next ==
    \/ update_arg \/ update_multiple_arg_temp \/ update_multiple_arg
    \/ cmdline_parser_required2 \/ InvalidOption \/ PrintHelp

Spec == Init /\ [][Next]_vars

-----------------------------------------------------------------------------
(* Properties.                                                             *)

\* Every variable has its type.
TypeOK ==
    /\ pc \in {"getopt", "tokens", "check", "done", "failed", "exited"}
    /\ at \in 1 .. Len(argv) + 1 /\ rest \in Values \cup {Null}
    /\ rest # Null <=> pc = "tokens"
    /\ \A o \in Multiple : lists[o] \in Seq(Values \cup {Null}) /\ DOMAIN arg[o] = 1 .. given[o]
    /\ prev \in [Options -> Nat] /\ given \in [Options -> Nat]
    /\ DOMAIN arg = Options

Given(o) == LET places == InOrder({n \in DOMAIN argv : argv[n].opt = o})
            IN  [n \in DOMAIN places |-> argv[places[n]]]

\* The values in a string, from the commas in it: those that stand for themselves
\* cut it, and the piece after the last one counts if it is not empty.
Cuts(s) == {0} \cup {i \in DOMAIN s : s[i] = Comma /\ (i > 1 => s[i - 1] # Backslash)}
Pieces(s) ==
    LET from == InOrder({i \in Cuts(s) : i = 0 \/ i < Len(s)})
        Till(i) == LET next == {j \in Cuts(s) \cup {Len(s) + 1} : j > i}
                   IN  CHOOSE j \in next : \A l \in next : j <= l
    IN  [n \in DOMAIN from |-> Unescaped(SubSeq(s, from[n] + 1, Till(from[n]) - 1))]

ValuesOf(a) == IF a.val = Null THEN <<Null>> ELSE Pieces(a.val)

\* A multiple option has the values of all its occurrences, in the order of the
\* command line, cut at the commas that are not escaped: the order of mounts,
\* capabilities and interfaces is the user's (cmdline.c:282, 453-530, 806-846, 897).
OrderKept ==
    pc \in {"check", "done"} => \A o \in Multiple :
        LET occ == Given(o) IN
        /\ arg[o] = FlattenSeq([n \in DOMAIN occ |-> ValuesOf(occ[n])])
        /\ given[o] = Len(arg[o])

\* A command line that is accepted gives no other option twice, and each of them
\* the value it has there, or its default; the container that is ephemeral has a
\* root of its own (cmdline.c:724-795, 681-686).
GivenOnce ==
    pc = "done" =>
        /\ \A o \in Once : LET occ == Given(o) IN
               /\ Len(occ) <= 1 /\ given[o] = Len(occ)
               /\ o \in Single => arg[o] = IF occ = <<>> THEN Default(o) ELSE occ[1].val
               /\ o \in Flags => (arg[o] <=> occ # <<>>)
        /\ arg["ephemeral"] => given["chroot"] = 1
=============================================================================
