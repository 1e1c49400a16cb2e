-------------------------------- MODULE Path --------------------------------
(***************************************************************************)
(* src/path.c: path_compare() and path_prefix_root() as they walk the      *)
(* characters of their arguments, against what they mean for the           *)
(* components of a path.  A character is a number, and a path a sequence   *)
(* of them, as memcmp() sees it.                                           *)
(***************************************************************************)
EXTENDS Naturals, Integers, SequencesExt

CONSTANTS
    Letters,        \* characters other than the slash
    MaxLen          \* bound: the length of a path

Slash == 47

ASSUME PathAssumption == Letters \subseteq Nat \ {0, Slash} /\ MaxLen \in Nat

Paths == BoundedSeq(Letters \cup {Slash}, MaxLen)

Absolute(p) == p # <<>> /\ p[1] = Slash

\* The first place from i on where p has no slash, or its end.
AfterSlashes(p, i) ==
    CHOOSE j \in i .. Len(p) + 1 :
        /\ j > Len(p) \/ p[j] # Slash
        /\ \A k \in i .. j - 1 : p[k] = Slash

\* The first place from i on where p has a slash, or its end.
AfterWord(p, i) ==
    CHOOSE j \in i .. Len(p) + 1 :
        /\ j > Len(p) \/ p[j] = Slash
        /\ \A k \in i .. j - 1 : p[k] # Slash

Sign(n) == IF n > 0 THEN 1 ELSE IF n < 0 THEN -1 ELSE 0

\* memcmp() of words of the same length.
memcmp(u, v) ==
    LET differ == {i \in DOMAIN u : u[i] # v[i]} IN
    IF differ = {} THEN 0
    ELSE LET i == CHOOSE i \in differ : \A j \in differ : i <= j IN Sign(u[i] - v[i])

\* Two words: by their characters, and the shorter one first.
CompareWords(u, v) ==
    LET n == IF Len(u) < Len(v) THEN Len(u) ELSE Len(v)
        d == memcmp(SubSeq(u, 1, n), SubSeq(v, 1, n))
    IN IF d # 0 THEN d ELSE Sign(Len(u) - Len(v))

\* Mutant: nothing tells a relative path from an absolute one.
AbsoluteFirst(p, q) == 0

\* A relative path is never equal to an absolute one.
RelativeFirst(p, q) ==
    IF Absolute(p) = Absolute(q) THEN 0 ELSE IF Absolute(p) THEN 1 ELSE -1

path_compare(p, q) ==
    LET walk[i \in 1 .. Len(p) + 1] ==
            [j \in 1 .. Len(q) + 1 |->
                LET x  == AfterSlashes(p, i)
                    y  == AfterSlashes(q, j)
                    x2 == AfterWord(p, x)
                    y2 == AfterWord(q, y)
                    d  == CompareWords(SubSeq(p, x, x2 - 1), SubSeq(q, y, y2 - 1))
                IN  IF x > Len(p) /\ y > Len(q) THEN 0
                    ELSE IF x > Len(p) THEN -1
                    ELSE IF y > Len(q) THEN 1
                    ELSE IF d # 0 THEN d ELSE walk[x2][y2]]
    IN  IF RelativeFirst(p, q) # 0 THEN RelativeFirst(p, q) ELSE walk[1][1]

\* while (path[0] == '/' && path[1] == '/') path++;
OneSlash(p) ==
    IF Absolute(p) THEN SubSeq(p, AfterSlashes(p, 1) - 1, Len(p)) ELSE p

\* The end of the root without its slashes.
Trimmed(r) ==
    LET n == CHOOSE n \in 0 .. Len(r) :
                 /\ n = 0 \/ r[n] # Slash
                 /\ \A k \in n + 1 .. Len(r) : r[k] = Slash
    IN  SubSeq(r, 1, n)

\* Mutant: the slash between the two is taken for granted.
JoinPlain(r, p) == Trimmed(r) \o p

Join(r, p) == Trimmed(r) \o (IF Absolute(p) THEN <<>> ELSE <<Slash>>) \o p

path_prefix_root(root, path) ==
    LET p == OneSlash(path) IN
    IF root = <<>> \/ path_compare(root, <<Slash>>) = 0 \/ path_compare(root, p) = 0
    THEN p
    ELSE Join(root, p)

-----------------------------------------------------------------------------
(* A call of each with the arguments a and b.                              *)

VARIABLES
    a, b,           \* the arguments
    order, joined   \* what path_compare() and path_prefix_root() return

vars == <<a, b, order, joined>>

Unknown == 2

Init ==
    /\ a \in Paths /\ b \in Paths
    /\ order = Unknown /\ joined = <<>>

Call ==
    /\ order = Unknown
    /\ order' = path_compare(a, b)
    /\ joined' = path_prefix_root(a, b)
    /\ UNCHANGED <<a, b>>

Spec == Init /\ [][Call]_vars

-----------------------------------------------------------------------------
(* Properties.                                                             *)

Returned == order # Unknown

\* The components of a path: what is left of it when it is cut at its slashes.  They
\* are read from its end, a character at a time: each goes before the component it
\* touches, or is one of its own.
Components(p) ==
    LET from[i \in 1 .. Len(p) + 1] ==
            IF i > Len(p) THEN <<>>
            ELSE IF p[i] = Slash THEN from[i + 1]
            ELSE IF i = Len(p) \/ p[i + 1] = Slash THEN <<<<p[i]>>>> \o from[i + 1]
            ELSE <<<<p[i]>> \o Head(from[i + 1])>> \o Tail(from[i + 1])
    IN  from[1]

\* path_compare() orders places: it calls two paths equal exactly if they name the
\* same place, however many slashes they have, and never one absolute and one
\* relative; it agrees with itself whichever way round it is asked; and a directory
\* comes before what is in it (path.c:42-75).
PlacesOrdered ==
    Returned =>
        /\ order = 0 <=> Absolute(a) = Absolute(b) /\ Components(a) = Components(b)
        /\ path_compare(b, a) = -order
        /\ Absolute(a) = Absolute(b) /\ IsStrictPrefix(Components(a), Components(b))
               => order = -1

\* path_prefix_root() names the path below the root, with the root's components and then
\* those of the path, whatever slashes either has.  It is absolute where the root is, but
\* below "/" where the path is: a relative one stays relative.  It leaves one path alone,
\* the root itself (path.c:93-96).
PrefixIsBelow ==
    Returned /\ a # <<>> /\ order # 0 =>
        /\ Components(joined) = Components(a) \o Components(b)
        /\ Absolute(joined) = IF Components(a) = <<>> THEN Absolute(b) ELSE Absolute(a)
=============================================================================
