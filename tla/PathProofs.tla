----------------------------- MODULE PathProofs -----------------------------
(***************************************************************************)
(* path_compare() and path_prefix_root(), for any characters and paths of  *)
(* any length: what Path checks of them, as theorems.                      *)
(*                                                                         *)
(* The first part is about the components of a path, and of two paths that *)
(* meet at a slash.  The second shows that what path_compare() walks to is *)
(* the order of the components, word by word (PathCompareIs), and the rest *)
(* follows from that.                                                      *)
(***************************************************************************)
EXTENDS Path, SequenceTheorems, WellFoundedInduction, TLAPS

\* A path or a component, and the components of a path.
Words == Seq(Nat)
Lists == Seq(Words)

\* Characters are counted from one.
Within(p, k) == k \in 1 .. Len(p) + 1

-----------------------------------------------------------------------------
(* Places.                                                                 *)

\* A set of numbers has a least one.
LEMMA LeastPlace ==
    ASSUME NEW S \in SUBSET Nat, S # {}
    PROVE  \E m \in S : \A j \in S : m <= j
<1>1. PICK m \in S : \A j \in S : ~(<<j, m>> \in OpToRel(<, Nat))
  BY NatLessThanWellFounded, WFMin
<1>2. \A j \in S : j \in Nat
  OBVIOUS
<1>3. \A j \in S : ~(j < m)
  BY <1>1, <1>2 DEF OpToRel
<1> QED BY <1>2, <1>3

\* From the last place to the first: S has all if it has the last and each that the one
\* behind it brings.
LEMMA Downward ==
    ASSUME NEW lo \in Nat, NEW hi \in Nat, NEW S,
           hi \in S, \A k \in lo .. hi - 1 : k + 1 \in S => k \in S
    PROVE  \A k \in lo .. hi : k \in S
<1> DEFINE Not == {d \in Nat : d <= hi - lo /\ hi - d \notin S}
<1>1. ASSUME Not # {} PROVE FALSE
  <2>1. PICK d \in Not : \A x \in Not : d <= x
    BY <1>1, LeastPlace
  <2>2. d # 0 /\ d \in Nat /\ d <= hi - lo /\ hi - d \notin S
    BY <2>1
  <2>3. d - 1 \in Nat /\ d - 1 \notin Not /\ d - 1 <= hi - lo
    BY <2>1, <2>2
  <2>4. hi - (d - 1) \in S /\ hi - (d - 1) = (hi - d) + 1
    BY <2>2, <2>3
  <2>5. hi - d \in lo .. hi - 1
    BY <2>2
  <2> QED BY <2>2, <2>4, <2>5
<1>2. ASSUME NEW k \in lo .. hi PROVE k \in S
  <2>1. hi - k \in Nat /\ hi - k <= hi - lo /\ hi - (hi - k) = k
    OBVIOUS
  <2>2. hi - k \notin Not
    BY <1>1
  <2>3. hi - (hi - k) \in S
    BY <2>1, <2>2
  <2> QED BY <2>1, <2>3
<1> QED BY <1>2

\* There is a first place from i on that is not a slash, or the end.
LEMMA AfterSlashesIs ==
    ASSUME NEW p \in Words, NEW i, Within(p, i)
    PROVE  /\ AfterSlashes(p, i) \in i .. Len(p) + 1
           /\ AfterSlashes(p, i) > Len(p) \/ p[AfterSlashes(p, i)] # Slash
           /\ \A k \in i .. AfterSlashes(p, i) - 1 : p[k] = Slash
<1> DEFINE Stops == {j \in i .. Len(p) + 1 : j > Len(p) \/ p[j] # Slash}
<1>1. Len(p) \in Nat /\ i \in Nat /\ Len(p) + 1 \in Stops /\ Stops \in SUBSET Nat
  BY DEF Words, Within
<1>2. PICK j \in Stops : \A k \in Stops : j <= k
  BY <1>1, LeastPlace
<1>3. \A k \in i .. j - 1 : p[k] = Slash
  BY <1>1, <1>2
<1> QED BY <1>2, <1>3 DEF AfterSlashes

\* There is a first place from i on that is a slash, or the end.
LEMMA AfterWordIs ==
    ASSUME NEW p \in Words, NEW i, Within(p, i)
    PROVE  /\ AfterWord(p, i) \in i .. Len(p) + 1
           /\ AfterWord(p, i) > Len(p) \/ p[AfterWord(p, i)] = Slash
           /\ \A k \in i .. AfterWord(p, i) - 1 : p[k] # Slash
<1> DEFINE Stops == {j \in i .. Len(p) + 1 : j > Len(p) \/ p[j] = Slash}
<1>1. Len(p) \in Nat /\ i \in Nat /\ Len(p) + 1 \in Stops /\ Stops \in SUBSET Nat
  BY DEF Words, Within
<1>2. PICK j \in Stops : \A k \in Stops : j <= k
  BY <1>1, LeastPlace
<1>3. \A k \in i .. j - 1 : p[k] # Slash
  BY <1>1, <1>2
<1> QED BY <1>2, <1>3 DEF AfterWord

-----------------------------------------------------------------------------
(* The components of a path.                                               *)

\* One more character in front of the components of what is behind it.
More(p, i, c) ==
    IF p[i] = Slash THEN c
    ELSE IF i = Len(p) \/ p[i + 1] = Slash THEN <<<<p[i]>>>> \o c
    ELSE <<<<p[i]>> \o Head(c)>> \o Tail(c)

Step(p, f, i) == IF i > Len(p) THEN <<>> ELSE More(p, i, f[i + 1])

\* f has the components of p from each place on.
IsCut(p, f) == f = [i \in 1 .. Len(p) + 1 |-> Step(p, f, i)]

\* Every path can be cut.
LEMMA CutExists == ASSUME NEW p \in Words PROVE \E f : IsCut(p, f)
<1> DEFINE All == 1 .. Len(p) + 1
           Can(k) == \E f : /\ f = [i \in All |-> f[i]]
                            /\ \A i \in k .. Len(p) + 1 : f[i] = Step(p, f, i)
           S == {k \in All : Can(k)}
<1>1. Len(p) \in Nat /\ 1 \in Nat /\ Len(p) + 1 \in Nat
  BY DEF Words
<1>2. Len(p) + 1 \in S
  <2>1. PICK f : f = [i \in All |-> <<>>]
    OBVIOUS
  <2>2. \A i \in Len(p) + 1 .. Len(p) + 1 : f[i] = Step(p, f, i)
    BY <1>1, <2>1 DEF Step
  <2>3. f = [i \in All |-> f[i]]
    BY <2>1
  <2> QED BY <1>1, <2>2, <2>3
<1>3. ASSUME NEW k \in 1 .. (Len(p) + 1) - 1, k + 1 \in S
      PROVE  k \in S
  <2>1. PICK f : f = [i \in All |-> f[i]] /\ \A i \in k + 1 .. Len(p) + 1 : f[i] = Step(p, f, i)
    BY <1>3
  <2>2. PICK g : g = [f EXCEPT ![k] = Step(p, f, k)]
    OBVIOUS
  <2>3. k \in All /\ g = [i \in All |-> g[i]] /\ g[k] = Step(p, f, k)
        /\ \A i \in All : i # k => g[i] = f[i]
    BY <1>1, <2>1, <2>2
  <2>4. \A i \in k .. Len(p) + 1 : Step(p, g, i) = Step(p, f, i)
    <3>1. \A i \in k .. Len(p) : i + 1 \in All /\ i + 1 # k
      BY <1>1
    <3>2. \A i \in k .. Len(p) : g[i + 1] = f[i + 1]
      BY <2>3, <3>1
    <3>3. \A i \in k .. Len(p) + 1 : i > Len(p) \/ i \in k .. Len(p)
      BY <1>1
    <3> QED BY <3>2, <3>3 DEF Step
  <2>5. \A i \in k .. Len(p) + 1 : i = k \/ (i \in k + 1 .. Len(p) + 1 /\ i \in All /\ i # k)
    BY <1>1
  <2>6. \A i \in k .. Len(p) + 1 : g[i] = Step(p, g, i)
    BY <2>1, <2>3, <2>4, <2>5
  <2> QED BY <2>3, <2>6
<1> HIDE DEF S
<1>4. \A k \in 1 .. Len(p) + 1 : k \in S
  BY <1>1, <1>2, <1>3, Downward
<1>5. 1 \in S
  BY <1>1, <1>4
<1>6. PICK f : f = [i \in All |-> f[i]] /\ \A i \in 1 .. Len(p) + 1 : f[i] = Step(p, f, i)
  BY <1>5 DEF S
<1> QED BY <1>6 DEF IsCut

\* The components of a path are those from its first place on.
LEMMA ComponentsCut ==
    ASSUME NEW p \in Words
    PROVE  \E f : IsCut(p, f) /\ Components(p) = f[1]
<1> DEFINE from == CHOOSE f : f = [i \in 1 .. Len(p) + 1 |-> Step(p, f, i)]
<1>1. Components(p) = from[1]
  BY DEF Components, Step, More
<1>2. from = [i \in 1 .. Len(p) + 1 |-> Step(p, from, i)]
  BY CutExists DEF IsCut
<1> QED BY <1>1, <1>2 DEF IsCut

\* What a cut has for a place.
LEMMA CutAt ==
    ASSUME NEW p \in Words, NEW f, IsCut(p, f)
    PROVE  /\ f[Len(p) + 1] = <<>>
           /\ \A i \in 1 .. Len(p) : f[i] = More(p, i, f[i + 1])
<1>1. Len(p) \in Nat
  BY DEF Words
<1>2. \A i \in 1 .. Len(p) + 1 : f[i] = Step(p, f, i)
  BY DEF IsCut
<1>3. f[Len(p) + 1] = Step(p, f, Len(p) + 1)
  BY <1>1, <1>2
<1>4. \A i \in 1 .. Len(p) : f[i] = Step(p, f, i) /\ ~(i > Len(p))
  BY <1>1, <1>2
<1> QED BY <1>1, <1>3, <1>4 DEF Step

\* One character before a list of components.
LEMMA MoreHasType ==
    ASSUME NEW p \in Words, NEW i \in 1 .. Len(p), NEW c \in Lists,
           i < Len(p) /\ p[i + 1] # Slash => c # <<>>
    PROVE  More(p, i, c) \in Lists /\ (p[i] # Slash => More(p, i, c) # <<>>)
<1>1. p[i] \in Nat /\ Len(p) \in Nat
  BY DEF Words
<1>2. CASE p[i] = Slash
  BY <1>2 DEF More
<1>3. CASE p[i] # Slash /\ (i = Len(p) \/ p[i + 1] = Slash)
  <2>1. <<<<p[i]>>>> \in Lists /\ Len(<<<<p[i]>>>>) = 1
    BY <1>1 DEF Lists, Words
  <2>2. <<<<p[i]>>>> \o c \in Lists /\ Len(<<<<p[i]>>>> \o c) = 1 + Len(c) /\ Len(c) \in Nat
    BY <2>1, ConcatProperties DEF Lists
  <2>3. More(p, i, c) = <<<<p[i]>>>> \o c
    BY <1>3 DEF More
  <2>4. Len(<<<<p[i]>>>> \o c) # 0
    BY <2>2
  <2> QED BY <2>2, <2>3, <2>4
<1>4. CASE p[i] # Slash /\ ~(i = Len(p) \/ p[i + 1] = Slash)
  <2>1. c # <<>>
    BY <1>1, <1>4
  <2>2. Head(c) \in Words /\ Tail(c) \in Lists
    BY <2>1, HeadTailProperties DEF Lists
  <2>3. <<p[i]>> \o Head(c) \in Words
    BY <1>1, <2>2, ConcatProperties DEF Words
  <2>4. PICK w : w = <<p[i]>> \o Head(c)
    OBVIOUS
  <2>5. <<w>> \in Lists /\ Len(<<w>>) = 1
    BY <2>3, <2>4 DEF Lists
  <2>6. /\ <<w>> \o Tail(c) \in Lists
        /\ Len(<<w>> \o Tail(c)) = 1 + Len(Tail(c)) /\ Len(Tail(c)) \in Nat
    BY <2>2, <2>5, ConcatProperties DEF Lists
  <2>7. More(p, i, c) = <<w>> \o Tail(c)
    BY <1>4, <2>4 DEF More
  <2>8. Len(<<w>> \o Tail(c)) # 0
    BY <2>6
  <2> QED BY <2>6, <2>7, <2>8
<1> QED BY <1>2, <1>3, <1>4

\* A cut has lists of components, and one that is not empty where there is no slash.
LEMMA CutHasType ==
    ASSUME NEW p \in Words, NEW f, IsCut(p, f)
    PROVE  \A i \in 1 .. Len(p) + 1 :
               f[i] \in Lists /\ (i <= Len(p) /\ p[i] # Slash => f[i] # <<>>)
<1> DEFINE S == {i \in 1 .. Len(p) + 1 :
                    f[i] \in Lists /\ (i <= Len(p) /\ p[i] # Slash => f[i] # <<>>)}
<1>1. Len(p) \in Nat /\ 1 \in Nat /\ Len(p) + 1 \in Nat
  BY DEF Words
<1>2. Len(p) + 1 \in S
  <2>1. f[Len(p) + 1] = <<>> /\ <<>> \in Lists
    BY CutAt DEF Lists
  <2>2. Len(p) + 1 \in 1 .. Len(p) + 1 /\ ~(Len(p) + 1 <= Len(p))
    BY <1>1
  <2> QED BY <2>1, <2>2
<1>3. ASSUME NEW k \in 1 .. (Len(p) + 1) - 1, k + 1 \in S
      PROVE  k \in S
  <2>1. k \in 1 .. Len(p) /\ f[k + 1] \in Lists
        /\ (k < Len(p) /\ p[k + 1] # Slash => f[k + 1] # <<>>)
    BY <1>1, <1>3
  <2>2. f[k] = More(p, k, f[k + 1])
    BY <2>1, CutAt
  <2>3. f[k] \in Lists /\ (p[k] # Slash => f[k] # <<>>)
    BY <2>1, <2>2, MoreHasType
  <2> QED BY <1>1, <2>1, <2>3
<1> HIDE DEF S
<1>4. \A k \in 1 .. Len(p) + 1 : k \in S
  BY <1>1, <1>2, <1>3, Downward
<1> QED BY <1>4 DEF S

\* A component before others.
LEMMA FirstOf ==
    ASSUME NEW w \in Words, NEW c \in Lists
    PROVE  /\ <<w>> \o c \in Lists /\ Len(<<w>> \o c) = 1 + Len(c) /\ <<w>> \o c # <<>>
           /\ Head(<<w>> \o c) = w /\ Tail(<<w>> \o c) = c
           /\ (<<w>> \o c)[1] = w /\ \A m \in 1 .. Len(c) : (<<w>> \o c)[m + 1] = c[m]
<1>1. <<w>> \in Lists /\ Len(<<w>>) = 1 /\ <<w>>[1] = w /\ Len(c) \in Nat
  BY DEF Lists
<1>2. PICK d : d = <<w>> \o c
  OBVIOUS
<1>3. /\ d \in Lists /\ Len(d) = 1 + Len(c)
      /\ \A m \in 1 .. 1 + Len(c) : d[m] = IF m <= 1 THEN <<w>>[m] ELSE c[m - 1]
  BY <1>1, <1>2, ConcatProperties DEF Lists
<1>4. d[1] = w /\ d # <<>>
  <2>1. 1 \in 1 .. 1 + Len(c) /\ 1 <= 1
    BY <1>1
  <2>2. Len(d) # 0
    BY <1>1, <1>3
  <2> QED BY <1>1, <1>3, <2>1, <2>2
<1>5. \A m \in 1 .. Len(c) : d[m + 1] = c[m]
  <2>1. \A m \in 1 .. Len(c) : m + 1 \in 1 .. 1 + Len(c) /\ ~(m + 1 <= 1) /\ (m + 1) - 1 = m
    BY <1>1
  <2> QED BY <1>3, <2>1
<1>6. Head(d) = d[1] /\ Tail(d) \in Lists /\ Len(Tail(d)) = Len(d) - 1
      /\ \A m \in 1 .. Len(Tail(d)) : Tail(d)[m] = d[m + 1]
  BY <1>3, <1>4, HeadTailProperties DEF Lists
<1>7. Tail(d) = c
  <2>1. Len(Tail(d)) = Len(c)
    BY <1>1, <1>3, <1>6
  <2>2. \A m \in 1 .. Len(c) : Tail(d)[m] = c[m]
    BY <1>5, <1>6, <2>1
  <2> QED BY <1>6, <2>1, <2>2, SeqEqual DEF Lists
<1> QED BY <1>2, <1>3, <1>4, <1>5, <1>6, <1>7

\* Slashes are skipped.
LEMMA CutSlashes ==
    ASSUME NEW p \in Words, NEW f, IsCut(p, f), NEW i, Within(p, i), NEW j \in i .. Len(p) + 1,
           \A k \in i .. j - 1 : p[k] = Slash
    PROVE  f[i] = f[j]
<1> DEFINE S == {k \in i .. j : f[k] = f[j]}
<1>1. Len(p) \in Nat /\ i \in Nat /\ j \in Nat /\ i <= j /\ i >= 1
  BY DEF Words, Within
<1>2. j \in S
  BY <1>1
<1>3. ASSUME NEW k \in i .. j - 1, k + 1 \in S
      PROVE  k \in S
  <2>1. k \in 1 .. Len(p) /\ p[k] = Slash /\ f[k + 1] = f[j] /\ k \in i .. j
    BY <1>1, <1>3
  <2>2. f[k] = More(p, k, f[k + 1])
    BY <2>1, CutAt
  <2> QED BY <2>1, <2>2 DEF More
<1> HIDE DEF S
<1>4. \A k \in i .. j : k \in S
  BY <1>1, <1>2, <1>3, Downward
<1>5. i \in S
  BY <1>1, <1>4
<1> QED BY <1>5 DEF S

\* What is between slashes is a component.
LEMMA CutWord ==
    ASSUME NEW p \in Words, NEW f, IsCut(p, f),
           NEW i \in 1 .. Len(p), NEW j \in i + 1 .. Len(p) + 1,
           j > Len(p) \/ p[j] = Slash, \A k \in i .. j - 1 : p[k] # Slash
    PROVE  f[i] = <<SubSeq(p, i, j - 1)>> \o f[j]
<1> DEFINE S == {k \in i .. j - 1 : f[k] = <<SubSeq(p, k, j - 1)>> \o f[j]}
<1>1. /\ Len(p) \in Nat /\ i \in Nat /\ j \in Nat /\ j - 1 \in Nat /\ i < j /\ i >= 1
      /\ j <= Len(p) + 1
  BY DEF Words
<1>2. f[j] \in Lists
  BY <1>1, CutHasType
<1>3. j - 1 \in S
  <2>1. j - 1 \in 1 .. Len(p) /\ p[j - 1] # Slash /\ (j - 1) + 1 = j /\ j - 1 \in i .. j - 1
    BY <1>1
  <2>2. j - 1 = Len(p) \/ p[(j - 1) + 1] = Slash
    BY <1>1, <2>1
  <2>3. f[j - 1] = More(p, j - 1, f[j])
    BY <2>1, CutAt
  <2>4. f[j - 1] = <<<<p[j - 1]>>>> \o f[j]
    BY <2>1, <2>2, <2>3 DEF More
  <2>5. SubSeq(p, j - 1, j - 1) = <<p[j - 1]>>
    <3>1. PICK m \in 1 .. Len(p) : m = j - 1
      BY <2>1
    <3>2. SubSeq(p, m, m) = <<p[m]>> \o SubSeq(p, m + 1, m)
      BY SubSeqRecursiveFirst DEF Words
    <3>3. SubSeq(p, m + 1, m) = <<>>
      BY SubSeqEmpty DEF Words
    <3>4. p[m] \in Nat
      BY DEF Words
    <3>5. <<p[m]>> \in Seq(Nat)
      BY <3>4
    <3>6. <<p[m]>> \o <<>> = <<p[m]>>
      BY <3>5, ConcatEmptySeq
    <3> QED BY <3>1, <3>2, <3>3, <3>6
  <2> QED BY <2>1, <2>4, <2>5
<1>4. ASSUME NEW k \in i .. (j - 1) - 1, k + 1 \in S
      PROVE  k \in S
  <2>1. /\ k \in 1 .. Len(p) /\ k + 1 \in 1 .. Len(p) /\ k + 1 \in i .. j - 1 /\ k \in i .. j - 1
        /\ k <= j - 1 /\ j - 1 \in 1 .. Len(p)
    BY <1>1, <1>4
  <2>2. p[k] # Slash /\ p[k + 1] # Slash /\ k # Len(p)
    BY <1>1, <2>1
  <2>3. PICK w : w = SubSeq(p, k + 1, j - 1)
    OBVIOUS
  <2>4. w \in Words /\ f[k + 1] = <<w>> \o f[j]
    <3>1. k + 1 \in 1 .. Len(p) + 1 /\ j - 1 \in (k + 1) - 1 .. Len(p)
      BY <1>1, <2>1
    <3>2. w \in Words
      BY <2>3, <3>1, SubSeqProperties DEF Words
    <3> QED BY <1>4, <2>3, <3>2
  <2>5. Head(f[k + 1]) = w /\ Tail(f[k + 1]) = f[j]
    BY <1>2, <2>4, FirstOf
  <2>6. f[k] = More(p, k, f[k + 1])
    BY <2>1, CutAt
  <2>7. f[k] = <<<<p[k]>> \o w>> \o f[j]
    BY <2>2, <2>5, <2>6 DEF More
  <2>8. SubSeq(p, k, j - 1) = <<p[k]>> \o w
    BY <2>1, <2>3, SubSeqRecursiveFirst DEF Words
  <2> QED BY <2>1, <2>7, <2>8
<1> HIDE DEF S
<1>5. \A k \in i .. j - 1 : k \in S
  BY <1>1, <1>3, <1>4, Downward
<1>6. i \in S
  BY <1>1, <1>5
<1> QED BY <1>6 DEF S

-----------------------------------------------------------------------------
(* Two paths that meet at a slash.                                         *)

Meet(t, s) == t = <<>> \/ s = <<>> \/ t[Len(t)] = Slash \/ s[1] = Slash

\* The characters of the two.
LEMMA Characters ==
    ASSUME NEW t \in Words, NEW s \in Words
    PROVE  /\ t \o s \in Words /\ Len(t \o s) = Len(t) + Len(s)
           /\ \A k \in 1 .. Len(t) : (t \o s)[k] = t[k]
           /\ \A k \in 1 .. Len(s) : (t \o s)[Len(t) + k] = s[k]
<1>1. Len(t) \in Nat /\ Len(s) \in Nat
  BY DEF Words
<1>2. PICK p : p = t \o s
  OBVIOUS
<1>3. /\ p \in Words /\ Len(p) = Len(t) + Len(s)
      /\ \A k \in 1 .. Len(t) + Len(s) : p[k] = IF k <= Len(t) THEN t[k] ELSE s[k - Len(t)]
  BY <1>2, ConcatProperties DEF Words
<1>4. \A k \in 1 .. Len(t) : k \in 1 .. Len(t) + Len(s) /\ k <= Len(t)
  BY <1>1
<1>5. \A k \in 1 .. Len(s) : /\ Len(t) + k \in 1 .. Len(t) + Len(s) /\ ~(Len(t) + k <= Len(t))
                             /\ (Len(t) + k) - Len(t) = k
  BY <1>1
<1> QED BY <1>2, <1>3, <1>4, <1>5

\* The second is cut as it is alone.
LEMMA CutSecond ==
    ASSUME NEW t \in Words, NEW s \in Words, NEW f, IsCut(t \o s, f), NEW h, IsCut(s, h)
    PROVE  \A k \in 1 .. Len(s) + 1 : f[Len(t) + k] = h[k]
<1> DEFINE S == {k \in 1 .. Len(s) + 1 : f[Len(t) + k] = h[k]}
<1>1. Len(t) \in Nat /\ Len(s) \in Nat /\ 1 \in Nat /\ Len(s) + 1 \in Nat
  BY DEF Words
<1>2. PICK p : p = t \o s
  OBVIOUS
<1>3. p \in Words /\ Len(p) = Len(t) + Len(s) /\ IsCut(p, f)
      /\ \A k \in 1 .. Len(s) : p[Len(t) + k] = s[k]
  BY <1>2, Characters
<1>4. Len(s) + 1 \in S
  <2>1. Len(t) + (Len(s) + 1) = Len(p) + 1 /\ Len(s) + 1 \in 1 .. Len(s) + 1
    BY <1>1, <1>3
  <2>2. f[Len(p) + 1] = <<>> /\ h[Len(s) + 1] = <<>>
    BY <1>3, CutAt
  <2> QED BY <2>1, <2>2
<1>5. ASSUME NEW k \in 1 .. (Len(s) + 1) - 1, k + 1 \in S
      PROVE  k \in S
  <2>1. k \in 1 .. Len(s) /\ f[Len(t) + (k + 1)] = h[k + 1]
        /\ Len(t) + k \in 1 .. Len(p) /\ (Len(t) + k) + 1 = Len(t) + (k + 1)
    BY <1>1, <1>3, <1>5
  <2>2. f[Len(t) + k] = More(p, Len(t) + k, h[k + 1]) /\ h[k] = More(s, k, h[k + 1])
    BY <1>3, <2>1, CutAt
  <2>3. p[Len(t) + k] = s[k] /\ (Len(t) + k = Len(p) <=> k = Len(s))
    <3>1. p[Len(t) + k] = s[k]
      BY <1>3, <2>1
    <3>2. Len(p) = Len(t) + Len(s)
      BY <1>3
    <3>3. Len(t) + k = Len(p) <=> k = Len(s)
      BY ONLY <1>1, <2>1, <3>2
    <3> QED BY <3>1, <3>3
  <2>4. k # Len(s) => p[(Len(t) + k) + 1] = s[k + 1]
    <3>1. k # Len(s) => k + 1 \in 1 .. Len(s)
      BY <1>1, <2>1
    <3> QED BY <1>3, <2>1, <3>1
  <2>5. More(p, Len(t) + k, h[k + 1]) = More(s, k, h[k + 1])
    BY <2>3, <2>4 DEF More
  <2> QED BY <1>1, <2>1, <2>2, <2>5
<1> HIDE DEF S
<1>6. \A k \in 1 .. Len(s) + 1 : k \in S
  BY <1>1, <1>4, <1>5, Downward
<1> QED BY <1>6 DEF S

\* More of a list of components.
LEMMA FirstOfMore ==
    ASSUME NEW c \in Lists, NEW d \in Lists, c # <<>>
    PROVE  Head(c \o d) = Head(c) /\ Tail(c \o d) = Tail(c) \o d
<1>1. PICK w \in Words, e \in Lists : c = <<w>> \o e
  <2>1. /\ Head(c) \in Words /\ Tail(c) \in Lists /\ Len(Tail(c)) = Len(c) - 1
        /\ \A m \in 1 .. Len(Tail(c)) : Tail(c)[m] = c[m + 1]
    BY HeadTailProperties DEF Lists
  <2>2. PICK w \in Words, e \in Lists : w = Head(c) /\ e = Tail(c)
    BY <2>1
  <2>3. /\ <<w>> \o e \in Lists /\ Len(<<w>> \o e) = 1 + Len(e) /\ (<<w>> \o e)[1] = w
        /\ \A m \in 1 .. Len(e) : (<<w>> \o e)[m + 1] = e[m]
    BY FirstOf
  <2>4. Len(c) \in Nat /\ Len(c) # 0 /\ Len(e) = Len(c) - 1 /\ c[1] = w
    BY <2>1, <2>2, EmptySeq DEF Lists
  <2>5. \A m \in 1 .. Len(c) : (<<w>> \o e)[m] = c[m]
    <3>1. SUFFICES ASSUME NEW m \in 1 .. Len(c) PROVE (<<w>> \o e)[m] = c[m]
      OBVIOUS
    <3>2. CASE m = 1
      BY <2>3, <2>4, <3>2
    <3>3. CASE m # 1
      <4>1. m - 1 \in 1 .. Len(e) /\ (m - 1) + 1 = m
        BY <2>4, <3>3
      <4>2. (<<w>> \o e)[(m - 1) + 1] = e[m - 1] /\ e[m - 1] = c[(m - 1) + 1]
        BY <2>1, <2>2, <2>3, <4>1
      <4> QED BY <4>1, <4>2
    <3> QED BY <3>2, <3>3
  <2>6. Len(<<w>> \o e) = Len(c)
    BY <2>3, <2>4
  <2>7. <<w>> \o e = c
    BY <2>3, <2>5, <2>6, SeqEqual DEF Lists
  <2> QED BY <2>7
<1>2. c \o d = <<w>> \o (e \o d) /\ e \o d \in Lists
  <2>1. <<w>> \in Lists
    BY DEF Lists
  <2> QED BY <1>1, <2>1, ConcatAssociative, ConcatProperties DEF Lists
<1>3. Head(c) = w /\ Tail(c) = e /\ Head(c \o d) = w /\ Tail(c \o d) = e \o d
  BY <1>1, <1>2, FirstOf
<1> QED BY <1>3

Followed(e, c, d) == e = c \o d

\* The first is cut as it is alone, and followed by the components of the second.
LEMMA CutFirst ==
    ASSUME NEW t \in Words, NEW s \in Words, Meet(t, s), NEW p, p = t \o s,
           NEW f, NEW g, NEW h, IsCut(p, f), IsCut(t, g), IsCut(s, h)
    PROVE  Followed(f[1], g[1], h[1])
<1> DEFINE S == {k \in 1 .. Len(t) + 1 : f[k] = g[k] \o h[1]}
<1>1. Len(t) \in Nat /\ Len(s) \in Nat /\ 1 \in Nat /\ Len(t) + 1 \in Nat
  BY DEF Words
<1>3. p \in Words /\ Len(p) = Len(t) + Len(s)
      /\ \A k \in 1 .. Len(t) : p[k] = t[k]
  BY Characters
<1>4. \A k \in 1 .. Len(s) : p[Len(t) + k] = s[k]
  BY Characters
<1>5. PICK d \in Lists : d = h[1]
  BY <1>1, CutHasType
<1>6. \A k \in 1 .. Len(t) + 1 : g[k] \in Lists /\ (k <= Len(t) /\ t[k] # Slash => g[k] # <<>>)
  BY CutHasType
<1>7. Len(t) + 1 \in S
  <2>1. f[Len(t) + 1] = d
    <3>1. \A k \in 1 .. Len(s) + 1 : f[Len(t) + k] = h[k]
      BY CutSecond
    <3>2. 1 \in 1 .. Len(s) + 1
      BY <1>1
    <3> QED BY <1>5, <3>1, <3>2
  <2>2. g[Len(t) + 1] = <<>>
    BY CutAt
  <2>3. <<>> \o d = d
    BY ConcatEmptySeq DEF Lists
  <2>4. f[Len(t) + 1] = g[Len(t) + 1] \o h[1]
    BY <1>5, <2>1, <2>2, <2>3
  <2>5. Len(t) + 1 \in 1 .. Len(t) + 1
    BY <1>1
  <2> QED BY <2>4, <2>5
<1>8. ASSUME NEW k \in 1 .. (Len(t) + 1) - 1, k + 1 \in S
      PROVE  k \in S
  <2>1. k \in 1 .. Len(t) /\ k + 1 \in 1 .. Len(t) + 1 /\ k \in 1 .. Len(t) + 1
    BY <1>1
  <2>2. k \in 1 .. Len(p)
    BY <1>1, <1>3, <2>1
  <2>3. PICK c \in Lists : c = g[k + 1]
    BY <1>6, <2>1
  <2>4. f[k + 1] = c \o d
    BY <1>5, <1>8, <2>3
  <2>5. f[k] = More(p, k, c \o d) /\ g[k] = More(t, k, c)
    <3>1. \A x \in 1 .. Len(p) : f[x] = More(p, x, f[x + 1])
      BY <1>3, CutAt
    <3>2. \A x \in 1 .. Len(t) : g[x] = More(t, x, g[x + 1])
      BY CutAt
    <3> QED BY <2>1, <2>2, <2>3, <2>4, <3>1, <3>2
  <2>6. p[k] = t[k]
    BY <1>3, <2>1
  <2>7. CASE t[k] = Slash
    BY <1>5, <2>1, <2>5, <2>6, <2>7 DEF More
  <2>8. CASE t[k] # Slash /\ (k = Len(t) \/ t[k + 1] = Slash)
    <3>1. k = Len(p) \/ p[k + 1] = Slash
      <4>1. CASE k # Len(t)
        <5>1. k + 1 \in 1 .. Len(t)
          BY <1>1, <2>1, <4>1
        <5> QED BY <1>3, <2>8, <4>1, <5>1
      <4>2. CASE k = Len(t) /\ s = <<>>
        <5>1. Len(s) = 0
          BY <4>2
        <5>2. Len(p) = Len(t) + Len(s)
          BY <1>3
        <5> QED BY <1>1, <4>2, <5>1, <5>2
      <4>3. CASE k = Len(t) /\ s # <<>>
        <5>1. t # <<>>
          BY <1>1, <2>1, <4>3
        <5>2. s[1] = Slash
          BY <2>8, <4>3, <5>1 DEF Meet
        <5>3. 1 \in 1 .. Len(s)
          BY <1>1, <4>3, EmptySeq DEF Words
        <5> QED BY <1>4, <4>3, <5>2, <5>3
      <4> QED BY <4>1, <4>2, <4>3
    <3>2. f[k] = <<<<t[k]>>>> \o (c \o d) /\ g[k] = <<<<t[k]>>>> \o c
      BY <2>5, <2>6, <2>8, <3>1 DEF More
    <3>3. <<<<t[k]>>>> \in Lists
      <4>1. t[k] \in Nat
        BY <2>1 DEF Words
      <4> QED BY <4>1 DEF Lists, Words
    <3>4. (<<<<t[k]>>>> \o c) \o d = <<<<t[k]>>>> \o (c \o d)
      BY <3>3, ConcatAssociative DEF Lists
    <3> QED BY <1>5, <2>1, <3>2, <3>4
  <2>9. CASE t[k] # Slash /\ ~(k = Len(t) \/ t[k + 1] = Slash)
    <3>1. k + 1 \in 1 .. Len(t) /\ k # Len(p)
      <4>1. Len(p) = Len(t) + Len(s)
        BY <1>3
      <4> QED BY ONLY <1>1, <2>1, <2>9, <4>1
    <3>2. p[k + 1] # Slash /\ c # <<>>
      <4>1. p[k + 1] = t[k + 1] /\ k + 1 <= Len(t)
        BY <1>1, <1>3, <3>1
      <4> QED BY <1>6, <2>1, <2>3, <2>9, <4>1
    <3>3. PICK w : w = <<t[k]>> \o Head(c)
      OBVIOUS
    <3>4. f[k] = <<w>> \o (Tail(c) \o d) /\ g[k] = <<w>> \o Tail(c)
      <4>1. Head(c \o d) = Head(c) /\ Tail(c \o d) = Tail(c) \o d
        BY <3>2, FirstOfMore
      <4>2. f[k] = <<<<p[k]>> \o Head(c \o d)>> \o Tail(c \o d)
        BY <2>5, <2>6, <2>9, <3>1, <3>2 DEF More
      <4>3. g[k] = <<<<t[k]>> \o Head(c)>> \o Tail(c)
        BY <2>5, <2>9 DEF More
      <4> QED BY <2>6, <3>3, <4>1, <4>2, <4>3
    <3>5. w \in Words /\ Tail(c) \in Lists
      <4>1. Head(c) \in Words /\ Tail(c) \in Lists
        BY <3>2, HeadTailProperties DEF Lists
      <4>2. <<t[k]>> \in Words
        BY <2>1 DEF Words
      <4> QED BY <3>3, <4>1, <4>2, ConcatProperties DEF Words
    <3>6. (<<w>> \o Tail(c)) \o d = <<w>> \o (Tail(c) \o d)
      <4>1. <<w>> \in Lists
        BY <3>5 DEF Lists
      <4> QED BY <3>5, <4>1, ConcatAssociative DEF Lists
    <3> QED BY <1>5, <2>1, <3>4, <3>6
  <2> QED BY <2>7, <2>8, <2>9
<1> HIDE DEF S
<1>9. \A k \in 1 .. Len(t) + 1 : k \in S
  BY <1>1, <1>7, <1>8, Downward
<1>10. 1 \in S
  BY <1>1, <1>9
<1> QED BY <1>10 DEF S, Followed

\* The components of two paths that meet at a slash are those of the two.
LEMMA ComponentsMeet ==
    ASSUME NEW t \in Words, NEW s \in Words, Meet(t, s)
    PROVE  Components(t \o s) = Components(t) \o Components(s)
<1>1. t \o s \in Words
  BY Characters
<1>2. PICK f : IsCut(t \o s, f) /\ Components(t \o s) = f[1]
  BY <1>1, ComponentsCut
<1>3. PICK g : IsCut(t, g) /\ Components(t) = g[1]
  BY ComponentsCut
<1>4. PICK h : IsCut(s, h) /\ Components(s) = h[1]
  BY ComponentsCut
<1>5. Followed(f[1], g[1], h[1])
  <2>1. PICK u : u = t \o s
    OBVIOUS
  <2>2. IsCut(u, f) /\ IsCut(t, g) /\ IsCut(s, h)
    BY <1>2, <1>3, <1>4, <2>1
  <2> QED BY <2>1, <2>2, CutFirst
<1> QED BY <1>2, <1>3, <1>4, <1>5 DEF Followed

\* Slashes have no components.
LEMMA OnlySlashes ==
    ASSUME NEW s \in Words, \A k \in 1 .. Len(s) : s[k] = Slash
    PROVE  Components(s) = <<>>
<1>1. Len(s) \in Nat
  BY DEF Words
<1>2. PICK f : IsCut(s, f) /\ Components(s) = f[1]
  BY ComponentsCut
<1>3. Within(s, 1) /\ Len(s) + 1 \in 1 .. Len(s) + 1 /\ (Len(s) + 1) - 1 = Len(s)
  BY <1>1 DEF Within
<1>4. f[1] = f[Len(s) + 1]
  BY <1>2, <1>3, CutSlashes
<1> QED BY <1>2, <1>4, CutAt

LEMMA SlashHasNone == <<Slash>> \in Words /\ Components(<<Slash>>) = <<>>
<1>1. <<Slash>> \in Words /\ Len(<<Slash>>) = 1 /\ \A k \in 1 .. 1 : <<Slash>>[k] = Slash
  BY DEF Words, Slash
<1> QED BY <1>1, OnlySlashes

LEMMA ComponentsHaveType == ASSUME NEW p \in Words PROVE Components(p) \in Lists
<1>1. Len(p) \in Nat
  BY DEF Words
<1>2. 1 \in 1 .. Len(p) + 1
  BY <1>1
<1>3. PICK f : IsCut(p, f) /\ Components(p) = f[1]
  BY ComponentsCut
<1> QED BY <1>2, <1>3, CutHasType

\* A path in two parts.
LEMMA Parts ==
    ASSUME NEW p \in Words, NEW m \in 0 .. Len(p)
    PROVE  LET t == SubSeq(p, 1, m)
               s == SubSeq(p, m + 1, Len(p))
           IN  /\ t \in Words /\ s \in Words /\ p = t \o s
               /\ Len(t) = m /\ \A k \in 1 .. m : t[k] = p[k]
               /\ Len(s) = Len(p) - m /\ \A k \in 1 .. Len(p) - m : s[k] = p[m + k]
<1>1. Len(p) \in Nat
  BY DEF Words
<1>2. PICK t : t = SubSeq(p, 1, m)
  OBVIOUS
<1>3. PICK s : s = SubSeq(p, m + 1, Len(p))
  OBVIOUS
<1>4. 1 \in 1 .. Len(p) + 1 /\ m \in 1 - 1 .. Len(p) /\ m - 1 + 1 = m
      /\ (1 <= m => m - 1 + 1 = m) /\ (~(1 <= m) => m = 0)
  BY <1>1
<1>5. t \in Words /\ Len(t) = m /\ \A k \in 1 .. m : t[k] = p[k]
  <2>1. /\ t \in Seq(Nat) /\ Len(t) = IF 1 <= m THEN m - 1 + 1 ELSE 0
        /\ \A k \in 1 .. m - 1 + 1 : t[k] = p[1 + k - 1]
    BY <1>2, <1>4, SubSeqProperties DEF Words
  <2>2. Len(t) = m
    BY <1>4, <2>1
  <2>3. \A k \in 1 .. m : k \in 1 .. m - 1 + 1 /\ 1 + k - 1 = k
    BY <1>4
  <2> QED BY <2>1, <2>2, <2>3 DEF Words
<1>6. s \in Words /\ Len(s) = Len(p) - m /\ \A k \in 1 .. Len(p) - m : s[k] = p[m + k]
  <2>1. m + 1 \in 1 .. Len(p) + 1 /\ Len(p) \in (m + 1) - 1 .. Len(p)
    BY <1>1
  <2>2. /\ s \in Seq(Nat) /\ Len(s) = IF m + 1 <= Len(p) THEN Len(p) - (m + 1) + 1 ELSE 0
        /\ \A k \in 1 .. Len(p) - (m + 1) + 1 : s[k] = p[(m + 1) + k - 1]
    BY <1>3, <2>1, SubSeqProperties DEF Words
  <2>3. Len(s) = Len(p) - m
    BY <1>1, <2>2
  <2>4. \A k \in 1 .. Len(p) - m : k \in 1 .. Len(p) - (m + 1) + 1 /\ (m + 1) + k - 1 = m + k
    BY <1>1
  <2> QED BY <2>2, <2>3, <2>4 DEF Words
<1>7. p = t \o s
  <2>1. Len(p) \in m .. Len(p)
    BY <1>1
  <2>2. SubSeq(p, 1, m) \o SubSeq(p, m + 1, Len(p)) = SubSeq(p, 1, Len(p))
    BY <1>4, <2>1, ConcatAdjacentSubSeq DEF Words
  <2>3. SubSeq(p, 1, Len(p)) = p
    BY SubSeqFull DEF Words
  <2> QED BY <1>2, <1>3, <2>2, <2>3
<1> QED BY <1>2, <1>3, <1>5, <1>6, <1>7

\* Of the slashes that a path begins with only the last is left.
LEMMA OneSlashIs ==
    ASSUME NEW p \in Words
    PROVE  /\ OneSlash(p) \in Words /\ Components(OneSlash(p)) = Components(p)
           /\ Absolute(OneSlash(p)) = Absolute(p)
<1>1. Len(p) \in Nat
  BY DEF Words
<1>2. CASE ~Absolute(p)
  BY <1>2 DEF OneSlash
<1>3. CASE Absolute(p)
  <2>1. PICK x : x = AfterSlashes(p, 1)
    OBVIOUS
  <2>2. 1 \in 1 .. Len(p) /\ p[1] = Slash
    BY <1>1, <1>3, EmptySeq DEF Absolute, Words
  <2>3. /\ x \in 1 .. Len(p) + 1 /\ (x > Len(p) \/ p[x] # Slash)
        /\ \A k \in 1 .. x - 1 : p[k] = Slash
    BY <1>1, <2>1, AfterSlashesIs DEF Within
  <2>4. x # 1
    BY <1>1, <2>2, <2>3
  <2>5. PICK m \in 0 .. Len(p) : m = x - 2
    BY <1>1, <2>3, <2>4
  <2>6. PICK t : t = SubSeq(p, 1, m)
    OBVIOUS
  <2>7. PICK s : s = SubSeq(p, m + 1, Len(p))
    OBVIOUS
  <2>8. /\ t \in Words /\ s \in Words /\ p = t \o s
        /\ Len(t) = m /\ \A k \in 1 .. m : t[k] = p[k]
        /\ Len(s) = Len(p) - m /\ \A k \in 1 .. Len(p) - m : s[k] = p[m + k]
    BY <2>6, <2>7, Parts
  <2>9. s[1] = Slash /\ s # <<>>
    <3>1. 1 \in 1 .. Len(p) - m /\ m + 1 \in 1 .. x - 1
      BY <1>1, <2>3, <2>4, <2>5
    <3>2. Len(s) # 0
      BY <1>1, <2>8, <3>1
    <3> QED BY <2>3, <2>8, <3>1, <3>2
  <2>10. Components(t) = <<>>
    <3>1. \A k \in 1 .. m : k \in 1 .. x - 1
      BY <2>3, <2>5
    <3> QED BY <2>3, <2>8, <3>1, OnlySlashes
  <2>11. Components(p) = Components(t) \o Components(s)
    BY <2>8, <2>9, ComponentsMeet DEF Meet
  <2>12. <<>> \o Components(s) = Components(s)
    BY <2>8, ComponentsHaveType, ConcatEmptySeq DEF Lists
  <2>13. OneSlash(p) = s
    <3>1. m + 1 = x - 1
      BY <2>3, <2>5
    <3> QED BY <1>3, <2>1, <2>7, <3>1 DEF OneSlash
  <2> QED BY <1>3, <2>8, <2>9, <2>10, <2>11, <2>12, <2>13 DEF Absolute
<1> QED BY <1>2, <1>3

\* Nothing but slashes goes with the end of the root.
LEMMA TrimmedIs ==
    ASSUME NEW r \in Words
    PROVE  /\ Trimmed(r) \in Words /\ Components(Trimmed(r)) = Components(r)
           /\ Trimmed(r) # <<>> => Absolute(Trimmed(r)) = Absolute(r)
<1> DEFINE Ends(n) == /\ n = 0 \/ r[n] # Slash
                      /\ \A k \in n + 1 .. Len(r) : r[k] = Slash
           S == {d \in Nat : d <= Len(r) /\ (Len(r) - d = 0 \/ r[Len(r) - d] # Slash)}
<1>1. Len(r) \in Nat /\ S \in SUBSET Nat /\ Len(r) \in S
  BY DEF Words
<1>2. \E n \in 0 .. Len(r) : Ends(n)
  <2>1. PICK d \in S : \A x \in S : d <= x
    BY <1>1, LeastPlace
  <2>2. ASSUME NEW k \in (Len(r) - d) + 1 .. Len(r) PROVE r[k] = Slash
    <3>1. Len(r) - k \in Nat /\ Len(r) - k <= Len(r) /\ ~(d <= Len(r) - k)
          /\ Len(r) - (Len(r) - k) = k
      BY <1>1, <2>1
    <3> QED BY <2>1, <3>1
  <2>3. Len(r) - d \in 0 .. Len(r)
    BY <1>1, <2>1
  <2> QED BY <2>1, <2>2, <2>3
<1>3. PICK m : m = CHOOSE n \in 0 .. Len(r) : Ends(n)
  OBVIOUS
<1>4. m \in 0 .. Len(r) /\ Ends(m)
  BY <1>2, <1>3
<1>5. Trimmed(r) = SubSeq(r, 1, m)
  BY <1>3 DEF Trimmed
<1>6. PICK t : t = SubSeq(r, 1, m)
  OBVIOUS
<1>7. PICK s : s = SubSeq(r, m + 1, Len(r))
  OBVIOUS
<1>8. /\ t \in Words /\ s \in Words /\ r = t \o s
      /\ Len(t) = m /\ \A k \in 1 .. m : t[k] = r[k]
      /\ Len(s) = Len(r) - m /\ \A k \in 1 .. Len(r) - m : s[k] = r[m + k]
  BY <1>4, <1>6, <1>7, Parts
<1>9. \A k \in 1 .. Len(s) : s[k] = Slash
  <2>1. \A k \in 1 .. Len(r) - m : m + k \in m + 1 .. Len(r)
    BY <1>1, <1>4
  <2> QED BY <1>4, <1>8, <2>1
<1>10. Meet(t, s)
  <2>1. s # <<>> => 1 \in 1 .. Len(s)
    BY <1>1, <1>4, <1>8, EmptySeq DEF Words
  <2> QED BY <1>9, <2>1 DEF Meet
<1>11. Components(r) = Components(t) \o <<>>
  BY <1>8, <1>9, <1>10, ComponentsMeet, OnlySlashes
<1>12. Components(t) \o <<>> = Components(t)
  BY <1>8, ComponentsHaveType, ConcatEmptySeq DEF Lists
<1>13. t # <<>> => Absolute(t) = Absolute(r)
  <2>1. t # <<>> => 1 \in 1 .. m /\ r # <<>>
    <3>1. t # <<>> => m # 0
      BY <1>8, EmptySeq DEF Words
    <3>2. m # 0 => 1 \in 1 .. m /\ Len(r) # 0
      BY <1>1, <1>4
    <3> QED BY <3>1, <3>2
  <2> QED BY <1>8, <2>1 DEF Absolute
<1> QED BY <1>5, <1>6, <1>8, <1>11, <1>12, <1>13

\* What is joined has the components of the root and then those of the path.
LEMMA JoinIs ==
    ASSUME NEW r \in Words, NEW p \in Words
    PROVE  /\ Components(Join(r, p)) = Components(r) \o Components(p)
           /\ Components(r) # <<>> => Absolute(Join(r, p)) = Absolute(r)
<1>1. PICK t \in Words : t = Trimmed(r)
  BY TrimmedIs
<1>2. Components(t) = Components(r) /\ (t # <<>> => Absolute(t) = Absolute(r))
  BY <1>1, TrimmedIs
<1>3. <<Slash>> \in Words /\ Components(<<Slash>>) = <<>> /\ <<>> \in Words
  BY SlashHasNone DEF Words
<1>4. PICK u : u = t \o (IF Absolute(p) THEN <<>> ELSE <<Slash>>)
  OBVIOUS
<1>5. Join(r, p) = u \o p
  BY <1>1, <1>4 DEF Join
<1>6. u \in Words /\ Components(u) = Components(t) /\ Meet(u, p)
      /\ \A k \in 1 .. Len(t) : k \in 1 .. Len(u) /\ u[k] = t[k]
  <2>1. CASE Absolute(p)
    <3>1. u = t
      BY <1>4, <2>1, ConcatEmptySeq DEF Words
    <3> QED BY <2>1, <3>1 DEF Meet, Absolute
  <2>2. CASE ~Absolute(p)
    <3>1. u = t \o <<Slash>>
      BY <1>4, <2>2
    <3>2. Len(<<Slash>>) = 1 /\ <<Slash>>[1] = Slash /\ Len(t) \in Nat /\ 1 \in 1 .. 1
      BY DEF Words
    <3>3. /\ u \in Words /\ Len(u) = Len(t) + 1 /\ u[Len(t) + 1] = Slash
          /\ \A k \in 1 .. Len(t) : u[k] = t[k]
      BY <1>3, <3>1, <3>2, Characters
    <3>4. Meet(t, <<Slash>>) /\ Meet(u, p)
      BY <3>2, <3>3 DEF Meet
    <3>5. Components(u) = Components(t) \o <<>>
      BY <1>3, <3>1, <3>4, ComponentsMeet
    <3>6. Components(t) \o <<>> = Components(t)
      BY ComponentsHaveType, ConcatEmptySeq DEF Lists
    <3>7. \A k \in 1 .. Len(t) : k \in 1 .. Len(u)
      BY <3>2, <3>3
    <3> QED BY <3>3, <3>4, <3>5, <3>6, <3>7
  <2> QED BY <2>1, <2>2
<1>7. Components(u \o p) = Components(r) \o Components(p)
  BY <1>2, <1>6, ComponentsMeet
<1>8. ASSUME Components(r) # <<>> PROVE Absolute(u \o p) = Absolute(r)
  <2>1. t # <<>>
    <3>1. Len(<<>>) = 0 /\ \A k \in 1 .. 0 : FALSE
      OBVIOUS
    <3>2. Components(<<>>) = <<>>
      BY <1>3, <3>1, OnlySlashes
    <3> QED BY <1>2, <1>8, <3>2
  <2>2. 1 \in 1 .. Len(t)
    BY <2>1, EmptySeq DEF Words
  <2>3. 1 \in 1 .. Len(u) /\ u[1] = t[1]
    BY <1>6, <2>2
  <2>4. PICK j : j = u \o p
    OBVIOUS
  <2>5. j \in Words /\ Len(j) = Len(u) + Len(p) /\ j[1] = u[1] /\ Len(u) \in Nat /\ Len(p) \in Nat
    BY <1>6, <2>3, <2>4, Characters DEF Words
  <2>6. Len(j) # 0
    BY <2>3, <2>5
  <2>7. j # <<>>
    BY <2>6
  <2> QED BY <1>2, <2>1, <2>3, <2>4, <2>5, <2>7 DEF Absolute
<1> QED BY <1>5, <1>7, <1>8

-----------------------------------------------------------------------------
(* The first place where two words, or two lists of components, differ.    *)

Differ(c, d, i) ==
    /\ i \in 1 .. Len(c) + 1 /\ i \in 1 .. Len(d) + 1
    /\ \A j \in 1 .. i - 1 : c[j] = d[j]
    /\ i > Len(c) \/ i > Len(d) \/ c[i] # d[i]
    /\ i <= Len(c) \/ i <= Len(d)

\* There is one.
LEMMA SomeDifference ==
    ASSUME NEW E, NEW c \in Seq(E), NEW d \in Seq(E), c # d
    PROVE  \E i \in Nat : Differ(c, d, i)
<1> DEFINE S == {i \in Nat : /\ i \in 1 .. Len(c) + 1 /\ i \in 1 .. Len(d) + 1
                             /\ i > Len(c) \/ i > Len(d) \/ c[i] # d[i]}
<1>1. Len(c) \in Nat /\ Len(d) \in Nat
  OBVIOUS
<1>2. S # {}
  <2>1. CASE Len(c) < Len(d)
    <3>1. Len(c) + 1 \in S
      BY <1>1, <2>1
    <3> QED BY <3>1
  <2>2. CASE Len(d) <= Len(c)
    <3>1. CASE Len(d) < Len(c)
      <4>1. Len(d) + 1 \in S
        BY <1>1, <3>1
      <4> QED BY <4>1
    <3>2. CASE Len(d) = Len(c)
      <4>1. PICK j \in 1 .. Len(c) : c[j] # d[j]
        BY <3>2, SeqEqual
      <4>2. j \in S
        BY <1>1, <3>2, <4>1
      <4> QED BY <4>2
    <3> QED BY <1>1, <2>2, <3>1, <3>2
  <2> QED BY <1>1, <2>1, <2>2
<1>3. PICK i \in S : \A x \in S : i <= x
  BY <1>2, LeastPlace
<1>4. \A j \in 1 .. i - 1 : c[j] = d[j]
  <2>1. \A j \in 1 .. i - 1 :
            j \in Nat /\ j \in 1 .. Len(c) + 1 /\ j \in 1 .. Len(d) + 1 /\ ~(i <= j)
    BY <1>1, <1>3
  <2> QED BY <1>3, <2>1
<1>5. i <= Len(c) \/ i <= Len(d)
  <2> SUFFICES ASSUME i > Len(c), i > Len(d) PROVE FALSE
    BY <1>1, <1>3
  <2>1. Len(c) = Len(d) /\ i = Len(c) + 1
    BY <1>1, <1>3
  <2>2. \A j \in 1 .. Len(c) : j \in 1 .. i - 1
    BY <1>1, <2>1
  <2> QED BY <1>4, <2>1, <2>2, SeqEqual
<1> QED BY <1>3, <1>4, <1>5 DEF Differ

\* There is only one.
LEMMA OneDifference ==
    ASSUME NEW c, NEW d, Len(c) \in Nat, Len(d) \in Nat,
           NEW i \in Nat, NEW k \in Nat, Differ(c, d, i), Differ(c, d, k)
    PROVE  i = k
<1>1. CASE i < k
  <2>1. i \in 1 .. k - 1 /\ i <= Len(c) /\ i <= Len(d)
    BY <1>1 DEF Differ
  <2> QED BY <2>1 DEF Differ
<1>2. CASE k < i
  <2>1. k \in 1 .. i - 1 /\ k <= Len(c) /\ k <= Len(d)
    BY <1>2 DEF Differ
  <2> QED BY <2>1 DEF Differ
<1> QED BY <1>1, <1>2

\* It is the same one from either side.
LEMMA DifferBothWays ==
    ASSUME NEW c, NEW d, NEW i, Differ(c, d, i)
    PROVE  Differ(d, c, i)
<1>1. \A j \in 1 .. i - 1 : d[j] = c[j]
  BY DEF Differ
<1> QED BY <1>1 DEF Differ

\* Nothing differs from itself.
LEMMA NoDifference ==
    ASSUME NEW c, Len(c) \in Nat, NEW i, Differ(c, c, i)
    PROVE  FALSE
<1>1. i \in Nat /\ i <= Len(c)
  BY DEF Differ
<1> QED BY <1>1 DEF Differ

-----------------------------------------------------------------------------
(* The order of words.                                                     *)

LEMMA SignIs ==
    ASSUME NEW n \in Int
    PROVE  /\ Sign(n) \in {-1, 0, 1} /\ Sign(0 - n) = -Sign(n)
           /\ (Sign(n) = 0 <=> n = 0) /\ (Sign(n) = 1 <=> n > 0) /\ (Sign(n) = -1 <=> n < 0)
BY DEF Sign

\* memcmp() compares the first characters that differ.
LEMMA memcmpIs ==
    ASSUME NEW u \in Words, NEW v \in Words, Len(u) = Len(v)
    PROVE  /\ u = v => memcmp(u, v) = 0
           /\ \A i \in 1 .. Len(u) : Differ(u, v, i) => memcmp(u, v) = Sign(u[i] - v[i])
<1> DEFINE differ == {i \in DOMAIN u : u[i] # v[i]}
<1>1. Len(u) \in Nat /\ DOMAIN u = 1 .. Len(u)
  BY DEF Words
<1>2. u = v => memcmp(u, v) = 0
  <2>1. u = v => differ = {}
    OBVIOUS
  <2> QED BY <2>1 DEF memcmp
<1>3. ASSUME NEW i \in 1 .. Len(u), Differ(u, v, i)
      PROVE  memcmp(u, v) = Sign(u[i] - v[i])
  <2>1. i \in differ
    BY <1>1, <1>3 DEF Differ
  <2>2. \A j \in differ : j \in 1 .. Len(u) /\ i <= j
    <3>1. \A j \in 1 .. Len(u) : j \in 1 .. i - 1 \/ i <= j
      BY <1>1
    <3> QED BY <1>1, <1>3, <3>1 DEF Differ
  <2>3. PICK k : k = CHOOSE m \in differ : \A j \in differ : m <= j
    OBVIOUS
  <2>4. k \in differ /\ \A j \in differ : k <= j
    BY <2>1, <2>2, <2>3
  <2>5. k = i
    BY <1>1, <2>1, <2>2, <2>4
  <2>6. memcmp(u, v) = Sign(u[k] - v[k])
    BY <2>1, <2>3 DEF memcmp
  <2> QED BY <2>5, <2>6
<1> QED BY <1>2, <1>3

\* Two words at the first place where they differ.
WordsAt(u, v, i) ==
    IF i > Len(u) THEN -1 ELSE IF i > Len(v) THEN 1 ELSE Sign(u[i] - v[i])

\* Words are ordered by the first characters that differ, and a word comes before one
\* that goes on.
LEMMA CompareWordsIs ==
    ASSUME NEW u \in Words, NEW v \in Words
    PROVE  /\ u = v => CompareWords(u, v) = 0
           /\ \A i \in Nat : Differ(u, v, i) => CompareWords(u, v) = WordsAt(u, v, i)
<1>1. Len(u) \in Nat /\ Len(v) \in Nat
  BY DEF Words
<1>2. PICK n \in Nat : n = IF Len(u) < Len(v) THEN Len(u) ELSE Len(v)
  BY <1>1
<1>3. n \in 0 .. Len(u) /\ n \in 0 .. Len(v)
  BY <1>1, <1>2
<1>4. PICK x : x = SubSeq(u, 1, n)
  OBVIOUS
<1>5. PICK y : y = SubSeq(v, 1, n)
  OBVIOUS
<1>6. x \in Words /\ Len(x) = n /\ \A k \in 1 .. n : x[k] = u[k]
  BY <1>3, <1>4, Parts
<1>7. y \in Words /\ Len(y) = n /\ \A k \in 1 .. n : y[k] = v[k]
  BY <1>3, <1>5, Parts
<1>8. CompareWords(u, v) = IF memcmp(x, y) # 0 THEN memcmp(x, y) ELSE Sign(Len(u) - Len(v))
  BY <1>2, <1>4, <1>5 DEF CompareWords
<1>9. u = v => CompareWords(u, v) = 0
  <2>1. u = v => x = y /\ Len(u) - Len(v) = 0
    BY <1>1, <1>4, <1>5
  <2>2. x = y => memcmp(x, y) = 0
    BY <1>6, <1>7, memcmpIs
  <2> QED BY <1>8, <2>1, <2>2, SignIs
<1>10. ASSUME NEW i \in Nat, Differ(u, v, i)
       PROVE  CompareWords(u, v) = WordsAt(u, v, i)
  <2>1. CASE i <= n
    <3>1. i \in 1 .. n /\ \A j \in 1 .. i - 1 : j \in 1 .. n
      BY <1>10, <2>1 DEF Differ
    <3>2. i <= Len(u) /\ i <= Len(v) /\ u[i] # v[i]
      BY <1>1, <1>3, <1>10, <2>1 DEF Differ
    <3>3. \A j \in 1 .. i - 1 : x[j] = y[j]
      BY <1>6, <1>7, <1>10, <3>1 DEF Differ
    <3>4. x[i] = u[i] /\ y[i] = v[i]
      BY <1>6, <1>7, <3>1
    <3>5. Differ(x, y, i)
      BY <1>6, <1>7, <3>1, <3>2, <3>3, <3>4 DEF Differ
    <3>6. memcmp(x, y) = Sign(u[i] - v[i])
      BY <1>6, <1>7, <3>1, <3>4, <3>5, memcmpIs
    <3>7. u[i] \in Nat /\ v[i] \in Nat
      <4>1. i \in 1 .. Len(u) /\ i \in 1 .. Len(v)
        BY <1>1, <3>1, <3>2
      <4> QED BY <4>1 DEF Words
    <3>8. Sign(u[i] - v[i]) # 0
      BY <3>2, <3>7, SignIs
    <3>9. WordsAt(u, v, i) = Sign(u[i] - v[i])
      BY <1>1, <3>2 DEF WordsAt
    <3> QED BY <1>8, <3>6, <3>8, <3>9
  <2>2. CASE ~(i <= n)
    <3>1. i = n + 1 /\ \A j \in 1 .. n : j \in 1 .. i - 1
      BY <1>1, <1>2, <1>10, <2>2 DEF Differ
    <3>2. \A j \in 1 .. n : x[j] = y[j]
      BY <1>6, <1>7, <1>10, <3>1 DEF Differ
    <3>3. x = y
      BY <1>6, <1>7, <3>2, SeqEqual DEF Words
    <3>4. memcmp(x, y) = 0
      BY <1>6, <1>7, <3>3, memcmpIs
    <3>5. Len(u) # Len(v)
      BY <1>1, <1>2, <1>10, <3>1 DEF Differ
    <3>6. Sign(Len(u) - Len(v)) = WordsAt(u, v, i)
      BY <1>1, <1>2, <3>1, <3>5, SignIs DEF WordsAt
    <3> QED BY <1>8, <3>4, <3>6
  <2> QED BY <2>1, <2>2
<1> QED BY <1>9, <1>10

\* It is one order, whichever of the two is asked about first.
LEMMA WordsAreOrdered ==
    ASSUME NEW u \in Words, NEW v \in Words
    PROVE  /\ CompareWords(u, v) \in {-1, 0, 1} /\ (CompareWords(u, v) = 0 <=> u = v)
           /\ CompareWords(v, u) = -CompareWords(u, v)
<1>1. Len(u) \in Nat /\ Len(v) \in Nat
  BY DEF Words
<1>2. CASE u = v
  BY <1>2, CompareWordsIs
<1>3. CASE u # v
  <2>1. PICK i \in Nat : Differ(u, v, i)
    BY <1>3, SomeDifference DEF Words
  <2>2. Differ(v, u, i)
    BY <2>1, DifferBothWays
  <2>3. CompareWords(u, v) = WordsAt(u, v, i) /\ CompareWords(v, u) = WordsAt(v, u, i)
    BY <2>1, <2>2, CompareWordsIs
  <2>4. CASE i <= Len(u) /\ i <= Len(v)
    <3>1. i \in 1 .. Len(u) /\ i \in 1 .. Len(v) /\ u[i] # v[i]
      BY <1>1, <2>1, <2>4 DEF Differ
    <3>2. u[i] \in Nat /\ v[i] \in Nat
      BY <3>1 DEF Words
    <3>3. 0 - (u[i] - v[i]) = v[i] - u[i] /\ u[i] - v[i] # 0
      BY <3>1, <3>2
    <3>4. WordsAt(u, v, i) = Sign(u[i] - v[i]) /\ WordsAt(v, u, i) = Sign(v[i] - u[i])
      BY <1>1, <2>4 DEF WordsAt
    <3>5. PICK x \in Int : x = u[i] - v[i]
      BY <3>2
    <3>6. Sign(x) \in {-1, 0, 1} /\ Sign(0 - x) = -Sign(x) /\ Sign(x) # 0
      BY <3>3, <3>5, SignIs
    <3> QED BY <1>3, <2>3, <3>3, <3>4, <3>5, <3>6
  <2>5. CASE ~(i <= Len(u) /\ i <= Len(v))
    BY <1>1, <1>3, <2>1, <2>3, <2>5 DEF WordsAt, Differ
  <2> QED BY <2>4, <2>5
<1> QED BY <1>2, <1>3

-----------------------------------------------------------------------------
(* The order of paths, by their components.                                *)

\* Two lists of components at the first place where they differ.
ListsAt(c, d, i) ==
    IF i > Len(c) THEN -1 ELSE IF i > Len(d) THEN 1 ELSE CompareWords(c[i], d[i])

CompareLists(c, d) ==
    IF c = d THEN 0 ELSE ListsAt(c, d, CHOOSE i \in Nat : Differ(c, d, i))

LEMMA CompareListsIs ==
    ASSUME NEW c \in Lists, NEW d \in Lists, NEW i \in Nat, Differ(c, d, i)
    PROVE  CompareLists(c, d) = ListsAt(c, d, i)
<1>1. Len(c) \in Nat /\ Len(d) \in Nat
  BY DEF Lists
<1>2. PICK k : k = CHOOSE m \in Nat : Differ(c, d, m)
  OBVIOUS
<1>3. k \in Nat /\ Differ(c, d, k)
  BY <1>2
<1>4. k = i
  BY <1>1, <1>3, OneDifference
<1>5. c # d
  BY <1>1, NoDifference
<1> QED BY <1>2, <1>4, <1>5 DEF CompareLists

LEMMA ListsAreOrdered ==
    ASSUME NEW c \in Lists, NEW d \in Lists
    PROVE  /\ CompareLists(c, d) \in {-1, 0, 1} /\ (CompareLists(c, d) = 0 <=> c = d)
           /\ CompareLists(d, c) = -CompareLists(c, d)
<1>1. Len(c) \in Nat /\ Len(d) \in Nat
  BY DEF Lists
<1>2. CASE c = d
  <2>1. CompareLists(c, d) = 0 /\ CompareLists(d, c) = 0
    BY <1>2 DEF CompareLists
  <2>2. PICK x \in Int : x = CompareLists(c, d)
    BY <2>1
  <2>3. 0 - x = x
    BY <2>1, <2>2
  <2>4. -x = 0 - x
    OBVIOUS
  <2> QED BY ONLY <1>2, <2>1, <2>2, <2>3, <2>4, Zenon
<1>3. CASE c # d
  <2>1. PICK i \in Nat : Differ(c, d, i)
    BY <1>3, SomeDifference DEF Lists
  <2>2. Differ(d, c, i)
    BY <2>1, DifferBothWays
  <2>3. CompareLists(c, d) = ListsAt(c, d, i) /\ CompareLists(d, c) = ListsAt(d, c, i)
    BY <2>1, <2>2, CompareListsIs
  <2>4. CASE i <= Len(c) /\ i <= Len(d)
    <3>1. i \in 1 .. Len(c) /\ i \in 1 .. Len(d) /\ c[i] # d[i]
      BY <1>1, <2>1, <2>4 DEF Differ
    <3>2. c[i] \in Words /\ d[i] \in Words
      BY <3>1 DEF Lists
    <3>3. ListsAt(c, d, i) = CompareWords(c[i], d[i]) /\ ListsAt(d, c, i) = CompareWords(d[i], c[i])
      BY <1>1, <2>4 DEF ListsAt
    <3> QED BY <1>3, <2>3, <3>1, <3>2, <3>3, WordsAreOrdered
  <2>5. CASE ~(i <= Len(c) /\ i <= Len(d))
    BY <1>1, <1>3, <2>1, <2>3, <2>5 DEF ListsAt, Differ
  <2> QED BY <2>4, <2>5
<1> QED BY <1>2, <1>3

\* A list comes before one that goes on.
LEMMA DirectoryFirst ==
    ASSUME NEW c \in Lists, NEW d \in Lists, IsStrictPrefix(c, d)
    PROVE  CompareLists(c, d) = -1
<1>1. Len(c) \in Nat /\ Len(d) \in Nat /\ Len(c) <= Len(d) /\ c # d
  BY DEF Lists, IsStrictPrefix, IsPrefix
<1>2. c = SubSeq(d, 1, Len(c))
  <2>1. SubSeq(c, 1, Len(c)) = c
    BY SubSeqFull DEF Lists
  <2> QED BY <2>1 DEF IsStrictPrefix, IsPrefix
<1>3. Len(c) # Len(d)
  <2>1. SubSeq(d, 1, Len(d)) = d
    BY SubSeqFull DEF Lists
  <2> QED BY <1>1, <1>2, <2>1
<1>4. \A j \in 1 .. Len(c) : c[j] = d[j]
  <2>1. 1 \in 1 .. Len(d) + 1 /\ Len(c) \in 1 - 1 .. Len(d)
    BY <1>1
  <2>2. PICK e : e = SubSeq(d, 1, Len(c))
    OBVIOUS
  <2>3. \A j \in 1 .. Len(c) - 1 + 1 : e[j] = d[1 + j - 1]
    BY <2>1, <2>2, SubSeqProperties DEF Lists
  <2>4. \A j \in 1 .. Len(c) : j \in 1 .. Len(c) - 1 + 1 /\ 1 + j - 1 = j
    BY <1>1
  <2> QED BY <1>2, <2>2, <2>3, <2>4
<1>5. PICK i \in Nat : i = Len(c) + 1
  BY <1>1
<1>6. Differ(c, d, i)
  <2>1. /\ i \in 1 .. Len(c) + 1 /\ i \in 1 .. Len(d) + 1
        /\ i > Len(c) /\ i <= Len(d) /\ i - 1 = Len(c)
    BY <1>1, <1>3, <1>5
  <2> QED BY <1>4, <2>1 DEF Differ
<1>7. ListsAt(c, d, i) = -1
  BY <1>1, <1>5 DEF ListsAt
<1> QED BY <1>6, <1>7, CompareListsIs

\* Lists are ordered by their first components, and by the others if these are equal.
LEMMA CompareFirst ==
    ASSUME NEW c \in Lists, NEW d \in Lists, NEW u \in Words, NEW v \in Words
    PROVE  CompareLists(<<u>> \o c, <<v>> \o d) =
               IF CompareWords(u, v) # 0 THEN CompareWords(u, v) ELSE CompareLists(c, d)
<1>1. PICK e : e = <<u>> \o c
  OBVIOUS
<1>2. PICK f : f = <<v>> \o d
  OBVIOUS
<1>3. e \in Lists /\ Len(e) = 1 + Len(c) /\ e[1] = u /\ \A m \in 1 .. Len(c) : e[m + 1] = c[m]
  BY <1>1, FirstOf
<1>4. f \in Lists /\ Len(f) = 1 + Len(d) /\ f[1] = v /\ \A m \in 1 .. Len(d) : f[m + 1] = d[m]
  BY <1>2, FirstOf
<1>5. Len(c) \in Nat /\ Len(d) \in Nat
  BY DEF Lists
<1>6. CASE u # v
  <2>1. Differ(e, f, 1) /\ ListsAt(e, f, 1) = CompareWords(u, v)
    BY <1>3, <1>4, <1>5, <1>6 DEF Differ, ListsAt
  <2>2. CompareLists(e, f) = CompareWords(u, v)
    BY <1>3, <1>4, <2>1, CompareListsIs
  <2>3. CompareWords(u, v) # 0
    BY <1>6, WordsAreOrdered
  <2> QED BY <1>1, <1>2, <2>2, <2>3
<1>7. CASE u = v /\ c = d
  <2>1. CompareWords(u, v) = 0
    BY <1>7, WordsAreOrdered
  <2> QED BY <1>7, <2>1 DEF CompareLists
<1>8. CASE u = v /\ c # d
  <2>1. PICK i \in Nat : Differ(c, d, i)
    BY <1>8, SomeDifference DEF Lists
  <2>2. i \in 1 .. Len(c) + 1 /\ i \in 1 .. Len(d) + 1
    BY <2>1 DEF Differ
  <2>3. ASSUME NEW j \in 1 .. (i + 1) - 1 PROVE e[j] = f[j]
    <3>1. CASE j = 1
      BY <1>3, <1>4, <1>8, <3>1
    <3>2. CASE j # 1
      <4>1. j - 1 \in 1 .. i - 1 /\ j - 1 \in 1 .. Len(c) /\ j - 1 \in 1 .. Len(d)
            /\ (j - 1) + 1 = j
        BY <1>5, <2>2, <3>2
      <4>2. e[(j - 1) + 1] = c[j - 1] /\ f[(j - 1) + 1] = d[j - 1] /\ c[j - 1] = d[j - 1]
        BY <1>3, <1>4, <2>1, <4>1 DEF Differ
      <4> QED BY <4>1, <4>2
    <3> QED BY <3>1, <3>2
  <2>4. /\ i <= Len(c) => e[i + 1] = c[i]
        /\ i <= Len(d) => f[i + 1] = d[i]
    <3>1. (i <= Len(c) => i \in 1 .. Len(c)) /\ (i <= Len(d) => i \in 1 .. Len(d))
      BY <1>5, <2>2
    <3> QED BY <1>3, <1>4, <3>1
  <2>5. /\ (i + 1 > Len(e) <=> i > Len(c)) /\ (i + 1 > Len(f) <=> i > Len(d))
        /\ i + 1 \in 1 .. Len(e) + 1 /\ i + 1 \in 1 .. Len(f) + 1 /\ i + 1 \in Nat
        /\ (i + 1 <= Len(e) <=> i <= Len(c)) /\ (i + 1 <= Len(f) <=> i <= Len(d))
    <3>1. Len(e) = 1 + Len(c) /\ Len(f) = 1 + Len(d)
      BY <1>3, <1>4
    <3> QED BY ONLY <1>5, <2>2, <3>1
  <2>6. Differ(e, f, i + 1)
    <3>1. i > Len(c) \/ i > Len(d) \/ c[i] # d[i]
      BY <2>1 DEF Differ
    <3>2. i <= Len(c) \/ i <= Len(d)
      BY <2>1 DEF Differ
    <3>3. i + 1 > Len(e) \/ i + 1 > Len(f) \/ e[i + 1] # f[i + 1]
      BY <1>5, <2>2, <2>4, <2>5, <3>1
    <3> QED BY <2>3, <2>5, <3>2, <3>3 DEF Differ
  <2>7. ListsAt(e, f, i + 1) = ListsAt(c, d, i)
    BY <1>5, <2>2, <2>4, <2>5 DEF ListsAt
  <2>8. CompareLists(e, f) = ListsAt(e, f, i + 1) /\ CompareLists(c, d) = ListsAt(c, d, i)
    BY <1>3, <1>4, <2>1, <2>5, <2>6, CompareListsIs
  <2>9. CompareWords(u, v) = 0
    BY <1>8, WordsAreOrdered
  <2> QED BY <1>1, <1>2, <2>7, <2>8, <2>9
<1> QED BY <1>6, <1>7, <1>8

\* An empty list comes first.
LEMMA CompareEmpty ==
    ASSUME NEW c \in Lists, c # <<>>
    PROVE  CompareLists(<<>>, c) = -1 /\ CompareLists(c, <<>>) = 1
<1>1. Len(c) \in Nat /\ Len(c) # 0 /\ <<>> \in Lists /\ Len(<<>>) = 0
  BY EmptySeq DEF Lists
<1>2. PICK e \in Lists : e = <<>>
  BY <1>1
<1>3. Differ(e, c, 1) /\ ListsAt(e, c, 1) = -1
  BY <1>1, <1>2 DEF Differ, ListsAt
<1>4. CompareLists(e, c) = -1
  BY <1>3, CompareListsIs
<1>5. CompareLists(c, e) = 1
  BY <1>4, ListsAreOrdered
<1> QED BY <1>2, <1>4, <1>5

\* The places that path_compare() goes to, and the components that it finds there.
LEMMA CutGoesOn ==
    ASSUME NEW p \in Words, NEW f, IsCut(p, f), NEW i, Within(p, i),
           NEW x, x = AfterSlashes(p, i), NEW z, z = AfterWord(p, x)
    PROVE  /\ x > Len(p) => f[i] = <<>>
           /\ x <= Len(p) => /\ SubSeq(p, x, z - 1) \in Words
                             /\ z \in i + 1 .. Len(p) + 1
                             /\ f[i] = <<SubSeq(p, x, z - 1)>> \o f[z]
<1>1. Len(p) \in Nat /\ i \in 1 .. Len(p) + 1
  BY DEF Words, Within
<1>2. /\ x \in i .. Len(p) + 1 /\ (x > Len(p) \/ p[x] # Slash)
      /\ \A k \in i .. x - 1 : p[k] = Slash
  BY AfterSlashesIs
<1>3. f[i] = f[x]
  BY <1>2, CutSlashes
<1>4. CASE x > Len(p)
  <2>1. x = Len(p) + 1
    BY <1>1, <1>2, <1>4
  <2> QED BY <1>1, <1>3, <1>4, <2>1, CutAt
<1>5. CASE x <= Len(p)
  <2>1. Within(p, x) /\ x \in 1 .. Len(p)
    BY <1>1, <1>2, <1>5 DEF Within
  <2>2. /\ z \in x .. Len(p) + 1 /\ (z > Len(p) \/ p[z] = Slash)
        /\ \A k \in x .. z - 1 : p[k] # Slash
    BY <2>1, AfterWordIs
  <2>3. z # x
    BY <1>2, <1>5, <2>1, <2>2
  <2>4. z \in x + 1 .. Len(p) + 1 /\ z \in i + 1 .. Len(p) + 1
    BY <1>1, <1>2, <2>1, <2>2, <2>3
  <2>5. f[x] = <<SubSeq(p, x, z - 1)>> \o f[z]
    BY <2>1, <2>2, <2>4, CutWord
  <2>6. SubSeq(p, x, z - 1) \in Words
    <3>1. x \in 1 .. Len(p) + 1 /\ z - 1 \in x - 1 .. Len(p)
      BY <1>1, <2>1, <2>4
    <3> QED BY <3>1, SubSeqProperties DEF Words
  <2> QED BY <1>1, <1>3, <1>5, <2>1, <2>4, <2>5, <2>6
<1> QED BY <1>1, <1>2, <1>4, <1>5

\* A turn of path_compare()'s loop.
WalkAt(p, q, w, i, j) ==
    LET x  == AfterSlashes(p, i)
        y  == AfterSlashes(q, j)
        x2 == AfterWord(p, x)
        y2 == AfterWord(q, y)
        d  == CompareWords(SubSeq(p, x, x2 - 1), SubSeq(q, y, y2 - 1))
    IN  IF x > Len(p) /\ y > Len(q) THEN 0
        ELSE IF x > Len(p) THEN -1
        ELSE IF y > Len(q) THEN 1
        ELSE IF d # 0 THEN d ELSE w[x2][y2]

\* What the rest is compared to from places behind i, and what it means.
Compares(p, q, f, g, w, i) ==
    \A k \in i .. Len(p) + 1 : \A j \in 1 .. Len(q) + 1 : w[k][j] = CompareLists(f[k], g[j])

\* If it means the order of the components from there on, so it does here.
LEMMA WalkStep ==
    ASSUME NEW p \in Words, NEW q \in Words, NEW f, IsCut(p, f), NEW g, IsCut(q, g),
           NEW i, Within(p, i), NEW j, Within(q, j), NEW w, Compares(p, q, f, g, w, i + 1)
    PROVE  WalkAt(p, q, w, i, j) = CompareLists(f[i], g[j])
<1>0. Len(p) \in Nat /\ Len(q) \in Nat /\ i \in Nat /\ j \in Nat
  BY DEF Words, Within
<1>1. PICK x : x = AfterSlashes(p, i)
  OBVIOUS
<1>2. PICK x2 : x2 = AfterWord(p, x)
  OBVIOUS
<1>3. PICK y : y = AfterSlashes(q, j)
  OBVIOUS
<1>4. PICK y2 : y2 = AfterWord(q, y)
  OBVIOUS
<1>5. PICK u : u = SubSeq(p, x, x2 - 1)
  OBVIOUS
<1>6. PICK v : v = SubSeq(q, y, y2 - 1)
  OBVIOUS
<1>7. /\ x > Len(p) => f[i] = <<>>
      /\ x <= Len(p) => u \in Words /\ x2 \in i + 1 .. Len(p) + 1 /\ f[i] = <<u>> \o f[x2]
  BY <1>1, <1>2, <1>5, CutGoesOn
<1>8. /\ y > Len(q) => g[j] = <<>>
      /\ y <= Len(q) => v \in Words /\ y2 \in j + 1 .. Len(q) + 1 /\ g[j] = <<v>> \o g[y2]
  BY <1>3, <1>4, <1>6, CutGoesOn
<1>9. WalkAt(p, q, w, i, j) =
          IF x > Len(p) /\ y > Len(q) THEN 0
          ELSE IF x > Len(p) THEN -1
          ELSE IF y > Len(q) THEN 1
          ELSE IF CompareWords(u, v) # 0 THEN CompareWords(u, v) ELSE w[x2][y2]
  BY <1>1, <1>2, <1>3, <1>4, <1>5, <1>6 DEF WalkAt
<1>10. x \in Nat /\ y \in Nat
  <2>1. x \in i .. Len(p) + 1 /\ y \in j .. Len(q) + 1
    BY <1>1, <1>3, AfterSlashesIs
  <2> QED BY <1>0, <2>1
<1>11. CASE x > Len(p) /\ y > Len(q)
  BY <1>7, <1>8, <1>9, <1>11 DEF CompareLists
<1>12. CASE x > Len(p) /\ y <= Len(q)
  <2>1. y2 \in 1 .. Len(q) + 1
    BY <1>0, <1>8, <1>12
  <2>2. PICK d \in Lists : d = g[y2]
    BY <2>1, CutHasType
  <2>3. g[j] \in Lists /\ g[j] # <<>>
    <3>1. g[j] = <<v>> \o d /\ v \in Words
      BY <1>8, <1>12, <2>2
    <3> QED BY <3>1, FirstOf
  <2>4. CompareLists(<<>>, g[j]) = -1
    BY <2>3, CompareEmpty
  <2> QED BY <1>0, <1>7, <1>9, <1>10, <1>12, <2>4
<1>13. CASE x <= Len(p) /\ y > Len(q)
  <2>1. x2 \in 1 .. Len(p) + 1
    BY <1>0, <1>7, <1>13
  <2>2. PICK c \in Lists : c = f[x2]
    BY <2>1, CutHasType
  <2>3. f[i] \in Lists /\ f[i] # <<>>
    <3>1. f[i] = <<u>> \o c /\ u \in Words
      BY <1>7, <1>13, <2>2
    <3> QED BY <3>1, FirstOf
  <2>4. CompareLists(f[i], <<>>) = 1
    BY <2>3, CompareEmpty
  <2> QED BY <1>0, <1>8, <1>9, <1>10, <1>13, <2>4
<1>14. CASE x <= Len(p) /\ y <= Len(q)
  <2>1. x2 \in 1 .. Len(p) + 1 /\ y2 \in 1 .. Len(q) + 1 /\ x2 \in i + 1 .. Len(p) + 1
    BY <1>0, <1>7, <1>8, <1>14
  <2>2. PICK c \in Lists : c = f[x2]
    BY <2>1, CutHasType
  <2>3. PICK d \in Lists : d = g[y2]
    BY <2>1, CutHasType
  <2>4. w[x2][y2] = CompareLists(c, d)
    BY <2>1, <2>2, <2>3 DEF Compares
  <2>5. CompareLists(<<u>> \o c, <<v>> \o d) =
            IF CompareWords(u, v) # 0 THEN CompareWords(u, v) ELSE CompareLists(c, d)
    BY <1>7, <1>8, <1>14, CompareFirst
  <2>6. f[i] = <<u>> \o c /\ g[j] = <<v>> \o d
    BY <1>7, <1>8, <1>14, <2>2, <2>3
  <2>7. ~(x > Len(p)) /\ ~(y > Len(q))
    BY <1>0, <1>10, <1>14
  <2>8. WalkAt(p, q, w, i, j) =
            IF CompareWords(u, v) # 0 THEN CompareWords(u, v) ELSE CompareLists(c, d)
    BY <1>9, <2>4, <2>7
  <2> QED BY <2>5, <2>6, <2>8
<1> QED BY <1>0, <1>10, <1>11, <1>12, <1>13, <1>14

IsWalk(p, q, w) ==
    w = [i \in 1 .. Len(p) + 1 |-> [j \in 1 .. Len(q) + 1 |-> WalkAt(p, q, w, i, j)]]

\* There is a walk: the order of the components is one.
LEMMA WalkExists ==
    ASSUME NEW p \in Words, NEW q \in Words
    PROVE  \E w : IsWalk(p, q, w)
<1>0. Len(p) \in Nat /\ Len(q) \in Nat
  BY DEF Words
<1>1. PICK f : IsCut(p, f)
  BY CutExists
<1>2. PICK g : IsCut(q, g)
  BY CutExists
<1>3. PICK w : w = [i \in 1 .. Len(p) + 1 |-> [j \in 1 .. Len(q) + 1 |-> CompareLists(f[i], g[j])]]
  OBVIOUS
<1>4. ASSUME NEW i \in 1 .. Len(p) + 1, NEW j \in 1 .. Len(q) + 1
      PROVE  WalkAt(p, q, w, i, j) = CompareLists(f[i], g[j])
  <2>1. \A k \in i + 1 .. Len(p) + 1 : k \in 1 .. Len(p) + 1
    BY <1>0
  <2>2. Compares(p, q, f, g, w, i + 1)
    BY <1>3, <2>1 DEF Compares
  <2>3. Within(p, i) /\ Within(q, j)
    BY DEF Within
  <2> QED BY <1>1, <1>2, <2>2, <2>3, WalkStep
<1>5. w = [i \in 1 .. Len(p) + 1 |-> [j \in 1 .. Len(q) + 1 |-> WalkAt(p, q, w, i, j)]]
  BY <1>3, <1>4
<1> QED BY <1>5 DEF IsWalk

\* And there is no other.
LEMMA WalkIs ==
    ASSUME NEW p \in Words, NEW q \in Words, NEW f, IsCut(p, f), NEW g, IsCut(q, g),
           NEW w, IsWalk(p, q, w)
    PROVE  w[1][1] = CompareLists(f[1], g[1])
<1> DEFINE S == {i \in 1 .. Len(p) + 1 : Compares(p, q, f, g, w, i)}
<1>0. Len(p) \in Nat /\ Len(q) \in Nat /\ 1 \in Nat /\ Len(p) + 1 \in Nat
  BY DEF Words
<1>1. ASSUME NEW i \in 1 .. Len(p) + 1, NEW j \in 1 .. Len(q) + 1
      PROVE  w[i][j] = WalkAt(p, q, w, i, j)
  <2> DEFINE Row(k) == [m \in 1 .. Len(q) + 1 |-> WalkAt(p, q, w, k, m)]
  <2>1. w = [k \in 1 .. Len(p) + 1 |-> Row(k)]
    BY DEF IsWalk
  <2>2. w[i] = Row(i)
    <3> HIDE DEF Row
    <3> QED BY <2>1
  <2>3. Row(i)[j] = WalkAt(p, q, w, i, j)
    OBVIOUS
  <2> QED BY <2>2, <2>3
<1>2. ASSUME NEW i \in 1 .. Len(p) + 1, Compares(p, q, f, g, w, i + 1)
      PROVE  Compares(p, q, f, g, w, i)
  <2>1. ASSUME NEW k \in i .. Len(p) + 1, NEW j \in 1 .. Len(q) + 1
        PROVE  w[k][j] = CompareLists(f[k], g[j])
    <3>1. CASE k = i
      <4>1. Within(p, i) /\ Within(q, j)
        BY DEF Within
      <4>2. WalkAt(p, q, w, i, j) = CompareLists(f[i], g[j])
        BY <1>2, <4>1, WalkStep
      <4> QED BY <1>1, <3>1, <4>2
    <3>2. CASE k # i
      <4>1. k \in i + 1 .. Len(p) + 1
        BY <1>0, <3>2
      <4> QED BY <1>2, <4>1 DEF Compares
    <3> QED BY <3>1, <3>2
  <2> QED BY <2>1 DEF Compares
<1>3. Len(p) + 1 \in S
  <2>1. Len(p) + 1 \in 1 .. Len(p) + 1 /\ \A k \in (Len(p) + 1) + 1 .. Len(p) + 1 : FALSE
    BY <1>0
  <2>2. Compares(p, q, f, g, w, (Len(p) + 1) + 1)
    BY <2>1 DEF Compares
  <2> QED BY <1>2, <2>1, <2>2
<1>4. \A k \in 1 .. (Len(p) + 1) - 1 : k + 1 \in S => k \in S
  <2>1. \A k \in 1 .. (Len(p) + 1) - 1 : k \in 1 .. Len(p) + 1
    BY <1>0
  <2> QED BY <1>2, <2>1
<1> HIDE DEF S
<1>5. \A k \in 1 .. Len(p) + 1 : k \in S
  BY <1>0, <1>3, <1>4, Downward
<1>6. 1 \in 1 .. Len(p) + 1 /\ 1 \in 1 .. Len(q) + 1
  BY <1>0
<1>7. Compares(p, q, f, g, w, 1)
  BY <1>5, <1>6 DEF S
<1> QED BY <1>6, <1>7 DEF Compares

\* path_compare() orders by the first component that differs, a relative path before
\* an absolute one.
LEMMA PathCompareIs ==
    ASSUME NEW p \in Words, NEW q \in Words
    PROVE  path_compare(p, q) =
               IF Absolute(p) = Absolute(q) THEN CompareLists(Components(p), Components(q))
               ELSE IF Absolute(p) THEN 1 ELSE -1
<1> DEFINE walk == CHOOSE w : w = [i \in 1 .. Len(p) + 1 |->
                                      [j \in 1 .. Len(q) + 1 |-> WalkAt(p, q, w, i, j)]]
<1>1. path_compare(p, q) = IF RelativeFirst(p, q) # 0 THEN RelativeFirst(p, q) ELSE walk[1][1]
  BY DEF path_compare, WalkAt
<1>2. IsWalk(p, q, walk)
  BY WalkExists DEF IsWalk
<1> HIDE DEF walk
<1>3. PICK f : IsCut(p, f) /\ Components(p) = f[1]
  BY ComponentsCut
<1>4. PICK g : IsCut(q, g) /\ Components(q) = g[1]
  BY ComponentsCut
<1>5. walk[1][1] = CompareLists(f[1], g[1])
  BY <1>2, <1>3, <1>4, WalkIs
<1> QED BY <1>1, <1>3, <1>4, <1>5 DEF RelativeFirst

-----------------------------------------------------------------------------
(* An order it is.                                                         *)

\* c comes before d in the order by first differences that R makes of the elements.
Before(R, c, d, i) ==
    /\ Differ(c, d, i) /\ i <= Len(d)
    /\ i <= Len(c) => <<c[i], d[i]>> \in R

\* R orders E.
IsOrder(R, E) ==
    /\ \A x, y, z \in E : <<x, y>> \in R /\ <<y, z>> \in R => <<x, z>> \in R
    /\ \A x \in E : <<x, x>> \notin R

\* What comes before what comes before something comes before it.
LEMMA BeforeIsTransitive ==
    ASSUME NEW E, NEW R, IsOrder(R, E), NEW c \in Seq(E), NEW d \in Seq(E), NEW e \in Seq(E),
           NEW i \in Nat, NEW k \in Nat, Before(R, c, d, i), Before(R, d, e, k)
    PROVE  \E m \in Nat : Before(R, c, e, m)
<1>1. Len(c) \in Nat /\ Len(d) \in Nat /\ Len(e) \in Nat
  OBVIOUS
<1>2. /\ i \in 1 .. Len(c) + 1 /\ i \in 1 .. Len(d) /\ \A j \in 1 .. i - 1 : c[j] = d[j]
      /\ i <= Len(c) => <<c[i], d[i]>> \in R
  BY <1>1 DEF Before, Differ
<1>3. /\ k \in 1 .. Len(d) + 1 /\ k \in 1 .. Len(e) /\ \A j \in 1 .. k - 1 : d[j] = e[j]
      /\ k <= Len(d) => <<d[k], e[k]>> \in R
  BY <1>1 DEF Before, Differ
<1>4. \A j \in 1 .. Len(c) : c[j] \in E
  OBVIOUS
<1>5. \A j \in 1 .. Len(d) : d[j] \in E
  OBVIOUS
<1>6. \A j \in 1 .. Len(e) : e[j] \in E
  OBVIOUS
<1>7. CASE i < k
  <2>1. i \in 1 .. k - 1 /\ i \in 1 .. Len(e) /\ \A j \in 1 .. i - 1 : j \in 1 .. k - 1
    BY <1>1, <1>2, <1>3, <1>7
  <2>2. (\A j \in 1 .. i - 1 : c[j] = e[j]) /\ e[i] = d[i]
    BY <1>2, <1>3, <2>1
  <2>3. i <= Len(c) => <<c[i], e[i]>> \in R /\ c[i] # e[i]
    BY <1>2, <1>5, <2>2 DEF IsOrder
  <2>4. Before(R, c, e, i)
    BY <1>1, <1>2, <2>1, <2>2, <2>3 DEF Before, Differ
  <2> QED BY <2>4
<1>8. CASE k < i
  <2>1. /\ k \in 1 .. i - 1 /\ k \in 1 .. Len(d) /\ k \in 1 .. Len(c)
        /\ \A j \in 1 .. k - 1 : j \in 1 .. i - 1
    BY <1>1, <1>2, <1>3, <1>8
  <2>2. (\A j \in 1 .. k - 1 : c[j] = e[j]) /\ c[k] = d[k]
    BY <1>2, <1>3, <2>1
  <2>3. <<c[k], e[k]>> \in R
    BY <1>3, <2>1, <2>2
  <2>4. c[k] # e[k]
    BY <1>3, <1>6, <2>3 DEF IsOrder
  <2>5. Before(R, c, e, k)
    BY <1>1, <1>3, <2>1, <2>2, <2>3, <2>4 DEF Before, Differ
  <2> QED BY <2>5
<1>9. CASE i = k
  <2>1. \A j \in 1 .. i - 1 : c[j] = e[j]
    BY <1>2, <1>3, <1>9
  <2>2. <<d[i], e[i]>> \in R
    BY <1>2, <1>3, <1>9
  <2>3. i <= Len(c) => <<c[i], e[i]>> \in R
    <3>1. i <= Len(c) => i \in 1 .. Len(c)
      BY <1>2
    <3> QED BY <1>2, <1>3, <1>4, <1>5, <1>6, <1>9, <2>2, <3>1 DEF IsOrder
  <2>4. i <= Len(c) => c[i] # e[i]
    BY <1>3, <1>6, <1>9, <2>3 DEF IsOrder
  <2>5. Before(R, c, e, i)
    BY <1>1, <1>2, <1>3, <1>9, <2>1, <2>3, <2>4 DEF Before, Differ
  <2> QED BY <2>5
<1> QED BY <1>7, <1>8, <1>9

SmallerNumbers == {n \in Nat \X Nat : n[1] < n[2]}
EarlierWords   == {n \in Words \X Words : CompareWords(n[1], n[2]) = -1}

\* Words are ordered by the numbers of their characters.
LEMMA WordsBefore ==
    ASSUME NEW u \in Words, NEW v \in Words
    PROVE  CompareWords(u, v) = -1 <=> \E i \in Nat : Before(SmallerNumbers, u, v, i)
<1>1. Len(u) \in Nat /\ Len(v) \in Nat
  BY DEF Words
<1>2. ASSUME NEW i \in Nat, Differ(u, v, i)
      PROVE  CompareWords(u, v) = -1 <=> Before(SmallerNumbers, u, v, i)
  <2>1. CompareWords(u, v) = WordsAt(u, v, i)
    BY <1>2, CompareWordsIs
  <2>2. CASE i <= Len(u) /\ i <= Len(v)
    <3>1. i \in 1 .. Len(u) /\ i \in 1 .. Len(v)
      BY <1>1, <1>2, <2>2 DEF Differ
    <3>2. u[i] \in Nat /\ v[i] \in Nat
      BY <3>1 DEF Words
    <3>3. PICK x \in Int : x = u[i] - v[i] /\ (x < 0 <=> u[i] < v[i])
      BY <3>2
    <3>4. WordsAt(u, v, i) = Sign(x)
      BY <1>1, <2>2, <3>3 DEF WordsAt
    <3>5. <<u[i], v[i]>> \in SmallerNumbers <=> u[i] < v[i]
      BY <3>2 DEF SmallerNumbers
    <3> QED BY <1>2, <2>1, <2>2, <3>3, <3>4, <3>5, SignIs DEF Before
  <2>3. CASE ~(i <= Len(u) /\ i <= Len(v))
    <3>1. WordsAt(u, v, i) = -1 <=> i > Len(u)
      BY <1>1, <2>3 DEF WordsAt
    <3>2. Before(SmallerNumbers, u, v, i) <=> i > Len(u)
      BY <1>1, <1>2, <2>3 DEF Before, Differ
    <3> QED BY <2>1, <3>1, <3>2
  <2> QED BY <2>2, <2>3
<1>3. CASE u = v
  <2>1. CompareWords(u, v) = 0
    BY <1>3, WordsAreOrdered
  <2>2. \A i \in Nat : ~Differ(u, v, i)
    BY <1>1, <1>3, NoDifference
  <2>3. \A i \in Nat : ~Before(SmallerNumbers, u, v, i)
    BY <2>2 DEF Before
  <2>4. CompareWords(u, v) # -1
    BY <2>1
  <2> QED BY <2>3, <2>4
<1>4. CASE u # v
  <2>1. PICK i \in Nat : Differ(u, v, i)
    BY <1>4, SomeDifference DEF Words
  <2>2. CompareWords(u, v) = -1 => Before(SmallerNumbers, u, v, i)
    BY <1>2, <2>1
  <2>3. ASSUME NEW k \in Nat, Before(SmallerNumbers, u, v, k)
        PROVE  CompareWords(u, v) = -1
    <3>1. Differ(u, v, k)
      BY <2>3 DEF Before
    <3> QED BY <1>2, <2>3, <3>1
  <2> QED BY <2>2, <2>3
<1> QED BY <1>3, <1>4

\* Lists are ordered by the order of their components.
LEMMA ListsBefore ==
    ASSUME NEW c \in Lists, NEW d \in Lists
    PROVE  CompareLists(c, d) = -1 <=> \E i \in Nat : Before(EarlierWords, c, d, i)
<1>1. Len(c) \in Nat /\ Len(d) \in Nat
  BY DEF Lists
<1>2. ASSUME NEW i \in Nat, Differ(c, d, i)
      PROVE  CompareLists(c, d) = -1 <=> Before(EarlierWords, c, d, i)
  <2>1. CompareLists(c, d) = ListsAt(c, d, i)
    BY <1>2, CompareListsIs
  <2>2. CASE i <= Len(c) /\ i <= Len(d)
    <3>1. i \in 1 .. Len(c) /\ i \in 1 .. Len(d)
      BY <1>1, <1>2, <2>2 DEF Differ
    <3>2. c[i] \in Words /\ d[i] \in Words
      BY <3>1 DEF Lists
    <3>3. ListsAt(c, d, i) = CompareWords(c[i], d[i])
      BY <1>1, <2>2 DEF ListsAt
    <3>4. <<c[i], d[i]>> \in EarlierWords <=> CompareWords(c[i], d[i]) = -1
      BY <3>2 DEF EarlierWords
    <3> QED BY <1>2, <2>1, <2>2, <3>3, <3>4 DEF Before
  <2>3. CASE ~(i <= Len(c) /\ i <= Len(d))
    <3>1. ListsAt(c, d, i) = -1 <=> i > Len(c)
      BY <1>1, <2>3 DEF ListsAt
    <3>2. Before(EarlierWords, c, d, i) <=> i > Len(c)
      BY <1>1, <1>2, <2>3 DEF Before, Differ
    <3> QED BY <2>1, <3>1, <3>2
  <2> QED BY <2>2, <2>3
<1>3. CASE c = d
  <2>1. CompareLists(c, d) = 0
    BY <1>3, ListsAreOrdered
  <2>2. \A i \in Nat : ~Differ(c, d, i)
    BY <1>1, <1>3, NoDifference
  <2>3. \A i \in Nat : ~Before(EarlierWords, c, d, i)
    BY <2>2 DEF Before
  <2>4. CompareLists(c, d) # -1
    BY <2>1
  <2> QED BY <2>3, <2>4
<1>4. CASE c # d
  <2>1. PICK i \in Nat : Differ(c, d, i)
    BY <1>4, SomeDifference DEF Lists
  <2>2. CompareLists(c, d) = -1 => Before(EarlierWords, c, d, i)
    BY <1>2, <2>1
  <2>3. ASSUME NEW k \in Nat, Before(EarlierWords, c, d, k)
        PROVE  CompareLists(c, d) = -1
    <3>1. Differ(c, d, k)
      BY <2>3 DEF Before
    <3> QED BY <1>2, <2>3, <3>1
  <2> QED BY <2>2, <2>3
<1> QED BY <1>3, <1>4

LEMMA WordsAreAnOrder == IsOrder(EarlierWords, Words)
<1>1. IsOrder(SmallerNumbers, Nat)
  BY DEF IsOrder, SmallerNumbers
<1>2. ASSUME NEW u \in Words, NEW v \in Words, NEW w \in Words,
             CompareWords(u, v) = -1, CompareWords(v, w) = -1
      PROVE  CompareWords(u, w) = -1
  <2>1. PICK i \in Nat : Before(SmallerNumbers, u, v, i)
    BY <1>2, WordsBefore
  <2>2. PICK k \in Nat : Before(SmallerNumbers, v, w, k)
    BY <1>2, WordsBefore
  <2>3. \E m \in Nat : Before(SmallerNumbers, u, w, m)
    BY <1>1, <2>1, <2>2, BeforeIsTransitive DEF Words
  <2> QED BY <2>3, WordsBefore
<1>3. \A u \in Words : CompareWords(u, u) = 0
  BY WordsAreOrdered
<1>4. \A u, v \in Words : <<u, v>> \in EarlierWords <=> CompareWords(u, v) = -1
  BY DEF EarlierWords
<1>5. \A u, v, w \in Words :
          <<u, v>> \in EarlierWords /\ <<v, w>> \in EarlierWords => <<u, w>> \in EarlierWords
  BY <1>2, <1>4
<1>6. \A u \in Words : <<u, u>> \notin EarlierWords
  BY <1>3, <1>4
<1> QED BY <1>5, <1>6 DEF IsOrder

LEMMA ListsAreTransitive ==
    ASSUME NEW c \in Lists, NEW d \in Lists, NEW e \in Lists,
           CompareLists(c, d) = -1, CompareLists(d, e) = -1
    PROVE  CompareLists(c, e) = -1
<1>1. PICK i \in Nat : Before(EarlierWords, c, d, i)
  BY ListsBefore
<1>2. PICK k \in Nat : Before(EarlierWords, d, e, k)
  BY ListsBefore
<1>3. \E m \in Nat : Before(EarlierWords, c, e, m)
  BY <1>1, <1>2, WordsAreAnOrder, BeforeIsTransitive DEF Lists
<1> QED BY <1>3, ListsBefore

\* path_compare() is a total order of places, for all characters and lengths: what comes
\* before a place comes before whatever that comes before, and two paths of which
\* neither comes before the other are the same place (path.c:39-80).
THEOREM PlacesAreAnOrder ==
    ASSUME NEW p \in Words, NEW q \in Words, NEW r \in Words
    PROVE  /\ path_compare(p, q) \in {-1, 0, 1} /\ path_compare(q, p) = -path_compare(p, q)
           /\ path_compare(p, q) = -1 /\ path_compare(q, r) = -1 => path_compare(p, r) = -1
           /\ path_compare(p, q) = 0 => path_compare(p, r) = path_compare(q, r)
<1>1. Components(p) \in Lists /\ Components(q) \in Lists /\ Components(r) \in Lists
  BY ComponentsHaveType
<1>2. path_compare(p, q) =
          IF Absolute(p) = Absolute(q) THEN CompareLists(Components(p), Components(q))
          ELSE IF Absolute(p) THEN 1 ELSE -1
  BY PathCompareIs
<1>3. path_compare(q, p) =
          IF Absolute(q) = Absolute(p) THEN CompareLists(Components(q), Components(p))
          ELSE IF Absolute(q) THEN 1 ELSE -1
  BY PathCompareIs
<1>4. path_compare(q, r) =
          IF Absolute(q) = Absolute(r) THEN CompareLists(Components(q), Components(r))
          ELSE IF Absolute(q) THEN 1 ELSE -1
  BY PathCompareIs
<1>5. path_compare(p, r) =
          IF Absolute(p) = Absolute(r) THEN CompareLists(Components(p), Components(r))
          ELSE IF Absolute(p) THEN 1 ELSE -1
  BY PathCompareIs
<1>6. Absolute(p) \in BOOLEAN /\ Absolute(q) \in BOOLEAN /\ Absolute(r) \in BOOLEAN
  BY DEF Absolute
<1>7. path_compare(p, q) \in {-1, 0, 1} /\ path_compare(q, p) = -path_compare(p, q)
  <2>1. CASE Absolute(p) = Absolute(q)
    BY <1>1, <1>2, <1>3, <2>1, ListsAreOrdered
  <2>2. CASE Absolute(p) # Absolute(q)
    BY <1>2, <1>3, <1>6, <2>2
  <2> QED BY <2>1, <2>2
<1>8. ASSUME path_compare(p, q) = -1, path_compare(q, r) = -1
      PROVE  path_compare(p, r) = -1
  <2>1. CASE Absolute(p) = Absolute(q) /\ Absolute(q) = Absolute(r)
    BY <1>1, <1>2, <1>4, <1>5, <1>8, <2>1, ListsAreTransitive
  <2>2. CASE ~(Absolute(p) = Absolute(q) /\ Absolute(q) = Absolute(r))
    BY <1>2, <1>4, <1>5, <1>6, <1>8, <2>2
  <2> QED BY <2>1, <2>2
<1>9. ASSUME path_compare(p, q) = 0
      PROVE  path_compare(p, r) = path_compare(q, r)
  <2>1. Absolute(p) = Absolute(q)
    BY <1>2, <1>6, <1>9
  <2>2. Components(p) = Components(q)
    BY <1>1, <1>2, <1>9, <2>1, ListsAreOrdered
  <2> QED BY <1>4, <1>5, <2>1, <2>2
<1> QED BY <1>7, <1>8, <1>9

-----------------------------------------------------------------------------
(* The theorems.                                                           *)

\* Two paths compare as equal exactly if they name the same place.
LEMMA SamePlace ==
    ASSUME NEW p \in Words, NEW q \in Words
    PROVE  path_compare(p, q) = 0 <=> Absolute(p) = Absolute(q) /\ Components(p) = Components(q)
<1>1. Components(p) \in Lists /\ Components(q) \in Lists
  BY ComponentsHaveType
<1>2. CompareLists(Components(p), Components(q)) = 0 <=> Components(p) = Components(q)
  BY <1>1, ListsAreOrdered
<1> QED BY <1>2, PathCompareIs

\* What path_prefix_root() makes of a root that is not the path.
\* What has no components is "/", if it is not empty.
LEMMA NoneIsSlash ==
    ASSUME NEW r \in Words, r # <<>>, Components(r) = <<>>
    PROVE  path_compare(r, <<Slash>>) = 0
<1>1. Len(r) \in Nat /\ Len(r) # 0
  BY EmptySeq DEF Words
<1>2. PICK f : IsCut(r, f) /\ Components(r) = f[1]
  BY ComponentsCut
<1>3. 1 \in 1 .. Len(r) + 1 /\ 1 <= Len(r)
  BY <1>1
<1>4. r[1] = Slash
  BY <1>2, <1>3, CutHasType
<1>5. Absolute(r) /\ Absolute(<<Slash>>)
  <2>1. <<Slash>> # <<>> /\ <<Slash>>[1] = Slash
    OBVIOUS
  <2> QED BY <1>4, <2>1 DEF Absolute
<1> QED BY <1>5, SlashHasNone, SamePlace

LEMMA PrefixRootIs ==
    ASSUME NEW r \in Words, NEW p \in Words, r # <<>>, path_compare(r, p) # 0,
           NEW j, j = path_prefix_root(r, p)
    PROVE  /\ Components(j) = Components(r) \o Components(p)
           /\ Absolute(j) = IF Components(r) = <<>> THEN Absolute(p) ELSE Absolute(r)
<1>1. PICK q \in Words : /\ q = OneSlash(p) /\ Components(q) = Components(p)
                         /\ Absolute(q) = Absolute(p)
  BY OneSlashIs
<1>2. j = IF path_compare(r, <<Slash>>) = 0 \/ path_compare(r, q) = 0 THEN q ELSE Join(r, q)
  BY <1>1 DEF path_prefix_root
<1>3. path_compare(r, q) # 0
  BY <1>1, SamePlace
<1>4. CASE path_compare(r, <<Slash>>) = 0
  <2>1. Components(r) = <<>>
    BY <1>4, SlashHasNone, SamePlace
  <2>2. <<>> \o Components(p) = Components(p)
    BY ComponentsHaveType, ConcatEmptySeq DEF Lists
  <2> QED BY <1>1, <1>2, <1>4, <2>1, <2>2
<1>5. CASE path_compare(r, <<Slash>>) # 0
  <2>1. Components(r) # <<>>
    BY <1>5, NoneIsSlash
  <2> QED BY <1>1, <1>2, <1>3, <1>5, <2>1, JoinIs
<1> QED BY <1>4, <1>5

\* The arguments are paths, and what was returned is what the two functions make of them.
PathInv ==
    /\ a \in Words /\ b \in Words
    /\ Returned => order = path_compare(a, b) /\ joined = path_prefix_root(a, b)

LEMMA PathsAreWords == Paths \subseteq Words
<1>1. Letters \cup {Slash} \subseteq Nat
  BY PathAssumption DEF Slash
<1>2. ASSUME NEW m \in 0 .. MaxLen, NEW p \in [1 .. m -> Letters \cup {Slash}]
      PROVE  p \in Words
  BY <1>1 DEF Words
<1> QED BY <1>2 DEF Paths, BoundedSeq, SeqOf

LEMMA PathInvariant == Spec => []PathInv
<1>1. Init => PathInv
  BY PathsAreWords DEF Init, PathInv, Returned
<1>2. PathInv /\ [Call]_vars => PathInv'
  BY DEF PathInv, Call, vars, Returned
<1> QED BY <1>1, <1>2, PTL DEF Spec

\* path_compare() calls two paths equal exactly if they name the same place, agrees with
\* itself whichever way round it is asked, and puts a directory before what is in it,
\* for paths of any characters and any length (path.c:42-75).
THEOREM PlacesAreOrdered == Spec => []PlacesOrdered
<1>1. PathInv => PlacesOrdered
  <2> SUFFICES ASSUME PathInv, Returned PROVE PlacesOrdered
    BY DEF PlacesOrdered
  <2>1. a \in Words /\ b \in Words /\ order = path_compare(a, b)
    BY DEF PathInv
  <2>2. order = 0 <=> Absolute(a) = Absolute(b) /\ Components(a) = Components(b)
    BY <2>1, SamePlace
  <2>3. path_compare(b, a) = -order
    BY <2>1, PlacesAreAnOrder
  <2>4. ASSUME Absolute(a) = Absolute(b), IsStrictPrefix(Components(a), Components(b))
        PROVE  order = -1
    <3>1. Components(a) \in Lists /\ Components(b) \in Lists
      BY <2>1, ComponentsHaveType
    <3>2. CompareLists(Components(a), Components(b)) = -1
      BY <2>4, <3>1, DirectoryFirst
    <3> QED BY <2>1, <2>4, <3>2, PathCompareIs
  <2> QED BY <2>2, <2>3, <2>4 DEF PlacesOrdered
<1> QED BY <1>1, PathInvariant, PTL

\* path_prefix_root() names the path below the root, with the root's components and then
\* those of the path, for paths of any characters and any length, whatever slashes
\* either has; it is absolute where the root is, and below "/" where the path is
\* (path.c:82-114).
THEOREM PathIsBelow == Spec => []PrefixIsBelow
<1>1. PathInv => PrefixIsBelow
  BY PrefixRootIs DEF PathInv, PrefixIsBelow
<1> QED BY <1>1, PathInvariant, PTL
=============================================================================
