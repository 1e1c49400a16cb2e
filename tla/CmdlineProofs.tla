--------------------------- MODULE CmdlineProofs ---------------------------
(***************************************************************************)
(* The command line parser, for any options and any command lines, and the *)
(* fields of --mount and --user-map, for any values: what MCOptions checks *)
(* of its parts "line" and "optlist", as theorems.                         *)
(*                                                                         *)
(* The first part is about the operators of Cmdline: places in their       *)
(* order, sequences strung together, a value cut at its commas, and the    *)
(* occurrences of an option.  The second is the invariant of the parser,   *)
(* the third the fields.                                                   *)
(***************************************************************************)
EXTENDS MCOptions, SequenceTheorems, FiniteSetTheorems, WellFoundedInduction, TLAPS

-----------------------------------------------------------------------------
(* Places in their order.                                                  *)

\* Sets are counted there as they are here.
LEMMA LineCount == \A S : Line!Cardinality(S) = Cardinality(S)
BY DEF Line!Cardinality, Cardinality

\* A set of numbers has a least one.
LEMMA LeastPlace ==
    ASSUME NEW S \in SUBSET Nat, S # {}
    PROVE  \E m \in S : \A j \in S : m <= j
<1>1. PICK m \in S : \A j \in S : ~(<<j, m>> \in OpToRel(<, Nat))
  BY NatLessThanWellFounded, WFMin
<1>2. \A j \in S : j \in Nat
  OBVIOUS
<1>3. \A j \in S : ~(j < m)
  BY <1>1, <1>2 DEF OpToRel
<1> QED BY <1>2, <1>3

\* The place of a number in the order of a set, and that numbers are bounded.
UpTo(S, x) == {j \in S : j <= x}
Rank(S, x) == Cardinality(UpTo(S, x))

LEMMA UpToIsFinite ==
    ASSUME NEW S \in SUBSET Nat, NEW n \in Nat, \A j \in S : j <= n, NEW x
    PROVE  /\ IsFiniteSet(S) /\ IsFiniteSet(UpTo(S, x)) /\ UpTo(S, x) \subseteq S
           /\ Cardinality(S) \in Nat /\ Rank(S, x) \in Nat /\ Rank(S, x) <= Cardinality(S)
<1>1. IsFiniteSet(S)
  BY FS_BoundedSetOfNaturals
<1>2. UpTo(S, x) \subseteq S
  BY DEF UpTo
<1>3. IsFiniteSet(UpTo(S, x)) /\ Cardinality(UpTo(S, x)) <= Cardinality(S)
  BY <1>1, <1>2, FS_Subset
<1> QED BY <1>1, <1>2, <1>3, FS_CardinalityType DEF Rank

Bounded(S, n) == S \in SUBSET Nat /\ n \in Nat /\ \A j \in S : j <= n

LEMMA RankIsPlace ==
    ASSUME NEW S, NEW n, Bounded(S, n), NEW x \in S
    PROVE  Rank(S, x) \in 1 .. Cardinality(S)
<1>1. /\ IsFiniteSet(UpTo(S, x)) /\ Cardinality(S) \in Nat /\ Rank(S, x) \in Nat
      /\ Rank(S, x) <= Cardinality(S)
  BY UpToIsFinite DEF Bounded
<1>2. x \in UpTo(S, x)
  BY DEF UpTo, Bounded
<1>3. Rank(S, x) # 0
  BY <1>1, <1>2, FS_EmptySet DEF Rank
<1> QED BY <1>1, <1>3

LEMMA RankGrows ==
    ASSUME NEW S, NEW n, Bounded(S, n), NEW x \in S, NEW y \in S, x < y
    PROVE  Rank(S, x) < Rank(S, y)
<1>1. IsFiniteSet(UpTo(S, x)) /\ IsFiniteSet(UpTo(S, y)) /\ Rank(S, x) \in Nat /\ Rank(S, y) \in Nat
  BY UpToIsFinite DEF Bounded
<1>2. y \notin UpTo(S, x) /\ UpTo(S, x) \cup {y} \subseteq UpTo(S, y)
  <2>1. \A j \in S : j \in Nat
    BY DEF Bounded
  <2> QED BY <2>1 DEF UpTo
<1>3. Cardinality(UpTo(S, x) \cup {y}) = Rank(S, x) + 1
  BY <1>1, <1>2, FS_AddElement DEF Rank
<1>4. Cardinality(UpTo(S, x) \cup {y}) <= Rank(S, y)
  BY <1>1, <1>2, FS_Subset DEF Rank
<1> QED BY <1>1, <1>3, <1>4

\* The first place, the next one and the last one.
LEMMA RankOfFirst ==
    ASSUME NEW S, NEW n, Bounded(S, n), NEW x \in S, \A j \in S : x <= j
    PROVE  Rank(S, x) = 1
<1>1. UpTo(S, x) = {x}
  <2>1. \A j \in S : j \in Nat /\ (j <= x <=> j = x)
    BY DEF Bounded
  <2> QED BY <2>1 DEF UpTo
<1> QED BY <1>1, FS_Singleton DEF Rank

LEMMA RankOfNext ==
    ASSUME NEW S, NEW n, Bounded(S, n), NEW x \in S, NEW y \in S, x < y,
           \A j \in S : j <= x \/ y <= j
    PROVE  Rank(S, y) = Rank(S, x) + 1
<1>1. UpTo(S, y) = UpTo(S, x) \cup {y} /\ y \notin UpTo(S, x)
  <2>1. \A j \in S : j \in Nat /\ (j <= y <=> j <= x \/ j = y) /\ ~(y <= x)
    BY DEF Bounded
  <2> QED BY <2>1 DEF UpTo
<1>2. IsFiniteSet(UpTo(S, x))
  BY UpToIsFinite DEF Bounded
<1> QED BY <1>1, <1>2, FS_AddElement DEF Rank

LEMMA RankOfLast ==
    ASSUME NEW S, NEW x, \A j \in S : j <= x
    PROVE  Rank(S, x) = Cardinality(S)
<1>1. UpTo(S, x) = S
  BY DEF UpTo
<1> QED BY <1>1 DEF Rank

\* Each number up to the size of the set is the rank of a place.
LEMMA RankIsReached ==
    ASSUME NEW S, NEW n, Bounded(S, n), NEW r \in 1 .. Cardinality(S)
    PROVE  \E x \in S : Rank(S, x) = r
<1> DEFINE Not == {m \in 1 .. Cardinality(S) : ~\E x \in S : Rank(S, x) = m}
<1>1. Cardinality(S) \in Nat /\ IsFiniteSet(S)
  BY UpToIsFinite DEF Bounded
<1>2. S # {}
  BY <1>1, FS_EmptySet
<1>3. ASSUME Not # {} PROVE FALSE
  <2>1. PICK m \in Not : \A j \in Not : m <= j
    <3>1. Not \in SUBSET Nat
      BY <1>1
    <3> QED BY <1>3, <3>1, LeastPlace
  <2>2. CASE m = 1
    <3>1. PICK x \in S : \A j \in S : x <= j
      BY <1>2, LeastPlace DEF Bounded
    <3> QED BY <2>1, <2>2, <3>1, RankOfFirst
  <2>3. CASE m # 1
    <3>1. m - 1 \in 1 .. Cardinality(S) /\ m - 1 \notin Not
      BY <1>1, <2>1, <2>3
    <3>2. PICK x \in S : Rank(S, x) = m - 1
      BY <3>1
    <3> DEFINE Above == {j \in S : j > x}
    <3>3. Above # {}
      <4>1. SUFFICES ASSUME Above = {} PROVE FALSE
        OBVIOUS
      <4>2. \A j \in S : j <= x
        BY <4>1 DEF Bounded
      <4>3. Rank(S, x) = Cardinality(S)
        BY <4>2, RankOfLast
      <4> QED BY <1>1, <2>1, <3>1, <3>2, <4>3
    <3>4. PICK y \in Above : \A j \in Above : y <= j
      BY <3>3, LeastPlace DEF Bounded
    <3>5. \A j \in S : j <= x \/ y <= j
      BY <3>4 DEF Bounded
    <3>6. Rank(S, y) = Rank(S, x) + 1
      BY <3>4, <3>5, RankOfNext
    <3>7. Rank(S, y) = m
      BY <1>1, <2>1, <3>1, <3>2, <3>6
    <3> QED BY <2>1, <3>4, <3>7
  <2> QED BY <2>2, <2>3
<1> QED BY <1>3

\* InOrder() has each element at its rank.
LEMMA InOrderIs ==
    ASSUME NEW S, NEW n, Bounded(S, n)
    PROVE  /\ Line!InOrder(S) \in Seq(S)
           /\ Len(Line!InOrder(S)) = Cardinality(S) /\ Cardinality(S) \in Nat
           /\ DOMAIN Line!InOrder(S) = 1 .. Cardinality(S)
           /\ \A x \in S : Line!InOrder(S)[Rank(S, x)] = x
<1> DEFINE Nth(r) == CHOOSE x \in S : Line!Cardinality({j \in S : j <= x}) = r
<1>1. Cardinality(S) \in Nat
  BY UpToIsFinite DEF Bounded
<1>2. Line!InOrder(S) = [r \in 1 .. Cardinality(S) |-> Nth(r)]
  BY LineCount DEF Line!InOrder
<1>3. ASSUME NEW r \in 1 .. Cardinality(S) PROVE Nth(r) \in S /\ Rank(S, Nth(r)) = r
  <2>1. \A x : Rank(S, x) = Line!Cardinality({j \in S : j <= x})
    BY LineCount DEF Rank, UpTo
  <2> QED BY <2>1, RankIsReached
<1>4. ASSUME NEW x \in S PROVE Nth(Rank(S, x)) = x
  <2>1. Rank(S, x) \in 1 .. Cardinality(S)
    BY RankIsPlace
  <2>2. PICK y : y = Nth(Rank(S, x))
    OBVIOUS
  <2>3. y \in S /\ Rank(S, y) = Rank(S, x)
    BY <1>3, <2>1, <2>2
  <2>4. ~(x < y) /\ ~(y < x)
    BY <1>1, <2>1, <2>3, RankGrows
  <2>5. x \in Nat /\ y \in Nat
    BY <2>3 DEF Bounded
  <2>6. x = y
    BY <2>4, <2>5
  <2> QED BY <2>2, <2>6
<1> HIDE DEF Nth
<1>5. Line!InOrder(S) \in Seq(S) /\ Len(Line!InOrder(S)) = Cardinality(S)
  BY <1>1, <1>2, <1>3
<1> QED BY <1>1, <1>2, <1>4, <1>5, RankIsPlace

\* A place behind the others comes last.
LEMMA InOrderAppend ==
    ASSUME NEW S, NEW n, Bounded(S, n), NEW y \in Nat, n < y
    PROVE  Line!InOrder(S \cup {y}) = Append(Line!InOrder(S), y)
<1> DEFINE T == S \cup {y}
<1>1. Bounded(T, y) /\ y \notin S
  BY DEF Bounded
<1>2. /\ Line!InOrder(S) \in Seq(S) /\ Len(Line!InOrder(S)) = Cardinality(S)
      /\ Cardinality(S) \in Nat
      /\ \A x \in S : Line!InOrder(S)[Rank(S, x)] = x
  BY InOrderIs
<1>3. /\ Line!InOrder(T) \in Seq(T) /\ Len(Line!InOrder(T)) = Cardinality(T)
      /\ \A x \in T : Line!InOrder(T)[Rank(T, x)] = x
  BY <1>1, InOrderIs
<1>4. Cardinality(T) = Cardinality(S) + 1
  <2>1. IsFiniteSet(S)
    BY UpToIsFinite DEF Bounded
  <2> QED BY <1>1, <2>1, FS_AddElement
<1>5. Rank(T, y) = Cardinality(S) + 1
  <2>1. \A j \in T : j <= y
    BY <1>1 DEF Bounded
  <2> QED BY <1>4, <2>1, RankOfLast
<1>6. \A x \in S : Rank(T, x) = Rank(S, x)
  <2> SUFFICES ASSUME NEW x \in S PROVE Rank(T, x) = Rank(S, x)
    OBVIOUS
  <2>1. UpTo(T, x) = UpTo(S, x)
    BY DEF UpTo, Bounded
  <2> QED BY <2>1 DEF Rank
<1>7. ASSUME NEW r \in 1 .. Cardinality(S)
      PROVE  Line!InOrder(T)[r] = Line!InOrder(S)[r]
  <2>1. PICK x \in S : Rank(S, x) = r
    BY RankIsReached
  <2> QED BY <1>2, <1>3, <1>6, <2>1
<1>8. Line!InOrder(T)[Cardinality(S) + 1] = y
  BY <1>3, <1>5
<1> HIDE DEF T
<1>9. PICK f : f = Line!InOrder(S)
  OBVIOUS
<1>10. PICK g : g = Line!InOrder(T)
  OBVIOUS
<1>11. /\ f \in Seq(T) /\ g \in Seq(T) /\ y \in T /\ Len(g) = Len(f) + 1 /\ Len(f) \in Nat
       /\ \A r \in 1 .. Len(f) : g[r] = f[r]
       /\ g[Len(f) + 1] = y
  BY <1>2, <1>3, <1>4, <1>7, <1>8, <1>9, <1>10, SeqMonotonic DEF T
<1>12. g = Append(f, y)
  <2>1. Append(f, y) \in Seq(T) /\ Len(Append(f, y)) = Len(f) + 1
    BY <1>11
  <2>2. \A r \in 1 .. Len(g) : g[r] = Append(f, y)[r]
    BY <1>11
  <2> QED BY <1>11, <2>1, <2>2, SeqEqual
<1> QED BY <1>9, <1>10, <1>12 DEF T

-----------------------------------------------------------------------------
(* Sequences that are strung together.                                     *)

\* What FlattenSeq() computes: f[x] has the first x sequences.
Strings(f, ss, n) ==
    f = [x \in 1 .. n |-> IF x = 1 THEN ss[x] ELSE f[x - 1] \o ss[x]]

\* There is one such function at most; there is one that goes on; there is one.
LEMMA StringsAreOne ==
    ASSUME NEW n \in Nat, NEW ss, NEW f, NEW g, Strings(f, ss, n), Strings(g, ss, n)
    PROVE  f = g
<1> DEFINE Not == {x \in 1 .. n : f[x] # g[x]}
<1>1. /\ DOMAIN f = 1 .. n /\ DOMAIN g = 1 .. n
      /\ f = [x \in 1 .. n |-> f[x]] /\ g = [x \in 1 .. n |-> g[x]]
  BY DEF Strings
<1>2. \A x \in 1 .. n : f[x] = IF x = 1 THEN ss[x] ELSE f[x - 1] \o ss[x]
  BY DEF Strings
<1>3. \A x \in 1 .. n : g[x] = IF x = 1 THEN ss[x] ELSE g[x - 1] \o ss[x]
  BY DEF Strings
<1>4. ASSUME Not # {} PROVE FALSE
  <2>1. PICK x \in Not : \A j \in Not : x <= j
    <3>1. Not \in SUBSET Nat
      OBVIOUS
    <3> QED BY <1>4, <3>1, LeastPlace
  <2>2. CASE x = 1
    BY <1>2, <1>3, <2>1, <2>2
  <2>3. CASE x # 1
    <3>1. x - 1 \in 1 .. n /\ x - 1 \notin Not
      BY <2>1, <2>3
    <3>2. f[x - 1] = g[x - 1]
      BY <3>1
    <3> QED BY <1>2, <1>3, <2>1, <2>3, <3>2
  <2> QED BY <2>2, <2>3
<1>5. \A x \in 1 .. n : f[x] = g[x]
  BY <1>4
<1> QED BY <1>1, <1>5

\* The first n are the same.
Agree(ss, tt, n) == \A x \in 1 .. n : tt[x] = ss[x]

\* There is one more.
Goes(f, tt, n, T) ==
    \E g \in [1 .. n + 1 -> Seq(T)] : Strings(g, tt, n + 1) /\ g[n + 1] = f[n] \o tt[n + 1]

LEMMA OneMoreString ==
    ASSUME NEW T, NEW n, n \in Nat \ {0}, NEW ss, NEW f, f \in [1 .. n -> Seq(T)],
           Strings(f, ss, n), NEW tt, Agree(ss, tt, n), tt[n + 1] \in Seq(T)
    PROVE  Goes(f, tt, n, T)
<1>9. \A x \in 1 .. n : tt[x] = ss[x]
  BY DEF Agree
<1>0. PICK v : v = f[n] \o tt[n + 1]
  OBVIOUS
<1>1. PICK g : g = [x \in 1 .. n + 1 |-> IF x = n + 1 THEN v ELSE f[x]]
  OBVIOUS
<1>2. v \in Seq(T)
  <2>1. f[n] \in Seq(T)
    OBVIOUS
  <2> QED BY <1>0, <2>1, ConcatProperties
<1>3. /\ g[n + 1] = f[n] \o tt[n + 1]
      /\ \A x \in 1 .. n : g[x] = f[x]
      /\ g \in [1 .. n + 1 -> Seq(T)]
  <2>1. g[n + 1] = v
    BY <1>1
  <2>2. \A x \in 1 .. n : x \in 1 .. n + 1 /\ x # n + 1
    OBVIOUS
  <2>3. \A x \in 1 .. n : g[x] = f[x]
    BY <1>1, <2>2
  <2>4. \A x \in 1 .. n + 1 : x = n + 1 \/ x \in 1 .. n
    OBVIOUS
  <2>5. \A x \in 1 .. n + 1 : g[x] \in Seq(T)
    BY <1>2, <2>1, <2>3, <2>4
  <2> QED BY <1>0, <1>1, <2>1, <2>3, <2>5
<1>4. \A x \in 1 .. n : f[x] = IF x = 1 THEN ss[x] ELSE f[x - 1] \o ss[x]
  BY DEF Strings
<1>5. ASSUME NEW x \in 1 .. n + 1
      PROVE  g[x] = IF x = 1 THEN tt[x] ELSE g[x - 1] \o tt[x]
  <2>1. CASE x = n + 1
    <3>1. x # 1 /\ x - 1 = n /\ g[n] = f[n]
      BY <1>3, <2>1
    <3> QED BY <1>3, <2>1, <3>1
  <2>2. CASE x = 1
    <3>1. 1 \in 1 .. n
      OBVIOUS
    <3>2. f[1] = ss[1] /\ tt[1] = ss[1] /\ g[1] = f[1]
      BY <1>3, <1>4, <1>9, <3>1
    <3> QED BY <2>2, <3>2
  <2>3. CASE x # n + 1 /\ x # 1
    <3>1. x \in 1 .. n /\ x - 1 \in 1 .. n
      BY <2>3
    <3>2. g[x] = f[x] /\ g[x - 1] = f[x - 1] /\ tt[x] = ss[x]
      BY <1>3, <1>9, <3>1
    <3> QED BY <1>4, <2>3, <3>1, <3>2
  <2> QED BY <2>1, <2>2, <2>3
<1>6. Strings(g, tt, n + 1)
  BY <1>3, <1>5 DEF Strings
<1> QED BY <1>3, <1>6 DEF Goes

LEMMA StringsExist ==
    ASSUME NEW T, NEW ss \in Seq(Seq(T)), Len(ss) # 0
    PROVE  \E f \in [1 .. Len(ss) -> Seq(T)] : Strings(f, ss, Len(ss))
<1> DEFINE Can(m) == \E f \in [1 .. m -> Seq(T)] : Strings(f, ss, m)
           Not    == {m \in 1 .. Len(ss) : ~Can(m)}
<1>1. Can(1)
  <2>1. PICK f : f = [x \in 1 .. 1 |-> ss[x]]
    OBVIOUS
  <2>2. f \in [1 .. 1 -> Seq(T)] /\ Strings(f, ss, 1)
    BY <2>1 DEF Strings
  <2> QED BY <2>2
<1>2. ASSUME Not # {} PROVE FALSE
  <2> HIDE DEF Can
  <2>1. PICK m \in Not : \A j \in Not : m <= j
    <3>1. Not \in SUBSET Nat
      OBVIOUS
    <3> QED BY <1>2, <3>1, LeastPlace
  <2>2. m # 1 /\ m - 1 \in 1 .. Len(ss) /\ m - 1 \notin Not /\ (m - 1) + 1 = m
    BY <1>1, <2>1
  <2>3. Can(m - 1)
    BY <2>2
  <2>4. PICK b : b = m - 1
    OBVIOUS
  <2>5. b \in Nat \ {0} /\ b + 1 = m /\ Can(b)
    BY <2>2, <2>3, <2>4
  <2>6. PICK f \in [1 .. b -> Seq(T)] : Strings(f, ss, b)
    BY <2>5 DEF Can
  <2>7. ss[b + 1] \in Seq(T)
    BY <2>1, <2>5
  <2>8. Can(b + 1)
    BY <2>5, <2>6, <2>7, OneMoreString DEF Can, Agree, Goes
  <2> QED BY <2>1, <2>5, <2>8
<1> HIDE DEF Can
<1>3. Can(Len(ss))
  BY <1>2
<1> QED BY <1>3 DEF Can

\* FlattenSeq() is its last value.
LEMMA FlattenIs ==
    ASSUME NEW T, NEW ss \in Seq(Seq(T)), Len(ss) # 0, NEW f, Strings(f, ss, Len(ss))
    PROVE  Line!FlattenSeq(ss) = f[Len(ss)]
<1> DEFINE flatten == CHOOSE g : g = [x \in 1 .. Len(ss) |->
                                         IF x = 1 THEN ss[x] ELSE g[x - 1] \o ss[x]]
<1>1. Line!FlattenSeq(ss) = flatten[Len(ss)]
  BY DEF Line!FlattenSeq
<1>2. Strings(flatten, ss, Len(ss))
  BY DEF Strings
<1> HIDE DEF flatten
<1>3. flatten = f
  <2>1. Len(ss) \in Nat
    OBVIOUS
  <2> QED BY <1>2, <2>1, StringsAreOne
<1> QED BY <1>1, <1>3

\* One more sequence is appended to what there is.
LEMMA FlattenAppend ==
    ASSUME NEW T, NEW ss \in Seq(Seq(T)), NEW t \in Seq(T)
    PROVE  /\ Line!FlattenSeq(ss) \in Seq(T)
           /\ Line!FlattenSeq(Append(ss, t)) = Line!FlattenSeq(ss) \o t
<1>1. PICK tt : tt = Append(ss, t)
  OBVIOUS
<1>2. PICK n : n = Len(ss)
  OBVIOUS
<1>3. /\ tt \in Seq(Seq(T)) /\ n \in Nat /\ Len(tt) = n + 1 /\ tt[n + 1] = t
      /\ \A x \in 1 .. n : tt[x] = ss[x]
  BY <1>1, <1>2
<1>4. CASE n = 0
  <2>1. ss = <<>> /\ Line!FlattenSeq(ss) = <<>>
    BY <1>2, <1>4, EmptySeq DEF Line!FlattenSeq
  <2>2. PICK f : f = [x \in 1 .. 1 |-> t]
    OBVIOUS
  <2>3. Strings(f, tt, Len(tt)) /\ f[Len(tt)] = t /\ Len(tt) # 0
    BY <1>3, <1>4, <2>2 DEF Strings
  <2>4. Line!FlattenSeq(tt) = t
    BY <1>3, <2>3, FlattenIs
  <2>5. <<>> \o t = t /\ <<>> \in Seq(T)
    BY ConcatEmptySeq, EmptySeq
  <2> QED BY <1>1, <2>1, <2>4, <2>5
<1>5. CASE n # 0
  <2>1. PICK f \in [1 .. n -> Seq(T)] : Strings(f, ss, n)
    BY <1>2, <1>5, StringsExist
  <2>2. Line!FlattenSeq(ss) = f[n] /\ f[n] \in Seq(T)
    <3>1. Len(ss) # 0 /\ Strings(f, ss, Len(ss)) /\ n \in 1 .. n
      BY <1>2, <1>3, <1>5, <2>1
    <3>2. Line!FlattenSeq(ss) = f[Len(ss)]
      BY <3>1, FlattenIs
    <3> QED BY <1>2, <2>1, <3>1, <3>2
  <2>3. PICK g \in [1 .. n + 1 -> Seq(T)] :
            Strings(g, tt, n + 1) /\ g[n + 1] = f[n] \o tt[n + 1]
    <3>1. n \in Nat \ {0} /\ tt[n + 1] \in Seq(T) /\ Agree(ss, tt, n)
      BY <1>3, <1>5 DEF Agree
    <3>2. Strings(f, ss, n) /\ f \in [1 .. n -> Seq(T)]
      BY <2>1
    <3>3. Goes(f, tt, n, T)
      BY ONLY <3>1, <3>2, OneMoreString
    <3> QED BY ONLY <3>3 DEF Goes
  <2>4. Line!FlattenSeq(tt) = g[n + 1]
    <3>1. Len(tt) # 0 /\ Strings(g, tt, Len(tt))
      BY <1>3, <2>3
    <3>2. Line!FlattenSeq(tt) = g[Len(tt)]
      BY <1>3, <3>1, FlattenIs
    <3> QED BY <1>3, <3>2
  <2> QED BY <1>1, <1>3, <2>2, <2>3, <2>4
<1> QED BY <1>4, <1>5

-----------------------------------------------------------------------------
(* The pieces of a value.                                                  *)

\* A value without its backslashes is a value.
LEMMA UnescapedIsValue == ASSUME NEW s \in Line!Values PROVE Line!Unescaped(s) \in Line!Values
<1> DEFINE K == {x \in DOMAIN s : ~(s[x] = Backslash /\ x < Len(s) /\ s[x + 1] = Comma)}
<1>1. DOMAIN s = 1 .. Len(s) /\ Len(s) \in Nat /\ \A x \in 1 .. Len(s) : s[x] \in Line!Chars
  BY DEF Line!Values
<1>2. Bounded(K, Len(s)) /\ \A x \in K : s[x] \in Line!Chars
  BY <1>1 DEF Bounded
<1>3. Line!Unescaped(s) = [m \in DOMAIN Line!InOrder(K) |-> s[Line!InOrder(K)[m]]]
  BY DEF Line!Unescaped
<1> HIDE DEF K
<1>4. /\ Line!InOrder(K) \in Seq(K) /\ Cardinality(K) \in Nat
      /\ DOMAIN Line!InOrder(K) = 1 .. Cardinality(K)
      /\ Len(Line!InOrder(K)) = Cardinality(K)
  BY <1>2, InOrderIs
<1>5. \A m \in 1 .. Cardinality(K) : Line!InOrder(K)[m] \in K
  BY <1>4, ElementOfSeq
<1> QED BY <1>2, <1>3, <1>4, <1>5 DEF Line!Values

\* Where pieces start, but for the one that comes to nothing, and the end of each.
Starts(w) == {x \in Line!Cuts(w) : x = 0 \/ x < Len(w)}
Ahead(w, c) == {j \in Line!Cuts(w) \cup {Len(w) + 1} : j > c}
Till(w, c) == CHOOSE j \in Ahead(w, c) : \A l \in Ahead(w, c) : j <= l

Piece(w, c) == Line!Unescaped(SubSeq(w, c + 1, Till(w, c) - 1))
Left(w, c)  == SubSeq(w, c + 1, Len(w))

LEMMA StartsAreBounded ==
    ASSUME NEW w \in Line!Values
    PROVE  /\ Bounded(Starts(w), Len(w)) /\ 0 \in Starts(w)
           /\ Line!Cuts(w) \subseteq 0 .. Len(w) /\ Len(w) \in Nat
           /\ \A c \in Starts(w) : c \in Nat /\ c <= Len(w)
BY DEF Line!Values, Starts, Bounded, Line!Cuts

\* A piece ends behind its beginning.
LEMMA TillIs ==
    ASSUME NEW w \in Line!Values, NEW c \in Starts(w)
    PROVE  /\ Till(w, c) \in Ahead(w, c) /\ \A l \in Ahead(w, c) : Till(w, c) <= l
           /\ Till(w, c) \in Nat /\ Till(w, c) > c /\ Till(w, c) <= Len(w) + 1
<1>1. Ahead(w, c) \in SUBSET Nat /\ Len(w) + 1 \in Ahead(w, c)
  BY StartsAreBounded DEF Ahead
<1>2. \E j \in Ahead(w, c) : \A l \in Ahead(w, c) : j <= l
  BY <1>1, LeastPlace
<1>3. Till(w, c) \in Ahead(w, c) /\ \A l \in Ahead(w, c) : Till(w, c) <= l
  BY <1>2 DEF Till
<1> QED BY <1>1, <1>3 DEF Ahead

\* Pieces() has the piece that starts at a place at the rank of that place.
LEMMA PiecesAre ==
    ASSUME NEW w \in Line!Values
    PROVE  /\ Line!Pieces(w) \in Seq(Line!Values)
           /\ Len(Line!Pieces(w)) = Cardinality(Starts(w))
           /\ \A c \in Starts(w) : Line!Pieces(w)[Rank(Starts(w), c)] = Piece(w, c)
<1> DEFINE from == Line!InOrder(Starts(w))
<1>1. /\ from \in Seq(Starts(w)) /\ Len(from) = Cardinality(Starts(w))
      /\ Cardinality(Starts(w)) \in Nat
      /\ DOMAIN from = 1 .. Cardinality(Starts(w))
      /\ \A x \in Starts(w) : from[Rank(Starts(w), x)] = x
  BY StartsAreBounded, InOrderIs
<1>2. Line!Pieces(w) = [m \in DOMAIN from |-> Piece(w, from[m])]
  BY DEF Line!Pieces, Piece, Till, Ahead, Starts
<1> HIDE DEF from
<1>3. \A m \in DOMAIN from : from[m] \in Starts(w)
  BY <1>1, ElementOfSeq
<1>4. ASSUME NEW c \in Starts(w) PROVE Piece(w, c) \in Line!Values
  <2>1. c \in Nat /\ Till(w, c) \in Nat /\ Till(w, c) <= Len(w) + 1 /\ Len(w) \in Nat
    BY TillIs, StartsAreBounded
  <2>2. \A x \in c + 1 .. Till(w, c) - 1 : w[x] \in Line!Chars
    BY <2>1 DEF Line!Values
  <2>3. SubSeq(w, c + 1, Till(w, c) - 1) \in Line!Values
    BY <2>1, <2>2, SubSeqProperties DEF Line!Values
  <2> QED BY <2>3, UnescapedIsValue DEF Piece
<1>5. \A m \in 1 .. Cardinality(Starts(w)) : Piece(w, from[m]) \in Line!Values
  BY <1>1, <1>3, <1>4
<1>6. Line!Pieces(w) \in Seq(Line!Values) /\ Len(Line!Pieces(w)) = Cardinality(Starts(w))
  BY <1>1, <1>2, <1>5
<1>7. \A c \in Starts(w) : Rank(Starts(w), c) \in DOMAIN from
  BY <1>1, StartsAreBounded, RankIsPlace
<1> QED BY <1>1, <1>2, <1>6, <1>7

\* The elements of what is left, and where its first piece ends.
LEMMA LeftIs ==
    ASSUME NEW w \in Line!Values, NEW c \in Starts(w), NEW s, s = Left(w, c)
    PROVE  /\ s \in Line!Values /\ Len(s) = Len(w) - c /\ DOMAIN s = 1 .. Len(w) - c
           /\ \A x \in 1 .. Len(w) - c : s[x] = w[c + x]
<1>1. Len(w) \in Nat /\ c \in Nat /\ c <= Len(w)
  BY StartsAreBounded
<1>2. \A x \in c + 1 .. Len(w) : w[x] \in Line!Chars
  BY <1>1 DEF Line!Values
<1>3. /\ s \in Seq(Line!Chars) /\ Len(s) = IF c + 1 <= Len(w) THEN Len(w) - (c + 1) + 1 ELSE 0
      /\ \A x \in 1 .. Len(w) - (c + 1) + 1 : s[x] = w[c + 1 + x - 1]
  BY <1>1, <1>2, SubSeqProperties DEF Left
<1>4. Len(s) = Len(w) - c /\ Len(w) - (c + 1) + 1 = Len(w) - c
  BY <1>1, <1>3
<1>5. \A x \in 1 .. Len(w) - c : c + 1 + x - 1 = c + x
  BY <1>1
<1> QED BY <1>3, <1>4, <1>5 DEF Line!Values

\* The code, which looks at what is left only, finds the end of the piece.
LEMMA FirstEndIs ==
    ASSUME NEW w \in Line!Values, NEW c \in Starts(w), NEW s, s = Left(w, c)
    PROVE  Line!FirstEnd(s) = Till(w, c) - c
<1> DEFINE ends == {x \in DOMAIN s : Line!EndsAt(s, x)}
<1>1. /\ DOMAIN s = 1 .. Len(w) - c /\ Len(s) = Len(w) - c
      /\ \A x \in 1 .. Len(w) - c : s[x] = w[c + x]
  BY LeftIs
<1>2. Len(w) \in Nat /\ c \in Nat /\ c <= Len(w) /\ DOMAIN w = 1 .. Len(w)
  BY StartsAreBounded DEF Line!Values
<1>3. c # 0 => w[c] = Comma
  BY DEF Starts, Line!Cuts
<1>4. Comma # Backslash
  BY Inputs DEF Line!CmdlineAssumption
<1>5. ASSUME NEW x \in 1 .. Len(w) - c
      PROVE  Line!EndsAt(s, x) <=> c + x \in Line!Cuts(w)
  <2>1. c + x \in DOMAIN w /\ c + x # 0
    BY <1>2
  <2>2. s[x] = w[c + x]
    BY <1>1
  <2>3. PICK p : p = c + x
    OBVIOUS
  <2>4. /\ p \in DOMAIN w /\ p \in Nat /\ p # 0 /\ s[x] = w[p]
        /\ x \in Nat /\ x # 0
    BY <1>2, <2>1, <2>2, <2>3
  <2>5. p \in Line!Cuts(w) <=> w[p] = Comma /\ (p > 1 => w[p - 1] # Backslash)
    BY ONLY <2>4 DEF Line!Cuts
  <2>6. Line!EndsAt(s, x) <=> s[x] = Comma /\ (x = 1 \/ s[x - 1] # Backslash)
    BY ONLY DEF Line!EndsAt
  <2>7. CASE x = 1 /\ c = 0
    <3>1. p = 1
      BY <2>3, <2>7
    <3>2. ~(p > 1)
      BY <3>1
    <3> QED BY ONLY <2>3, <2>4, <2>5, <2>6, <2>7, <3>2
  <2>8. CASE x = 1 /\ c # 0
    <3>1. p - 1 = c
      BY <1>2, <2>3, <2>8
    <3>2. w[p - 1] # Backslash
      BY <1>3, <1>4, <2>8, <3>1
    <3> QED BY ONLY <2>3, <2>4, <2>5, <2>6, <2>8, <3>2
  <2>9. CASE x # 1
    <3>1. x - 1 \in 1 .. Len(w) - c /\ c + (x - 1) = p - 1 /\ p > 1
      BY <1>2, <2>3, <2>9
    <3>2. s[x - 1] = w[p - 1]
      BY <1>1, <3>1
    <3> QED BY ONLY <2>3, <2>4, <2>5, <2>6, <2>9, <3>1, <3>2
  <2> QED BY <2>3, <2>7, <2>8, <2>9
<1>6. PICK t : t = Till(w, c)
  OBVIOUS
<1>7. /\ t \in Ahead(w, c) /\ \A l \in Ahead(w, c) : t <= l
      /\ t \in Nat /\ t > c /\ t <= Len(w) + 1
  BY <1>6, TillIs
<1>8. ASSUME NEW x \in ends PROVE c + x \in Ahead(w, c)
  <2>1. x \in 1 .. Len(w) - c /\ Line!EndsAt(s, x)
    BY <1>1
  <2> QED BY <1>2, <1>5, <2>1 DEF Ahead
<1>9. CASE t = Len(w) + 1
  <2>1. ends = {}
    <3>1. ASSUME NEW x \in ends PROVE FALSE
      <4>1. x \in 1 .. Len(w) - c /\ t <= c + x
        BY <1>1, <1>7, <1>8
      <4> QED BY <1>2, <1>9, <4>1
    <3> QED BY <3>1
  <2>2. Line!FirstEnd(s) = Len(s) + 1
    BY <2>1 DEF Line!FirstEnd
  <2> QED BY <1>1, <1>2, <1>6, <1>9, <2>2
<1>10. CASE t # Len(w) + 1
  <2>1. t - c \in 1 .. Len(w) - c /\ c + (t - c) = t /\ t \in Line!Cuts(w)
    BY <1>2, <1>7, <1>10 DEF Ahead
  <2>2. t - c \in ends
    BY <1>1, <1>5, <2>1
  <2>3. \A x \in ends : t - c <= x
    <3>1. ASSUME NEW x \in ends PROVE t - c <= x
      <4>1. x \in 1 .. Len(w) - c /\ t <= c + x
        BY <1>1, <1>7, <1>8
      <4> QED BY <1>2, <1>7, <4>1
    <3> QED BY <3>1
  <2>4. \A x \in ends : x \in Nat
    BY <1>1
  <2>5. Line!FirstEnd(s) = CHOOSE x \in ends : \A y \in ends : x <= y
    BY <2>2 DEF Line!FirstEnd
  <2> HIDE DEF ends
  <2>6. PICK e : e = CHOOSE x \in ends : \A y \in ends : x <= y
    OBVIOUS
  <2>7. e \in ends /\ \A y \in ends : e <= y
    BY <2>2, <2>3, <2>6
  <2>8. e <= t - c /\ t - c <= e /\ e \in Nat /\ t - c \in Nat
    BY <2>2, <2>3, <2>4, <2>7
  <2> QED BY <1>6, <2>5, <2>6, <2>8
<1> QED BY <1>9, <1>10

\* No value is taken for none.
NotNull == \A v \in Line!Values : v # Line!Null

LEMMA ValuesAreNotNull == NotNull
<1>1. "null" \notin Line!Chars
  BY Inputs DEF Line!CmdlineAssumption
<1>2. ASSUME NEW v \in Line!Values, v = Line!Null PROVE FALSE
  <2>1. Len(v) = 1 /\ v[1] = "null"
    BY <1>2 DEF Line!Null
  <2>2. v[1] \in Line!Chars
    BY <2>1, ElementOfSeq DEF Line!Values
  <2> QED BY <1>1, <2>1, <2>2
<1> QED BY <1>2 DEF NotNull

\* What the code takes from what is left is the next piece.
LEMMA TokenIsPiece ==
    ASSUME NEW w \in Line!Values, NEW c \in Starts(w), NEW s, s = Left(w, c)
    PROVE  Line!get_multiple_arg_token(s) = Piece(w, c)
<1>1. s # Line!Null
  BY LeftIs, ValuesAreNotNull DEF NotNull
<1>2. PICK t : t = Till(w, c)
  OBVIOUS
<1>3. Line!FirstEnd(s) = t - c
  BY <1>2, FirstEndIs
<1>4. Len(w) \in Nat /\ c \in Nat /\ c <= Len(w) /\ t \in Nat /\ t > c /\ t <= Len(w) + 1
  BY <1>2, StartsAreBounded, TillIs
<1>5. SubSeq(s, 1, t - c - 1) = SubSeq(w, c + 1, t - 1)
  <2>1. CASE t = c + 1
    <3>1. t - c - 1 = 0 /\ t - 1 < c + 1 /\ t - 1 \in Int /\ c + 1 \in Int
      BY <1>4, <2>1
    <3>2. SubSeq(w, c + 1, t - 1) = <<>>
      BY <3>1, SubSeqEmpty
    <3>3. SubSeq(s, 1, 0) = <<>>
      BY SubSeqEmpty
    <3> QED BY <3>1, <3>2, <3>3
  <2>2. CASE t # c + 1
    <3>1. /\ c + 1 \in 1 .. Len(w) /\ Len(w) \in 1 .. Len(w)
          /\ 1 \in 1 .. Len(w) - (c + 1) + 1 /\ t - c - 1 \in 1 .. Len(w) - (c + 1) + 1
          /\ (c + 1) + 1 - 1 = c + 1 /\ (c + 1) + (t - c - 1) - 1 = t - 1
      BY <1>4, <2>2
    <3>2. SubSeq(SubSeq(w, c + 1, Len(w)), 1, t - c - 1)
              = SubSeq(w, (c + 1) + 1 - 1, (c + 1) + (t - c - 1) - 1)
      <4>1. PICK m, e : m = c + 1 /\ e = t - c - 1
        OBVIOUS
      <4>2. /\ w \in Seq(Line!Chars) /\ m \in 1 .. Len(w) /\ Len(w) \in 1 .. Len(w)
            /\ 1 \in 1 .. Len(w) - m + 1 /\ e \in 1 .. Len(w) - m + 1
        BY <3>1, <4>1 DEF Line!Values
      <4>3. SubSeq(SubSeq(w, m, Len(w)), 1, e) = SubSeq(w, m + 1 - 1, m + e - 1)
        BY ONLY <4>2, SubSeqOfSubSeq
      <4> QED BY <4>1, <4>3
    <3> QED BY <3>1, <3>2 DEF Left
  <2> QED BY <2>1, <2>2
<1> QED BY <1>1, <1>2, <1>3, <1>5 DEF Line!get_multiple_arg_token, Piece

\* What is left after a piece, and that nothing is when it was the last one.
LEMMA NextIsLeft ==
    ASSUME NEW w \in Line!Values, NEW c \in Starts(w), NEW s, s = Left(w, c)
    PROVE  \/ /\ Line!get_multiple_arg_token_next(s) = Line!Null
              /\ Rank(Starts(w), c) = Cardinality(Starts(w))
           \/ \E d \in Starts(w) :
                  /\ Line!get_multiple_arg_token_next(s) = Left(w, d)
                  /\ Rank(Starts(w), d) = Rank(Starts(w), c) + 1
<1>1. s # Line!Null /\ Len(s) = Len(w) - c
  BY LeftIs, ValuesAreNotNull DEF NotNull
<1>2. PICK t : t = Till(w, c)
  OBVIOUS
<1>3. Line!FirstEnd(s) = t - c
  BY <1>2, FirstEndIs
<1>4. Len(w) \in Nat /\ c \in Nat /\ c <= Len(w) /\ t \in Nat /\ t > c /\ t <= Len(w) + 1
  BY <1>2, StartsAreBounded, TillIs
<1>5. \A j \in Starts(w) : j > c => t <= j
  <2>1. \A j \in Starts(w) : j > c => j \in Ahead(w, c)
    BY DEF Starts, Ahead
  <2> QED BY <1>2, <2>1, TillIs
<1>6. CASE t >= Len(w)
  <2>1. Line!get_multiple_arg_token_next(s) = Line!Null
    BY <1>1, <1>3, <1>4, <1>6 DEF Line!get_multiple_arg_token_next
  <2>2. \A j \in Starts(w) : j <= c
    <3>1. ASSUME NEW j \in Starts(w), j > c PROVE FALSE
      <4>1. j \in Nat /\ j # 0 /\ t <= j
        BY <1>4, <1>5, <3>1, StartsAreBounded
      <4>2. j < Len(w)
        BY <4>1 DEF Starts
      <4> QED BY <1>4, <1>6, <4>1, <4>2
    <3> QED BY <1>4, <3>1, StartsAreBounded
  <2> QED BY <2>1, <2>2, RankOfLast
<1>7. CASE t < Len(w)
  <2>1. t \in Starts(w)
    <3>1. t \in Line!Cuts(w)
      BY <1>2, <1>4, <1>7, TillIs DEF Ahead
    <3> QED BY <1>7, <3>1 DEF Starts
  <2>2. Rank(Starts(w), t) = Rank(Starts(w), c) + 1
    <3>1. \A j \in Starts(w) : j <= c \/ t <= j
      BY <1>4, <1>5, StartsAreBounded
    <3> QED BY <1>4, <2>1, <3>1, RankOfNext, StartsAreBounded
  <2>3. Line!get_multiple_arg_token_next(s) = SubSeq(s, t - c + 1, Len(w) - c)
    BY <1>1, <1>3, <1>4, <1>7 DEF Line!get_multiple_arg_token_next
  <2>4. SubSeq(s, t - c + 1, Len(w) - c) = SubSeq(w, t + 1, Len(w))
    <3>1. PICK a, m, e : a = c + 1 /\ m = t - c + 1 /\ e = Len(w) - c
      OBVIOUS
    <3>2. /\ w \in Seq(Line!Chars) /\ a \in 1 .. Len(w) /\ Len(w) \in 1 .. Len(w)
          /\ m \in 1 .. Len(w) - a + 1 /\ e \in 1 .. Len(w) - a + 1
      BY <1>4, <1>7, <3>1 DEF Line!Values
    <3>3. SubSeq(SubSeq(w, a, Len(w)), m, e) = SubSeq(w, a + m - 1, a + e - 1)
      BY ONLY <3>2, SubSeqOfSubSeq
    <3>4. a + m - 1 = t + 1 /\ a + e - 1 = Len(w)
      BY <1>4, <3>1
    <3> QED BY <3>1, <3>3, <3>4 DEF Left
  <2> QED BY <2>1, <2>2, <2>3, <2>4 DEF Left
<1> QED BY <1>4, <1>6, <1>7

\* The first pieces of w are in a, behind what is in v, and r is the rest of w.
Partly(w, r, v, a) ==
    \E c \in Starts(w) :
        /\ r = Left(w, c)
        /\ a = v \o SubSeq(Line!Pieces(w), 1, Rank(Starts(w), c) - 1)

Texts == Line!Values \cup {Line!Null}

\* The next one goes there.
Added(w, s, v, a) ==
    /\ Line!get_multiple_arg_token(s) \in Line!Values
    /\ \/ /\ Line!get_multiple_arg_token_next(s) = Line!Null
          /\ Append(a, Line!get_multiple_arg_token(s)) = v \o Line!Pieces(w)
       \/ /\ Line!get_multiple_arg_token_next(s) # Line!Null
          /\ Partly(w, Line!get_multiple_arg_token_next(s), v,
                    Append(a, Line!get_multiple_arg_token(s)))

LEMMA AppendInside ==
    ASSUME NEW T, NEW v \in Seq(T), NEW p \in Seq(T), NEW m \in 1 .. Len(p)
    PROVE  Append(v \o SubSeq(p, 1, m - 1), p[m]) = v \o SubSeq(p, 1, m)
<1>1. PICK x : x = SubSeq(p, 1, m - 1)
  OBVIOUS
<1>2. PICK y : y = SubSeq(p, 1, m)
  OBVIOUS
<1>3. x \in Seq(T) /\ Len(x) = m - 1 /\ \A j \in 1 .. m - 1 : x[j] = p[j]
  <2>1. \A j \in 1 .. m - 1 : p[j] \in T
    OBVIOUS
  <2>2. /\ x \in Seq(T) /\ Len(x) = IF 1 <= m - 1 THEN m - 1 - 1 + 1 ELSE 0
        /\ \A j \in 1 .. m - 1 - 1 + 1 : x[j] = p[1 + j - 1]
    BY <1>1, <2>1, SubSeqProperties
  <2> QED BY <2>2
<1>4. y \in Seq(T) /\ Len(y) = m /\ \A j \in 1 .. m : y[j] = p[j]
  <2>1. \A j \in 1 .. m : p[j] \in T
    OBVIOUS
  <2>2. /\ y \in Seq(T) /\ Len(y) = IF 1 <= m THEN m - 1 + 1 ELSE 0
        /\ \A j \in 1 .. m - 1 + 1 : y[j] = p[1 + j - 1]
    BY <1>2, <2>1, SubSeqProperties
  <2> QED BY <2>2
<1>5. p[m] \in T
  OBVIOUS
<1>6. y = Append(x, p[m])
  <2>1. Append(x, p[m]) \in Seq(T) /\ Len(Append(x, p[m])) = m
    BY <1>3, <1>5
  <2>2. \A j \in 1 .. Len(y) : y[j] = Append(x, p[m])[j]
    BY <1>3, <1>4, <1>5
  <2> QED BY <1>4, <2>1, <2>2, SeqEqual
<1>7. Append(v \o x, p[m]) = v \o Append(x, p[m])
  <2>1. PICK e \in T : e = p[m]
    BY <1>5
  <2>2. v \o x \in Seq(T) /\ <<e>> \in Seq(T)
    BY <1>3, ConcatProperties
  <2>3. Append(v \o x, e) = (v \o x) \o <<e>> /\ Append(x, e) = x \o <<e>>
    BY <1>3, <2>2, AppendIsConcat
  <2>4. (v \o x) \o <<e>> = v \o (x \o <<e>>)
    BY ONLY v \in Seq(T), <1>3, <2>2, ConcatAssociative
  <2>5. Append(v \o x, e) = v \o Append(x, e)
    BY ONLY <2>3, <2>4
  <2> QED BY <2>1, <2>5
<1> QED BY <1>1, <1>2, <1>6, <1>7

\* The code adds one piece, and goes on exactly if there is another one.
LEMMA TokenIsAdded ==
    ASSUME NEW w \in Line!Values, NEW s, NEW v \in Seq(Texts), NEW a, Partly(w, s, v, a)
    PROVE  Added(w, s, v, a)
<1>1. PICK c \in Starts(w) :
          s = Left(w, c) /\ a = v \o SubSeq(Line!Pieces(w), 1, Rank(Starts(w), c) - 1)
  BY DEF Partly
<1>2. PICK p : p = Line!Pieces(w)
  OBVIOUS
<1>3. PICK m : m = Rank(Starts(w), c)
  OBVIOUS
<1>4. /\ p \in Seq(Line!Values) /\ p \in Seq(Texts) /\ m \in 1 .. Len(p)
      /\ Len(p) = Cardinality(Starts(w)) /\ p[m] = Piece(w, c) /\ Len(p) \in Nat
  <2>1. m \in 1 .. Cardinality(Starts(w))
    BY <1>3, StartsAreBounded, RankIsPlace
  <2>2. p \in Seq(Line!Values) /\ Len(p) = Cardinality(Starts(w)) /\ p[m] = Piece(w, c)
    BY <1>2, <1>3, PiecesAre
  <2>3. p \in Seq(Texts)
    BY <2>2, SeqMonotonic DEF Texts
  <2> QED BY <2>1, <2>2, <2>3
<1>5. Line!get_multiple_arg_token(s) = p[m] /\ p[m] \in Line!Values
  BY <1>1, <1>4, TokenIsPiece
<1>6. Append(a, p[m]) = v \o SubSeq(p, 1, m)
  <2>1. a = v \o SubSeq(p, 1, m - 1)
    BY <1>1, <1>2, <1>3
  <2> QED BY <1>4, <2>1, AppendInside
<1>7. CASE /\ Line!get_multiple_arg_token_next(s) = Line!Null
           /\ Rank(Starts(w), c) = Cardinality(Starts(w))
  <2>1. SubSeq(p, 1, m) = p
    <3>1. m = Len(p)
      BY <1>3, <1>4, <1>7
    <3> QED BY <1>4, <3>1, SubSeqFull
  <2> QED BY <1>2, <1>5, <1>6, <1>7, <2>1 DEF Added
<1>8. CASE \E d \in Starts(w) :
               /\ Line!get_multiple_arg_token_next(s) = Left(w, d)
               /\ Rank(Starts(w), d) = Rank(Starts(w), c) + 1
  <2>1. PICK d \in Starts(w) :
               /\ Line!get_multiple_arg_token_next(s) = Left(w, d)
               /\ Rank(Starts(w), d) = Rank(Starts(w), c) + 1
    BY <1>8
  <2>2. Line!get_multiple_arg_token_next(s) # Line!Null
    BY <2>1, LeftIs, ValuesAreNotNull DEF NotNull
  <2>3. Rank(Starts(w), d) - 1 = m
    BY <1>3, <1>4, <2>1
  <2>4. Append(a, p[m]) = v \o SubSeq(Line!Pieces(w), 1, Rank(Starts(w), d) - 1)
    BY <1>2, <1>6, <2>3
  <2>5. Partly(w, Line!get_multiple_arg_token_next(s), v, Append(a, p[m]))
    BY <2>1, <2>4 DEF Partly
  <2> QED BY <1>5, <2>2, <2>5 DEF Added
<1> QED BY <1>1, <1>7, <1>8, NextIsLeft

\* At the start of a value nothing of it is there.
LEMMA PartlyAtFirst ==
    ASSUME NEW w \in Line!Values, NEW v \in Seq(Texts)
    PROVE  Partly(w, w, v, v)
<1>1. 0 \in Starts(w)
  BY StartsAreBounded
<1>2. Left(w, 0) = w
  <2>1. 0 + 1 = 1 /\ w \in Seq(Line!Chars)
    BY DEF Line!Values
  <2>2. SubSeq(w, 1, Len(w)) = w
    BY <2>1, SubSeqFull
  <2> QED BY <2>1, <2>2 DEF Left
<1>3. Rank(Starts(w), 0) = 1
  BY <1>1, StartsAreBounded, RankOfFirst
<1>4. SubSeq(Line!Pieces(w), 1, Rank(Starts(w), 0) - 1) = <<>>
  <2>1. Rank(Starts(w), 0) - 1 = 0
    BY <1>3
  <2>2. SubSeq(Line!Pieces(w), 1, 0) = <<>>
    BY SubSeqEmpty
  <2> QED BY <2>1, <2>2
<1>5. v \o <<>> = v
  BY ConcatEmptySeq
<1> QED BY <1>1, <1>2, <1>4, <1>5 DEF Partly

-----------------------------------------------------------------------------
(* The occurrences of an option.                                           *)

\* Command lines are sequences, and no option is of two kinds.
LEMMA LinesAre ==
    ASSUME NEW line \in CommandLines
    PROVE  /\ Len(line) \in Nat /\ DOMAIN line = 1 .. Len(line)
           /\ \A m \in DOMAIN line : Line!Occurrence(line[m])
           /\ Multiple \cap Line!Once = {}
<1>1. /\ line \in Seq({line[m] : m \in DOMAIN line})
      /\ \A m \in DOMAIN line : Line!Occurrence(line[m])
  BY Inputs DEF Line!CmdlineAssumption
<1>2. Multiple \cap Line!Once = {}
  BY Inputs DEF Line!CmdlineAssumption, Line!Once
<1>3. PICK T : T = {line[m] : m \in DOMAIN line}
  OBVIOUS
<1>4. line \in Seq(T)
  BY <1>1, <1>3
<1> QED BY <1>1, <1>2, <1>4

\* Those of o among the first n options.
Places(line, o, n) == {m \in DOMAIN line : m <= n /\ line[m].opt = o}

Of(line, o, n) ==
    LET places == Line!InOrder(Places(line, o, n)) IN [m \in DOMAIN places |-> line[places[m]]]

Those(line, o) == {line[m] : m \in {l \in DOMAIN line : line[l].opt = o}}

LEMMA PlacesAreBounded ==
    ASSUME NEW line \in CommandLines, NEW o, NEW n \in Nat
    PROVE  Bounded(Places(line, o, n), n)
<1>1. DOMAIN line \subseteq Nat
  BY LinesAre
<1> QED BY <1>1 DEF Places, Bounded

LEMMA OfIs ==
    ASSUME NEW line \in CommandLines, NEW o, NEW n \in Nat
    PROVE  Of(line, o, n) \in Seq(Those(line, o))
<1>1. PICK places : places = Line!InOrder(Places(line, o, n))
  OBVIOUS
<1>2. /\ places \in Seq(Places(line, o, n)) /\ Cardinality(Places(line, o, n)) \in Nat
      /\ DOMAIN places = 1 .. Cardinality(Places(line, o, n))
  BY <1>1, PlacesAreBounded, InOrderIs
<1>3. \A m \in DOMAIN places : line[places[m]] \in Those(line, o)
  <2>1. \A m \in DOMAIN places : places[m] \in Places(line, o, n)
    BY <1>2, ElementOfSeq
  <2> QED BY <2>1 DEF Places, Those
<1>4. Of(line, o, n) = [m \in DOMAIN places |-> line[places[m]]]
  BY <1>1 DEF Of
<1> QED BY <1>2, <1>3, <1>4

LEMMA OfNone ==
    ASSUME NEW line \in CommandLines, NEW o
    PROVE  Of(line, o, 0) = <<>>
<1>1. Places(line, o, 0) = {}
  BY LinesAre DEF Places
<1>2. /\ Bounded({}, 0)
      /\ DOMAIN Line!InOrder({}) = 1 .. Cardinality({})
  <2>1. Bounded({}, 0)
    BY DEF Bounded
  <2> QED BY <2>1, InOrderIs
<1>3. Cardinality({}) = 0
  BY FS_EmptySet
<1>4. DOMAIN Of(line, o, 0) = {} /\ Of(line, o, 0) \in Seq(Those(line, o))
  <2>1. DOMAIN Of(line, o, 0) = DOMAIN Line!InOrder({})
    BY <1>1 DEF Of
  <2> QED BY <1>2, <1>3, <2>1, OfIs
<1>5. PICK q : q = Of(line, o, 0)
  OBVIOUS
<1>6. q \in Seq(Those(line, o)) /\ DOMAIN q = {}
  BY <1>4, <1>5
<1>7. Len(q) = 0
  BY <1>6
<1> QED BY <1>5, <1>6, <1>7, EmptySeq

\* One more option is one occurrence more, if it is this one.
LEMMA OfGrows ==
    ASSUME NEW line \in CommandLines, NEW o, NEW n \in Nat, n < Len(line)
    PROVE  /\ line[n + 1].opt = o
              => Of(line, o, n + 1) = Append(Of(line, o, n), line[n + 1])
           /\ line[n + 1].opt # o => Of(line, o, n + 1) = Of(line, o, n)
<1>1. Len(line) \in Nat /\ DOMAIN line = 1 .. Len(line)
  BY LinesAre
<1>2. CASE line[n + 1].opt # o
  <2>1. ASSUME NEW m \in DOMAIN line, line[m].opt = o PROVE m <= n + 1 <=> m <= n
    <3>1. m # n + 1
      BY <1>2, <2>1
    <3> QED BY <1>1, <3>1
  <2>2. Places(line, o, n + 1) = Places(line, o, n)
    BY <2>1 DEF Places
  <2> QED BY <1>2, <2>2 DEF Of
<1>3. CASE line[n + 1].opt = o
  <2>1. PICK S : S = Places(line, o, n)
    OBVIOUS
  <2>2. Places(line, o, n + 1) = S \cup {n + 1}
    <3>1. n + 1 \in DOMAIN line
      BY <1>1
    <3>2. \A m \in DOMAIN line : m <= n + 1 <=> m <= n \/ m = n + 1
      BY <1>1
    <3>3. Places(line, o, n + 1) \subseteq S \cup {n + 1}
      BY <2>1, <3>2 DEF Places
    <3>4. S \cup {n + 1} \subseteq Places(line, o, n + 1)
      BY <1>3, <2>1, <3>1, <3>2 DEF Places
    <3> QED BY <3>3, <3>4
  <2>3. PICK f : f = Line!InOrder(S)
    OBVIOUS
  <2>4. PICK y : y = n + 1
    OBVIOUS
  <2>5. Line!InOrder(S \cup {y}) = Append(f, y)
    <3>1. Bounded(S, n) /\ y \in Nat /\ n < y
      BY <2>1, <2>4, PlacesAreBounded
    <3> QED BY <2>3, <3>1, InOrderAppend
  <2>6. f \in Seq(S) /\ Bounded(S, n)
    BY <2>1, <2>3, PlacesAreBounded, InOrderIs
  <2>7. Of(line, o, n) = [m \in DOMAIN f |-> line[f[m]]]
    BY <2>1, <2>3 DEF Of
  <2>8. Of(line, o, n + 1) = [m \in DOMAIN Append(f, y) |-> line[Append(f, y)[m]]]
    BY <2>2, <2>4, <2>5 DEF Of
  <2>9. PICK q : q = Of(line, o, n)
    OBVIOUS
  <2>10. PICK r : r = Of(line, o, n + 1)
    OBVIOUS
  <2>11. PICK e : e = line[y]
    OBVIOUS
  <2>12. PICK T : T = Those(line, o)
    OBVIOUS
  <2>13. q \in Seq(T) /\ r \in Seq(T) /\ e \in T
    <3>1. y \in DOMAIN line
      BY <1>1, <2>4
    <3>2. e \in T
      BY <1>3, <2>4, <2>11, <2>12, <3>1 DEF Those
    <3> QED BY <2>9, <2>10, <2>12, <3>2, OfIs
  <2>14. /\ Len(f) \in Nat /\ DOMAIN f = 1 .. Len(f) /\ f \in Seq(Nat)
    <3>1. S \subseteq Nat /\ f \in Seq(S)
      BY <2>6 DEF Bounded
    <3>2. f \in Seq(Nat)
      BY ONLY <3>1, SeqMonotonic
    <3> QED BY ONLY <3>2
  <2>15. /\ DOMAIN Append(f, y) = 1 .. Len(f) + 1
         /\ \A m \in 1 .. Len(f) : Append(f, y)[m] = f[m]
         /\ Append(f, y)[Len(f) + 1] = y
    <3>1. y \in Nat
      BY <2>4
    <3> QED BY <2>14, <3>1
  <2>16. /\ Len(q) = Len(f) /\ Len(r) = Len(f) + 1
         /\ \A m \in 1 .. Len(f) : q[m] = line[f[m]] /\ r[m] = line[f[m]]
         /\ r[Len(f) + 1] = e
    <3>1. q = [m \in 1 .. Len(f) |-> line[f[m]]]
      BY <2>7, <2>9, <2>14
    <3>2. r = [m \in 1 .. Len(f) + 1 |-> line[Append(f, y)[m]]]
      BY <2>8, <2>10, <2>15
    <3>3. Len(q) = Len(f) /\ Len(r) = Len(f) + 1
      BY <2>14, <3>1, <3>2
    <3>4. r[Len(f) + 1] = line[Append(f, y)[Len(f) + 1]]
      BY <2>14, <3>2
    <3>5. r[Len(f) + 1] = e
      BY <2>11, <2>15, <3>4
    <3>6. \A m \in 1 .. Len(f) : m \in 1 .. Len(f) + 1
      BY <2>14
    <3>7. \A m \in 1 .. Len(f) : r[m] = line[Append(f, y)[m]]
      BY <3>2, <3>6
    <3>8. \A m \in 1 .. Len(f) : r[m] = line[f[m]]
      BY <2>15, <3>7
    <3> QED BY <3>1, <3>3, <3>5, <3>8
  <2>17. r = Append(q, e)
    <3>1. Append(q, e) \in Seq(T) /\ Len(Append(q, e)) = Len(r)
      BY <2>13, <2>16
    <3>2. \A m \in 1 .. Len(r) : r[m] = Append(q, e)[m]
      BY <2>13, <2>14, <2>16
    <3> QED BY <2>13, <3>1, <3>2, SeqEqual
  <2> QED BY <1>3, <2>4, <2>9, <2>10, <2>11, <2>17
<1> QED BY <1>2, <1>3

\* What they mean for an option with many values.
Meant(q) == Line!FlattenSeq([m \in DOMAIN q |-> Line!ValuesOf(q[m])])

LEMMA ValuesOfType ==
    ASSUME NEW line \in CommandLines, NEW o \in Multiple, NEW a \in Those(line, o)
    PROVE  /\ a.val \in Texts /\ Line!ValuesOf(a) \in Seq(Texts)
           /\ a.val \in Line!Values \/ a.val = Line!Null
<1>1. Line!Occurrence(a) /\ a.opt = o
  BY LinesAre DEF Those
<1>2. a.val \in Line!Values \cup {Line!Null}
  <2>1. a.opt \in Multiple /\ a.opt \notin Single
    BY <1>1, LinesAre DEF Line!Once
  <2> QED BY <1>1, <2>1 DEF Line!Occurrence
<1>3. CASE a.val = Line!Null
  <2>1. Line!Null \in Texts
    BY DEF Texts
  <2>2. <<Line!Null>> \in Seq(Texts)
    BY <2>1
  <2> QED BY <1>2, <1>3, <2>2 DEF Line!ValuesOf, Texts
<1>4. CASE a.val # Line!Null
  <2>1. Line!Pieces(a.val) \in Seq(Line!Values)
    BY <1>2, <1>4, PiecesAre
  <2>2. Line!Pieces(a.val) \in Seq(Texts)
    BY <2>1, SeqMonotonic DEF Texts
  <2> QED BY <1>2, <1>4, <2>2 DEF Line!ValuesOf, Texts
<1> QED BY <1>3, <1>4

LEMMA MeantGrows ==
    ASSUME NEW line \in CommandLines, NEW o \in Multiple,
           NEW q \in Seq(Those(line, o)), NEW a \in Those(line, o)
    PROVE  /\ Meant(q) \in Seq(Texts)
           /\ Meant(Append(q, a)) = Meant(q) \o Line!ValuesOf(a)
<1>1. PICK f : f = [m \in DOMAIN q |-> Line!ValuesOf(q[m])]
  OBVIOUS
<1>2. PICK r : r = Append(q, a)
  OBVIOUS
<1>3. PICK g : g = [m \in DOMAIN r |-> Line!ValuesOf(r[m])]
  OBVIOUS
<1>4. PICK v : v = Line!ValuesOf(a)
  OBVIOUS
<1>5. v \in Seq(Texts)
  BY <1>4, ValuesOfType
<1>6. /\ Len(q) \in Nat /\ DOMAIN q = 1 .. Len(q) /\ Len(r) = Len(q) + 1
      /\ DOMAIN r = 1 .. Len(q) + 1 /\ r[Len(q) + 1] = a
      /\ \A m \in 1 .. Len(q) : r[m] = q[m] /\ q[m] \in Those(line, o)
  BY <1>2
<1>7. f \in Seq(Seq(Texts)) /\ Len(f) = Len(q)
      /\ \A m \in 1 .. Len(q) : f[m] = Line!ValuesOf(q[m])
  <2>1. \A m \in 1 .. Len(q) : Line!ValuesOf(q[m]) \in Seq(Texts)
    BY <1>6, ValuesOfType
  <2>2. f = [m \in 1 .. Len(q) |-> Line!ValuesOf(q[m])]
    BY <1>1, <1>6
  <2> QED BY <1>6, <2>1, <2>2
<1>8. g \in Seq(Seq(Texts)) /\ Len(g) = Len(q) + 1 /\ g[Len(q) + 1] = v
      /\ \A m \in 1 .. Len(q) : g[m] = f[m]
  <2>1. g = [m \in 1 .. Len(q) + 1 |-> Line!ValuesOf(r[m])]
    BY <1>3, <1>6
  <2>2. Line!ValuesOf(r[Len(q) + 1]) = v
    BY <1>4, <1>6
  <2>3. \A m \in 1 .. Len(q) : Line!ValuesOf(r[m]) = f[m] /\ f[m] \in Seq(Texts)
    BY <1>6, <1>7
  <2>4. \A m \in 1 .. Len(q) + 1 : m = Len(q) + 1 \/ m \in 1 .. Len(q)
    BY <1>6
  <2>5. \A m \in 1 .. Len(q) + 1 : Line!ValuesOf(r[m]) \in Seq(Texts)
    BY <1>5, <2>2, <2>3, <2>4
  <2>6. g \in Seq(Seq(Texts)) /\ Len(g) = Len(q) + 1
    BY <1>6, <2>1, <2>5
  <2>7. Len(q) + 1 \in 1 .. Len(q) + 1 /\ \A m \in 1 .. Len(q) : m \in 1 .. Len(q) + 1
    BY <1>6
  <2> QED BY <2>1, <2>2, <2>3, <2>6, <2>7
<1>9. g = Append(f, v)
  <2>1. Append(f, v) \in Seq(Seq(Texts)) /\ Len(Append(f, v)) = Len(g)
    BY <1>5, <1>7, <1>8
  <2>2. \A m \in 1 .. Len(g) : g[m] = Append(f, v)[m]
    BY <1>5, <1>6, <1>7, <1>8
  <2> QED BY <1>8, <2>1, <2>2, SeqEqual
<1>10. Line!FlattenSeq(f) \in Seq(Texts) /\ Line!FlattenSeq(Append(f, v)) = Line!FlattenSeq(f) \o v
  BY <1>5, <1>7, FlattenAppend
<1> QED BY <1>1, <1>2, <1>3, <1>4, <1>9, <1>10 DEF Meant

LEMMA MeantNone == Meant(<<>>) = <<>>
<1>1. PICK f : f = [m \in DOMAIN <<>> |-> Line!ValuesOf(<<>>[m])]
  OBVIOUS
<1>2. f = <<>>
  <2>1. DOMAIN <<>> = {}
    OBVIOUS
  <2>2. f \in Seq({}) /\ Len(f) = 0
    BY <1>1, <2>1
  <2> QED BY <2>2, EmptySeq
<1>3. Line!FlattenSeq(<<>>) = <<>>
  BY EmptySeq DEF Line!FlattenSeq
<1> QED BY <1>1, <1>2, <1>3 DEF Meant

\* The linked list has the newest first.
Reversed(l) == [m \in 1 .. Len(l) |-> l[Len(l) - m + 1]]

LEMMA ReversedGrows ==
    ASSUME NEW T, NEW l \in Seq(T), NEW t \in T
    PROVE  /\ <<t>> \o l \in Seq(T) /\ Len(<<t>> \o l) = Len(l) + 1
           /\ Reversed(l) \in Seq(T) /\ Reversed(<<t>> \o l) = Append(Reversed(l), t)
<1>1. PICK r : r = <<t>> \o l
  OBVIOUS
<1>2. <<t>> \in Seq(T) /\ Len(<<t>>) = 1 /\ <<t>>[1] = t /\ Len(l) \in Nat
  OBVIOUS
<1>3. /\ r \in Seq(T) /\ Len(r) = Len(l) + 1
      /\ \A m \in 1 .. Len(l) + 1 : r[m] = IF m <= 1 THEN t ELSE l[m - 1]
  <2>1. /\ r \in Seq(T) /\ Len(r) = 1 + Len(l)
        /\ \A m \in 1 .. 1 + Len(l) : r[m] = IF m <= 1 THEN <<t>>[m] ELSE l[m - 1]
    BY <1>1, <1>2, ConcatProperties
  <2> QED BY <1>2, <2>1
<1>4. PICK b : b = Reversed(l)
  OBVIOUS
<1>5. PICK c : c = Reversed(r)
  OBVIOUS
<1>6. /\ b \in Seq(T) /\ Len(b) = Len(l)
      /\ \A m \in 1 .. Len(l) : b[m] = l[Len(l) - m + 1]
  BY <1>4 DEF Reversed
<1>7. /\ c \in Seq(T) /\ Len(c) = Len(l) + 1
      /\ \A m \in 1 .. Len(l) + 1 : c[m] = r[Len(l) + 1 - m + 1]
  <2>1. c = [m \in 1 .. Len(l) + 1 |-> r[Len(l) + 1 - m + 1]]
    BY <1>3, <1>5 DEF Reversed
  <2>2. \A m \in 1 .. Len(l) + 1 : r[Len(l) + 1 - m + 1] \in T
    <3>1. \A m \in 1 .. Len(l) + 1 : Len(l) + 1 - m + 1 \in 1 .. Len(r)
      BY <1>2, <1>3
    <3> QED BY <1>3, <3>1
  <2> QED BY <1>2, <2>1, <2>2
<1>8. c = Append(b, t)
  <2>1. ASSUME NEW m \in 1 .. Len(l) + 1 PROVE c[m] = Append(b, t)[m]
    <3>1. PICK x : x = Len(l) + 1 - m + 1
      OBVIOUS
    <3>2. CASE m = Len(l) + 1
      <4>1. x = 1 /\ 1 \in 1 .. Len(l) + 1
        BY <1>2, <3>1, <3>2
      <4>2. c[m] = t
        BY <1>3, <1>7, <3>1, <4>1
      <4>3. Append(b, t)[Len(b) + 1] = t
        BY <1>6
      <4> QED BY <1>6, <3>2, <4>2, <4>3
    <3>3. CASE m # Len(l) + 1
      <4>1. m \in 1 .. Len(l) /\ x \in 1 .. Len(l) + 1 /\ ~(x <= 1) /\ x - 1 = Len(l) - m + 1
        BY <1>2, <3>1, <3>3
      <4>2. c[m] = l[x - 1]
        BY <1>3, <1>7, <3>1, <4>1
      <4>3. Append(b, t)[m] = b[m]
        BY <1>6, <4>1
      <4> QED BY <1>6, <4>1, <4>2, <4>3
    <3> QED BY <3>2, <3>3
  <2>2. Append(b, t) \in Seq(T) /\ Len(Append(b, t)) = Len(c)
    BY <1>6, <1>7
  <2> QED BY <1>7, <2>1, <2>2, SeqEqual
<1> QED BY <1>1, <1>3, <1>4, <1>5, <1>6, <1>8

-----------------------------------------------------------------------------
(* The command line.                                                       *)

LineTypes ==
    /\ argv \in CommandLines
    /\ pc \in {"getopt", "tokens", "check", "done", "failed", "exited"}
    /\ at \in 1 .. Len(argv) + 1
    /\ lists \in [Multiple -> Seq(Texts)]
    /\ prev \in [Line!Options -> Nat] /\ given \in [Line!Options -> Nat]
    /\ arg = [o \in Line!Options |-> arg[o]]

\* The list of an option has the values of its occurrences so far, and those of the
\* one that is being read up to where it is read.
Listed(o) ==
    /\ prev[o] = Len(lists[o])
    /\ IF pc = "tokens" /\ o = Line!Opt
       THEN /\ Line!Val \in Line!Values
            /\ Partly(Line!Val, rest, Meant(Of(argv, o, at - 1)), Reversed(lists[o]))
       ELSE Reversed(lists[o]) = Meant(Of(argv, o, at - 1))

\* The array of an option has the values of all its occurrences.
InArrays(o) == arg[o] = Meant(Of(argv, o, Len(argv))) /\ given[o] = Len(arg[o])

\* q are the occurrences so far.
ReadOnce(o, q) ==
    /\ Len(q) <= 1 /\ prev[o] = Len(q) /\ given[o] = Len(q)
    /\ q = <<>> => arg[o] = Line!Default(o)
    /\ q # <<>> /\ o \in Single => arg[o] = q[1].val
    /\ q # <<>> /\ o \in Flags => arg[o] = TRUE

\* The inductive invariant of the command line.
LineInv ==
    /\ LineTypes
    /\ pc \in {"getopt", "tokens"} => \A o \in Multiple : Listed(o)
    /\ pc = "tokens" => at <= Len(argv) /\ Line!Opt \in Multiple
    /\ pc \in {"check", "done"} => at = Len(argv) + 1 /\ \A o \in Multiple : InArrays(o)
    /\ pc \in {"getopt", "tokens", "check", "done"} =>
           \A o \in Line!Once : ReadOnce(o, Of(argv, o, at - 1))
    /\ pc = "done" /\ given["ephemeral"] > 0 => given["chroot"] # 0

LEMMA ReversedNone == Reversed(<<>>) = <<>>
<1>1. PICK r : r = Reversed(<<>>)
  OBVIOUS
<1>2. r \in Seq({}) /\ Len(r) = 0
  BY <1>1 DEF Reversed
<1> QED BY <1>1, <1>2, EmptySeq

LEMMA InitLine == ASSUME Line!Init PROVE LineInv
<1>1. /\ argv \in CommandLines /\ pc = "getopt" /\ at = 1
      /\ lists = [o \in Multiple |-> <<>>]
      /\ prev = [o \in Line!Options |-> 0] /\ given = [o \in Line!Options |-> 0]
      /\ arg = [o \in Line!Options |-> Line!Default(o)]
  BY DEF Line!Init
<1>2. LineTypes
  <2>1. Len(argv) \in Nat
    BY <1>1, LinesAre
  <2>2. <<>> \in Seq(Texts)
    OBVIOUS
  <2>3. at \in 1 .. Len(argv) + 1
    BY <1>1, <2>1
  <2>4. arg = [o \in Line!Options |-> arg[o]]
    BY <1>1
  <2> QED BY <1>1, <2>2, <2>3, <2>4 DEF LineTypes
<1>3. \A o : Of(argv, o, at - 1) = <<>>
  BY <1>1, OfNone
<1>4. ASSUME NEW o \in Multiple PROVE Listed(o)
  <2>1. prev[o] = 0 /\ lists[o] = <<>> /\ pc # "tokens"
    BY <1>1 DEF Line!Options
  <2>2. Reversed(lists[o]) = Meant(Of(argv, o, at - 1))
    BY <1>3, <2>1, ReversedNone, MeantNone
  <2> QED BY <2>1, <2>2, EmptySeq DEF Listed
<1>5. ASSUME NEW o \in Line!Once PROVE ReadOnce(o, Of(argv, o, at - 1))
  <2>1. o \in Line!Options /\ o \notin Multiple
    BY <1>1, LinesAre DEF Line!Options
  <2>2. prev[o] = 0 /\ given[o] = 0 /\ arg[o] = Line!Default(o)
    BY <1>1, <2>1
  <2>3. ReadOnce(o, <<>>)
    BY <2>2, EmptySeq DEF ReadOnce
  <2> QED BY <1>3, <2>3
<1> QED BY <1>1, <1>2, <1>4, <1>5 DEF LineInv

\* Where the parser is.
LEMMA AtIs ==
    ASSUME LineTypes, at <= Len(argv)
    PROVE  /\ at - 1 \in Nat /\ at - 1 < Len(argv) /\ (at - 1) + 1 = at /\ at \in DOMAIN argv
           /\ at + 1 - 1 = at /\ at + 1 \in 1 .. Len(argv) + 1
           /\ Line!Occurrence(argv[at])
           /\ argv[at] \in Those(argv, Line!Opt)
<1>1. /\ Len(argv) \in Nat /\ DOMAIN argv = 1 .. Len(argv)
      /\ \A m \in DOMAIN argv : Line!Occurrence(argv[m])
  BY LinesAre DEF LineTypes
<1>2. at \in 1 .. Len(argv)
  BY <1>1 DEF LineTypes
<1>3. argv[at] \in Those(argv, Line!Opt)
  BY <1>1, <1>2 DEF Those, Line!Opt
<1> QED BY <1>1, <1>2, <1>3

\* The option that is read has one occurrence more, the others have not.
LEMMA OfSteps ==
    ASSUME LineTypes, at <= Len(argv), NEW o
    PROVE  /\ o = Line!Opt => Of(argv, o, at) = Append(Of(argv, o, at - 1), argv[at])
           /\ o # Line!Opt => Of(argv, o, at) = Of(argv, o, at - 1)
           /\ Of(argv, o, at - 1) \in Seq(Those(argv, o))
<1>1. PICK n : n = at - 1
  OBVIOUS
<1>2. argv \in CommandLines /\ n \in Nat /\ n < Len(argv) /\ n + 1 = at
  BY <1>1, AtIs DEF LineTypes
<1>3. /\ argv[n + 1].opt = o => Of(argv, o, n + 1) = Append(Of(argv, o, n), argv[n + 1])
      /\ argv[n + 1].opt # o => Of(argv, o, n + 1) = Of(argv, o, n)
  BY <1>2, OfGrows
<1>4. Of(argv, o, n) \in Seq(Those(argv, o))
  BY <1>2, OfIs
<1> QED BY <1>1, <1>2, <1>3, <1>4 DEF Line!Opt

\* The parser stops.
LEMMA EndKeeps ==
    ASSUME LineInv, NEW how \in {"failed", "exited"}, Line!Ends(how)
    PROVE  LineInv'
<1>1. UNCHANGED <<argv, at, rest, lists, prev, given, arg>> /\ pc' = how
  BY DEF Line!Ends
<1>2. LineTypes'
  BY <1>1 DEF LineInv, LineTypes
<1> QED BY <1>1, <1>2 DEF LineInv

LEMMA UpdateKeeps == ASSUME LineInv, Line!update_arg PROVE LineInv'
<1>1. CASE ~Line!CanUpdate
  BY <1>1, EndKeeps DEF Line!update_arg
<1>2. CASE Line!CanUpdate
  <2>1. /\ pc = "getopt" /\ at <= Len(argv) /\ Line!Opt \in Line!Once /\ at' = at + 1
        /\ UNCHANGED <<argv, pc, rest, lists>> /\ prev[Line!Opt] = 0
    BY <1>2 DEF Line!update_arg, Line!CanUpdate
  <2>2. LineTypes /\ Line!Opt \in Line!Options /\ Line!Opt \notin Multiple
    BY <2>1, LinesAre DEF LineInv, LineTypes, Line!Options
  <2>3. PICK q : q = Of(argv, Line!Opt, at - 1)
    OBVIOUS
  <2>4. ReadOnce(Line!Opt, q)
    BY <2>1, <2>3 DEF LineInv
  <2>5. q \in Seq(Those(argv, Line!Opt)) /\ Len(q) = 0 /\ q = <<>> /\ given[Line!Opt] = 0
    <3>1. q \in Seq(Those(argv, Line!Opt)) /\ Len(q) = 0
      BY <2>1, <2>2, <2>3, <2>4, OfSteps DEF ReadOnce
    <3> QED BY <2>4, <3>1, EmptySeq DEF ReadOnce
  <2>6. /\ prev' = [prev EXCEPT ![Line!Opt] = @ + 1]
        /\ given' = [given EXCEPT ![Line!Opt] = @ + 1]
        /\ arg' = [arg EXCEPT ![Line!Opt] = IF Line!Opt \in Flags THEN ~@ ELSE Line!Val]
    BY <1>2, <2>5 DEF Line!update_arg
  <2>7. /\ prev'[Line!Opt] = 1 /\ given'[Line!Opt] = 1
        /\ arg'[Line!Opt] = IF Line!Opt \in Flags THEN ~arg[Line!Opt] ELSE Line!Val
        /\ prev' \in [Line!Options -> Nat] /\ given' \in [Line!Options -> Nat]
        /\ arg' = [o \in Line!Options |-> arg'[o]]
    <3>1. PICK x : x = Line!Opt
      OBVIOUS
    <3>2. PICK y : y = IF x \in Flags THEN ~arg[x] ELSE Line!Val
      OBVIOUS
    <3>3. /\ x \in Line!Options /\ prev[x] = 0 /\ given[x] = 0
          /\ prev \in [Line!Options -> Nat] /\ given \in [Line!Options -> Nat]
          /\ arg = [o \in Line!Options |-> arg[o]]
      BY <2>1, <2>2, <2>5, <3>1 DEF LineTypes
    <3>4. arg' = [arg EXCEPT ![x] = y]
      BY <2>6, <3>1, <3>2
    <3>5. prev' = [prev EXCEPT ![x] = 0 + 1] /\ given' = [given EXCEPT ![x] = 0 + 1]
      BY <2>6, <3>1, <3>3
    <3>6. prev'[x] = 1 /\ given'[x] = 1
      BY <3>3, <3>5
    <3>7. prev' \in [Line!Options -> Nat] /\ given' \in [Line!Options -> Nat]
      BY <3>3, <3>5
    <3>8. arg'[x] = y /\ arg' = [o \in Line!Options |-> arg'[o]]
      BY <3>3, <3>4
    <3> QED BY <3>1, <3>2, <3>6, <3>7, <3>8
  <2>8. \A o \in Line!Options : o # Line!Opt =>
            prev'[o] = prev[o] /\ given'[o] = given[o] /\ arg'[o] = arg[o]
    BY <2>2, <2>6 DEF LineTypes
  <2>9. LineTypes'
    <3>1. at' \in 1 .. Len(argv) + 1
      BY <2>1, <2>2, AtIs
    <3> QED BY <2>1, <2>2, <2>7, <3>1 DEF LineTypes
  <2>10. at' - 1 = at
    BY <2>1, <2>2, AtIs
  <2>11. ASSUME NEW o \in Multiple PROVE Listed(o)'
    <3>1. o # Line!Opt /\ o \in Line!Options
      BY <2>2 DEF Line!Options
    <3>2. Of(argv, o, at) = Of(argv, o, at - 1)
      BY <2>1, <2>2, <3>1, OfSteps
    <3>3. Listed(o) /\ pc # "tokens" /\ pc' # "tokens"
      BY <2>1 DEF LineInv
    <3> QED BY <2>1, <2>8, <2>10, <3>1, <3>2, <3>3 DEF Listed
  <2>12. ASSUME NEW o \in Line!Once PROVE ReadOnce(o, Of(argv, o, at - 1))'
    <3>1. o \in Line!Options /\ ReadOnce(o, Of(argv, o, at - 1))
      BY <2>1 DEF LineInv, Line!Options
    <3>2. CASE o # Line!Opt
      <4>1. Of(argv, o, at) = Of(argv, o, at - 1)
        BY <2>1, <2>2, <3>2, OfSteps
      <4>2. PICK r : r = Of(argv, o, at - 1)
        OBVIOUS
      <4>3. ReadOnce(o, r)
        BY <3>1, <4>2
      <4>4. /\ Len(r) <= 1 /\ prev'[o] = Len(r) /\ given'[o] = Len(r)
            /\ r = <<>> => arg'[o] = Line!Default(o)
            /\ r # <<>> /\ o \in Single => arg'[o] = r[1].val
            /\ r # <<>> /\ o \in Flags => arg'[o] = TRUE
        BY <2>8, <3>1, <3>2, <4>3 DEF ReadOnce
      <4>5. Of(argv, o, at - 1)' = r
        BY <2>1, <2>10, <4>1, <4>2
      <4> QED BY <4>4, <4>5 DEF ReadOnce
    <3>3. CASE o = Line!Opt
      <4>1. PICK a : a = argv[at]
        OBVIOUS
      <4>2. a \in Those(argv, Line!Opt)
        BY <2>1, <2>2, <4>1, AtIs
      <4>3. PICK r : r = Of(argv, o, at)
        OBVIOUS
      <4>4. r = Append(q, a)
        BY <2>1, <2>2, <2>3, <3>3, <4>1, <4>3, OfSteps
      <4>5. Len(r) = 1 /\ r[1] = a /\ r # <<>>
        BY <2>5, <4>2, <4>4
      <4>6. o \in Single => arg'[o] = a.val
        <5>1. o \in Single => o \notin Flags
          BY Inputs DEF Line!CmdlineAssumption
        <5>2. Line!Val = a.val
          BY <4>1 DEF Line!Val
        <5> QED BY <2>7, <3>3, <5>1, <5>2
      <4>7. o \in Flags => arg'[o] = TRUE
        <5>1. o \in Flags => arg[o] = FALSE
          <6>1. arg[o] = Line!Default(o)
            BY <2>4, <2>5, <3>3 DEF ReadOnce
          <6>2. o \notin Multiple
            BY <2>2, <3>3
          <6> QED BY <6>1, <6>2 DEF Line!Default
        <5> QED BY <2>7, <3>3, <5>1
      <4>8. /\ Len(r) <= 1 /\ prev'[o] = Len(r) /\ given'[o] = Len(r)
            /\ r = <<>> => arg'[o] = Line!Default(o)
            /\ r # <<>> /\ o \in Single => arg'[o] = r[1].val
            /\ r # <<>> /\ o \in Flags => arg'[o] = TRUE
        BY <2>7, <3>3, <4>5, <4>6, <4>7
      <4>9. Of(argv, o, at - 1)' = r
        BY <2>1, <2>10, <4>3
      <4> QED BY <4>8, <4>9 DEF ReadOnce
    <3> QED BY <3>2, <3>3
  <2> QED BY <2>1, <2>9, <2>11, <2>12 DEF LineInv
<1> QED BY <1>1, <1>2

\* Where a value is read from.
From(s) == (pc = "getopt" /\ s = Line!Val) \/ (pc = "tokens" /\ s = rest)

\* A value more is in the list, and it is the last one of the option or it is not.
OneMore(s, v, a) ==
    /\ Line!get_multiple_arg_token(s) \in Texts
    /\ \/ /\ Line!get_multiple_arg_token_next(s) = Line!Null
          /\ Append(a, Line!get_multiple_arg_token(s)) = v \o Line!ValuesOf(argv[at])
       \/ /\ Line!get_multiple_arg_token_next(s) # Line!Null
          /\ Line!Val \in Line!Values
          /\ Partly(Line!Val, Line!get_multiple_arg_token_next(s), v,
                    Append(a, Line!get_multiple_arg_token(s)))

LEMMA NodeIsOneMore ==
    ASSUME LineInv, at <= Len(argv), Line!Opt \in Multiple, NEW s, From(s),
           NEW v \in Seq(Texts), v = Meant(Of(argv, Line!Opt, at - 1)),
           NEW a, a = Reversed(lists[Line!Opt])
    PROVE  OneMore(s, v, a)
<1>1. LineTypes /\ Listed(Line!Opt)
  BY DEF LineInv, From
<1>2. PICK x : x = argv[at]
  OBVIOUS
<1>3. x \in Those(argv, Line!Opt) /\ argv \in CommandLines
  BY <1>1, <1>2, AtIs DEF LineTypes
<1>4. /\ x.val \in Texts /\ x.val = Line!Val
      /\ x.val \in Line!Values \/ x.val = Line!Null
  BY <1>2, <1>3, ValuesOfType DEF Line!Val
<1>5. CASE x.val = Line!Null
  <2>1. Line!Val \notin Line!Values
    BY <1>4, <1>5, ValuesAreNotNull DEF NotNull
  <2>2. pc # "tokens"
    BY <1>1, <2>1 DEF Listed
  <2>3. s = Line!Null /\ a = v
    BY <1>1, <1>4, <1>5, <2>2 DEF From, Listed
  <2>4. /\ Line!get_multiple_arg_token(s) = Line!Null
        /\ Line!get_multiple_arg_token_next(s) = Line!Null
    BY <2>3 DEF Line!get_multiple_arg_token, Line!get_multiple_arg_token_next
  <2>5. Line!Null \in Texts
    BY DEF Texts
  <2>6. Line!ValuesOf(argv[at]) = <<Line!Null>>
    BY <1>2, <1>5 DEF Line!ValuesOf
  <2>7. Append(v, Line!Null) = v \o <<Line!Null>>
    <3>1. PICK e : e = Line!Null
      OBVIOUS
    <3>2. e \in Texts
      BY <2>5, <3>1
    <3>3. Append(v, e) = v \o <<e>>
      BY <3>2, AppendIsConcat
    <3> QED BY <3>1, <3>3
  <2> QED BY <2>3, <2>4, <2>5, <2>6, <2>7 DEF OneMore
<1>6. CASE x.val # Line!Null
  <2>1. Line!Val \in Line!Values
    BY <1>4, <1>6
  <2>2. Partly(Line!Val, s, v, a)
    <3>1. CASE pc = "getopt"
      <4>1. s = Line!Val /\ a = v
        BY <1>1, <3>1 DEF From, Listed
      <4> QED BY <2>1, <4>1, PartlyAtFirst
    <3>2. CASE pc = "tokens"
      BY <1>1, <3>2 DEF From, Listed
    <3> QED BY <3>1, <3>2 DEF From
  <2>3. Added(Line!Val, s, v, a)
    BY <2>1, <2>2, TokenIsAdded
  <2>4. Line!ValuesOf(argv[at]) = Line!Pieces(Line!Val)
    BY <1>2, <1>4, <1>6 DEF Line!ValuesOf
  <2> QED BY <2>1, <2>3, <2>4 DEF Added, OneMore, Texts
<1> QED BY <1>5, <1>6

LEMMA NodeKeeps ==
    ASSUME LineInv, at <= Len(argv), Line!Opt \in Multiple, NEW s, From(s), Line!AddNode(s)
    PROVE  LineInv'
<1>1. /\ LineTypes /\ argv \in CommandLines /\ \A o \in Multiple : Listed(o)
      /\ \A o \in Line!Once : ReadOnce(o, Of(argv, o, at - 1))
      /\ Line!Opt \in Line!Options /\ Line!Opt \notin Line!Once
  <2>1. argv \in CommandLines
    BY DEF LineInv, LineTypes
  <2>2. Line!Opt \in Line!Options /\ Line!Opt \notin Line!Once
    BY <2>1, LinesAre DEF Line!Options
  <2> QED BY <2>1, <2>2 DEF LineInv, From
<1>2. PICK z : z = Line!Opt
  OBVIOUS
<1>3. PICK v : v = Meant(Of(argv, z, at - 1))
  OBVIOUS
<1>4. PICK l : l = lists[z]
  OBVIOUS
<1>5. PICK a : a = Reversed(l)
  OBVIOUS
<1>6. PICK T : T = Line!get_multiple_arg_token(s)
  OBVIOUS
<1>7. PICK N : N = Line!get_multiple_arg_token_next(s)
  OBVIOUS
<1>8. PICK x : x = argv[at]
  OBVIOUS
<1>9. /\ v \in Seq(Texts)
      /\ Of(argv, z, at) = Append(Of(argv, z, at - 1), x)
      /\ Meant(Of(argv, z, at)) = v \o Line!ValuesOf(x)
  <2>1. x \in Those(argv, z)
    BY <1>1, <1>2, <1>8, AtIs
  <2>2. PICK q : q = Of(argv, z, at - 1)
    OBVIOUS
  <2>3. q \in Seq(Those(argv, z)) /\ Of(argv, z, at) = Append(q, x)
    BY <1>1, <1>2, <1>8, <2>2, OfSteps
  <2>4. Meant(q) \in Seq(Texts) /\ Meant(Append(q, x)) = Meant(q) \o Line!ValuesOf(x)
    BY <1>1, <1>2, <2>1, <2>3, MeantGrows
  <2> QED BY <1>3, <2>2, <2>3, <2>4
<1>10. /\ T \in Texts
       /\ \/ N = Line!Null /\ Append(a, T) = v \o Line!ValuesOf(x)
          \/ N # Line!Null /\ Line!Val \in Line!Values /\ Partly(Line!Val, N, v, Append(a, T))
  <2>1. OneMore(s, v, a)
    <3>1. v = Meant(Of(argv, Line!Opt, at - 1)) /\ a = Reversed(lists[Line!Opt])
      BY <1>2, <1>3, <1>4, <1>5
    <3> QED BY <1>9, <3>1, NodeIsOneMore
  <2> QED BY <1>6, <1>7, <1>8, <2>1 DEF OneMore
<1>11. /\ lists' = [lists EXCEPT ![z] = <<T>> \o l]
       /\ prev' = [prev EXCEPT ![z] = prev[z] + 1]
       /\ rest' = N /\ UNCHANGED <<argv, given, arg>>
       /\ \/ N # Line!Null /\ pc' = "tokens" /\ at' = at
          \/ N = Line!Null /\ pc' = "getopt" /\ at' = at + 1
  <2>1. PICK old : old = lists[z]
    OBVIOUS
  <2> QED BY <1>2, <1>4, <1>6, <1>7 DEF Line!AddNode
<1>12. /\ l \in Seq(Texts) /\ <<T>> \o l \in Seq(Texts) /\ Len(<<T>> \o l) = Len(l) + 1
       /\ Reversed(<<T>> \o l) = Append(a, T)
  <2>1. l \in Seq(Texts)
    BY <1>1, <1>2, <1>4 DEF LineTypes
  <2> QED BY <1>5, <1>10, <2>1, ReversedGrows
<1>13. /\ lists'[z] = <<T>> \o l /\ lists' \in [Multiple -> Seq(Texts)]
       /\ \A o \in Multiple : o # z => lists'[o] = lists[o]
  <2>1. PICK new : new = <<T>> \o l
    OBVIOUS
  <2>2. lists' = [lists EXCEPT ![z] = new] /\ new \in Seq(Texts)
    BY <1>11, <1>12, <2>1
  <2>3. z \in Multiple /\ lists \in [Multiple -> Seq(Texts)]
    BY <1>1, <1>2 DEF LineTypes
  <2> QED BY <2>1, <2>2, <2>3
<1>14. /\ prev'[z] = Len(<<T>> \o l) /\ prev' \in [Line!Options -> Nat]
       /\ \A o \in Line!Options : o # z => prev'[o] = prev[o]
  <2>1. z \in Line!Options /\ prev \in [Line!Options -> Nat] /\ prev[z] = Len(l)
    BY <1>1, <1>2, <1>4 DEF LineTypes, Listed
  <2> QED BY <1>11, <1>12, <2>1
<1>15. CASE N # Line!Null
  <2>1. pc' = "tokens" /\ at' = at /\ Line!Opt' = z /\ Line!Val' = Line!Val
    BY <1>2, <1>11, <1>15 DEF Line!Opt, Line!Val
  <2>2. LineTypes'
    BY <1>1, <1>11, <1>13, <1>14, <2>1 DEF LineTypes
  <2>3. ASSUME NEW o \in Multiple PROVE Listed(o)'
    <3>1. CASE o = z
      <4>1. Partly(Line!Val, N, v, Reversed(lists'[z])) /\ Line!Val \in Line!Values
        BY <1>10, <1>12, <1>13, <1>15
      <4>2. prev'[z] = Len(lists'[z])
        BY <1>13, <1>14
      <4>3. Meant(Of(argv, o, at - 1))' = v
        BY <1>3, <1>11, <2>1, <3>1
      <4> QED BY <1>11, <2>1, <3>1, <4>1, <4>2, <4>3 DEF Listed
    <3>2. CASE o # z
      <4>1. o \in Line!Options
        BY DEF Line!Options
      <4>2. lists'[o] = lists[o] /\ prev'[o] = prev[o]
        BY <1>13, <1>14, <3>2, <4>1
      <4>3. prev[o] = Len(lists[o]) /\ Reversed(lists[o]) = Meant(Of(argv, o, at - 1))
        BY <1>1, <1>2, <3>2 DEF Listed
      <4>4. Meant(Of(argv, o, at - 1))' = Meant(Of(argv, o, at - 1))
        BY <1>11, <2>1
      <4> QED BY <2>1, <3>2, <4>2, <4>3, <4>4 DEF Listed
    <3> QED BY <3>1, <3>2
  <2>4. ASSUME NEW o \in Line!Once PROVE ReadOnce(o, Of(argv, o, at - 1))'
    <3>1. o # z /\ o \in Line!Options
      BY <1>1, <1>2 DEF Line!Options
    <3>2. PICK q : q = Of(argv, o, at - 1)
      OBVIOUS
    <3>3. Of(argv, o, at - 1)' = q /\ prev'[o] = prev[o] /\ given' = given /\ arg' = arg
      BY <1>11, <1>14, <2>1, <3>1, <3>2
    <3>4. ReadOnce(o, q)
      BY <1>1, <3>2
    <3> QED BY <3>3, <3>4 DEF ReadOnce
  <2>5. at' <= Len(argv') /\ Line!Opt' \in Multiple
    BY <1>2, <1>11, <2>1
  <2> QED BY <2>1, <2>2, <2>3, <2>4, <2>5 DEF LineInv
<1>16. CASE N = Line!Null
  <2>1. pc' = "getopt" /\ at' = at + 1 /\ at' - 1 = at /\ at' \in 1 .. Len(argv) + 1
    BY <1>1, <1>11, <1>16, AtIs
  <2>2. LineTypes'
    BY <1>1, <1>11, <1>13, <1>14, <2>1 DEF LineTypes
  <2>3. ASSUME NEW o \in Multiple PROVE Listed(o)'
    <3>1. CASE o = z
      <4>1. Reversed(lists'[z]) = v \o Line!ValuesOf(x)
        BY <1>10, <1>12, <1>13, <1>16
      <4>2. prev'[z] = Len(lists'[z])
        BY <1>13, <1>14
      <4>3. Meant(Of(argv, o, at - 1))' = v \o Line!ValuesOf(x)
        BY <1>9, <1>11, <2>1, <3>1
      <4> QED BY <2>1, <3>1, <4>1, <4>2, <4>3 DEF Listed
    <3>2. CASE o # z
      <4>1. o \in Line!Options
        BY DEF Line!Options
      <4>2. lists'[o] = lists[o] /\ prev'[o] = prev[o]
        BY <1>13, <1>14, <3>2, <4>1
      <4>3. prev[o] = Len(lists[o]) /\ Reversed(lists[o]) = Meant(Of(argv, o, at - 1))
        BY <1>1, <1>2, <3>2 DEF Listed
      <4>4. Of(argv, o, at) = Of(argv, o, at - 1)
        BY <1>1, <1>2, <3>2, OfSteps
      <4>5. Meant(Of(argv, o, at - 1))' = Meant(Of(argv, o, at - 1))
        BY <1>11, <2>1, <4>4
      <4> QED BY <2>1, <3>2, <4>2, <4>3, <4>5 DEF Listed
    <3> QED BY <3>1, <3>2
  <2>4. ASSUME NEW o \in Line!Once PROVE ReadOnce(o, Of(argv, o, at - 1))'
    <3>1. o # z /\ o \in Line!Options
      BY <1>1, <1>2 DEF Line!Options
    <3>2. PICK q : q = Of(argv, o, at - 1)
      OBVIOUS
    <3>3. Of(argv, o, at) = q
      BY <1>1, <1>2, <3>1, <3>2, OfSteps
    <3>4. Of(argv, o, at - 1)' = q /\ prev'[o] = prev[o] /\ given' = given /\ arg' = arg
      BY <1>11, <1>14, <2>1, <3>1, <3>3
    <3>5. ReadOnce(o, q)
      BY <1>1, <3>2
    <3> QED BY <3>4, <3>5 DEF ReadOnce
  <2> QED BY <2>1, <2>2, <2>3, <2>4 DEF LineInv
<1> QED BY <1>15, <1>16

LEMMA ArraysKeep == ASSUME LineInv, Line!update_multiple_arg PROVE LineInv'
<1>1. /\ LineTypes /\ argv \in CommandLines /\ pc = "getopt" /\ \A o \in Multiple : Listed(o)
      /\ \A o \in Line!Once : ReadOnce(o, Of(argv, o, at - 1))
  BY DEF LineInv, LineTypes, Line!update_multiple_arg
<1>2. at = Len(argv) + 1 /\ at - 1 = Len(argv)
  BY <1>1, LinesAre DEF LineTypes, Line!update_multiple_arg
<1>3. /\ pc' = "check" /\ UNCHANGED <<argv, at, rest>>
      /\ arg' = [o \in Line!Options |-> IF o \in Multiple THEN Line!Array(o) ELSE arg[o]]
      /\ given' = [o \in Line!Options |-> IF o \in Multiple THEN prev[o] ELSE given[o]]
      /\ lists' = [o \in Multiple |-> <<>>]
      /\ prev' = [o \in Line!Options |-> IF o \in Multiple THEN 0 ELSE prev[o]]
  BY DEF Line!update_multiple_arg
<1>4. LineTypes'
  <2>1. <<>> \in Seq(Texts)
    OBVIOUS
  <2>2. lists' \in [Multiple -> Seq(Texts)]
    BY <1>3, <2>1
  <2>3. prev \in [Line!Options -> Nat] /\ given \in [Line!Options -> Nat]
    BY <1>1 DEF LineTypes
  <2>4. prev' \in [Line!Options -> Nat] /\ given' \in [Line!Options -> Nat]
    BY <1>3, <2>3
  <2>5. arg' = [o \in Line!Options |-> arg'[o]]
    BY <1>3
  <2> QED BY <1>1, <1>3, <2>2, <2>4, <2>5 DEF LineTypes
<1>5. ASSUME NEW o \in Multiple PROVE InArrays(o)'
  <2>1. o \in Line!Options
    BY DEF Line!Options
  <2>2. PICK l : l = lists[o]
    OBVIOUS
  <2>3. l \in Seq(Texts) /\ prev[o] = Len(l) /\ Reversed(l) = Meant(Of(argv, o, at - 1))
    BY <1>1, <2>2 DEF LineTypes, Listed
  <2>4. Line!Array(o) = Reversed(l)
    BY <2>2, <2>3 DEF Line!Array, Reversed
  <2>5. Len(Reversed(l)) = Len(l)
    <3>1. Len(l) \in Nat
      BY <2>3
    <3> QED BY <3>1 DEF Reversed
  <2>6. arg'[o] = Reversed(l) /\ given'[o] = Len(l)
    BY <1>3, <2>1, <2>3, <2>4
  <2>7. Meant(Of(argv, o, Len(argv)))' = Reversed(l)
    BY <1>2, <1>3, <2>3
  <2> QED BY <2>5, <2>6, <2>7 DEF InArrays
<1>6. ASSUME NEW o \in Line!Once PROVE ReadOnce(o, Of(argv, o, at - 1))'
  <2>1. o \in Line!Options /\ o \notin Multiple
    BY <1>1, LinesAre DEF Line!Options
  <2>2. prev'[o] = prev[o] /\ given'[o] = given[o] /\ arg'[o] = arg[o]
    BY <1>3, <2>1
  <2>3. PICK q : q = Of(argv, o, at - 1)
    OBVIOUS
  <2>4. Of(argv, o, at - 1)' = q /\ ReadOnce(o, q)
    BY <1>1, <1>3, <2>3
  <2> QED BY <2>2, <2>4 DEF ReadOnce
<1>7. at' = Len(argv') + 1
  BY <1>2, <1>3
<1> QED BY <1>3, <1>4, <1>5, <1>6, <1>7 DEF LineInv

LEMMA CheckKeeps == ASSUME LineInv, Line!cmdline_parser_required2 PROVE LineInv'
<1>1. CASE given["ephemeral"] > 0 /\ given["chroot"] = 0
  BY <1>1, EndKeeps DEF Line!cmdline_parser_required2
<1>2. CASE ~(given["ephemeral"] > 0 /\ given["chroot"] = 0)
  <2>1. /\ pc = "check" /\ pc' = "done"
        /\ UNCHANGED <<argv, at, rest, lists, prev, given, arg>>
    BY <1>2 DEF Line!cmdline_parser_required2, Line!Ends
  <2>2. LineTypes'
    BY <2>1 DEF LineInv, LineTypes
  <2>3. ASSUME NEW o \in Multiple PROVE InArrays(o)'
    BY <2>1 DEF LineInv, InArrays
  <2>4. ASSUME NEW o \in Line!Once PROVE ReadOnce(o, Of(argv, o, at - 1))'
    <3>1. PICK q : q = Of(argv, o, at - 1)
      OBVIOUS
    <3>2. Of(argv, o, at - 1)' = q /\ ReadOnce(o, q)
      BY <2>1, <3>1 DEF LineInv
    <3> QED BY <2>1, <3>2 DEF ReadOnce
  <2>5. at' = Len(argv') + 1
    BY <2>1 DEF LineInv
  <2>6. given'["ephemeral"] > 0 => given'["chroot"] # 0
    BY <1>2, <2>1
  <2> QED BY <2>1, <2>2, <2>3, <2>4, <2>5, <2>6 DEF LineInv
<1> QED BY <1>1, <1>2

LEMMA LineKeeps == ASSUME LineInv, Line!Next PROVE LineInv'
<1>1. CASE Line!update_multiple_arg_temp
  <2>1. /\ at <= Len(argv) /\ Line!Opt \in Multiple
        /\ \/ pc = "getopt" /\ Line!AddNode(Line!Val)
           \/ pc = "tokens" /\ Line!AddNode(rest)
    BY <1>1 DEF Line!update_multiple_arg_temp
  <2>2. CASE pc = "getopt" /\ Line!AddNode(Line!Val)
    <3>1. From(Line!Val)
      BY <2>2 DEF From
    <3> QED BY <2>1, <2>2, <3>1, NodeKeeps
  <2>3. CASE pc = "tokens" /\ Line!AddNode(rest)
    <3>1. From(rest)
      BY <2>3 DEF From
    <3> QED BY <2>1, <2>3, <3>1, NodeKeeps
  <2> QED BY <2>1, <2>2, <2>3
<1>2. CASE Line!InvalidOption \/ Line!PrintHelp
  BY <1>2, EndKeeps DEF Line!InvalidOption, Line!PrintHelp
<1> QED BY <1>1, <1>2, UpdateKeeps, ArraysKeep, CheckKeeps DEF Line!Next

LEMMA LineStays ==
    ASSUME LineInv, UNCHANGED <<pc, argv, at, rest, lists, prev, given, arg>>
    PROVE  LineInv'
<1>1. LineTypes'
  BY DEF LineInv, LineTypes
<1>2. \A o \in Multiple : Listed(o) => Listed(o)'
  <2> SUFFICES ASSUME NEW o \in Multiple, Listed(o) PROVE Listed(o)'
    OBVIOUS
  <2>1. Line!Opt' = Line!Opt /\ Line!Val' = Line!Val
    BY DEF Line!Opt, Line!Val
  <2> QED BY <2>1 DEF Listed
<1>3. \A o \in Multiple : InArrays(o) => InArrays(o)'
  BY DEF InArrays
<1>4. ASSUME NEW o, ReadOnce(o, Of(argv, o, at - 1)) PROVE ReadOnce(o, Of(argv, o, at - 1))'
  <2>1. PICK q : q = Of(argv, o, at - 1)
    OBVIOUS
  <2>2. Of(argv, o, at - 1)' = q /\ ReadOnce(o, q)
    BY <1>4, <2>1
  <2> QED BY <2>2 DEF ReadOnce
<1>5. Line!Opt' = Line!Opt
  BY DEF Line!Opt
<1> QED BY <1>1, <1>2, <1>3, <1>4, <1>5 DEF LineInv

LEMMA GivenIs ==
    ASSUME argv \in CommandLines, NEW o
    PROVE  Line!Given(o) = Of(argv, o, Len(argv))
<1>1. Places(argv, o, Len(argv)) = {m \in DOMAIN argv : argv[m].opt = o}
  BY LinesAre DEF Places
<1> QED BY <1>1 DEF Line!Given, Of

LEMMA LineIsMeant == ASSUME LineInv PROVE Line!OrderKept /\ Line!GivenOnce
<1>1. argv \in CommandLines /\ LineTypes
  BY DEF LineInv, LineTypes
<1>2. ASSUME pc \in {"check", "done"}, NEW o \in Multiple
      PROVE  LET occ == Line!Given(o) IN
             /\ arg[o] = Line!FlattenSeq([n \in DOMAIN occ |-> Line!ValuesOf(occ[n])])
             /\ given[o] = Len(arg[o])
  BY <1>1, <1>2, GivenIs DEF LineInv, InArrays, Meant
<1>3. Line!OrderKept
  BY <1>2 DEF Line!OrderKept
<1>4. ASSUME pc = "done", NEW o \in Line!Once PROVE ReadOnce(o, Line!Given(o))
  <2>1. at - 1 = Len(argv)
    BY <1>1, <1>4, LinesAre DEF LineInv
  <2>2. ReadOnce(o, Of(argv, o, at - 1))
    BY <1>4 DEF LineInv
  <2> QED BY <1>1, <2>1, <2>2, GivenIs
<1>5. ASSUME pc = "done", NEW o \in Line!Once
      PROVE  LET occ == Line!Given(o) IN
             /\ Len(occ) <= 1 /\ given[o] = Len(occ)
             /\ o \in Single => arg[o] = IF occ = <<>> THEN Line!Default(o) ELSE occ[1].val
             /\ o \in Flags => (arg[o] <=> occ # <<>>)
  <2>1. PICK q : q = Line!Given(o)
    OBVIOUS
  <2>2. ReadOnce(o, q)
    BY <1>4, <1>5, <2>1
  <2>3. o \in Flags => arg[o] = IF q = <<>> THEN FALSE ELSE TRUE
    <3>1. o \notin Multiple
      BY <1>1, LinesAre
    <3>2. o \in Flags => Line!Default(o) = FALSE
      BY <3>1 DEF Line!Default
    <3> QED BY <2>2, <3>2 DEF ReadOnce
  <2>4. o \in Flags => (arg[o] <=> q # <<>>)
    BY <2>3
  <2>5. o \in Single => arg[o] = IF q = <<>> THEN Line!Default(o) ELSE q[1].val
    BY <2>2 DEF ReadOnce
  <2>6. Len(q) <= 1 /\ given[o] = Len(q)
    BY <2>2 DEF ReadOnce
  <2> QED BY <2>1, <2>4, <2>5, <2>6
<1>6. ASSUME pc = "done", arg["ephemeral"] PROVE given["chroot"] = 1
  <2>1. "ephemeral" \in Line!Once /\ "ephemeral" \in Flags /\ "chroot" \in Line!Once
    BY Inputs DEF Line!CmdlineAssumption, Line!Once
  <2>2. PICK q : q = Line!Given("ephemeral")
    OBVIOUS
  <2>3. q # <<>> /\ Len(q) <= 1 /\ given["ephemeral"] = Len(q)
    BY <1>5, <1>6, <2>1, <2>2
  <2>4. q \in Seq(Those(argv, "ephemeral"))
    <3>1. Len(argv) \in Nat
      BY <1>1, LinesAre
    <3> QED BY <1>1, <2>2, <3>1, GivenIs, OfIs
  <2>5. given["ephemeral"] > 0
    BY <2>3, <2>4, EmptySeq
  <2>6. given["chroot"] # 0
    BY <1>6, <2>5 DEF LineInv
  <2>7. given["chroot"] <= 1
    BY <1>5, <1>6, <2>1
  <2>8. given["chroot"] \in Nat
    BY <1>1, <2>1 DEF LineTypes, Line!Options
  <2> QED BY <2>6, <2>7, <2>8
<1>7. Line!GivenOnce
  BY <1>5, <1>6 DEF Line!GivenOnce
<1> QED BY <1>3, <1>7

\* A command line that is accepted means what is written, for any command line of any
\* options: a multiple option has the values of all its occurrences in order, cut at the
\* commas that are not escaped, no other option is there twice, and each of them has its
\* value or its default (cmdline.c:282, 453-530, 681-686, 724-846, 897).
THEOREM OptionsMean == Spec => []OptionsAsWritten
<1> DEFINE Inv == part = "line" => LineInv
<1>1. Init => Inv
  BY InitLine DEF Init
<1>2. Inv /\ [Next]_vars => Inv'
  <2> SUFFICES ASSUME Inv, [Next]_vars, part' = "line" PROVE LineInv'
    OBVIOUS
  <2>1. CASE LineStep
    BY <2>1, LineKeeps DEF LineStep
  <2>2. CASE UNCHANGED vars
    <3>1. LineInv /\ UNCHANGED <<pc, argv, at, rest, lists, prev, given, arg>>
      BY <2>2 DEF vars, lineVars
    <3> QED BY <3>1, LineStays
  <2>3. CASE OptlistStep \/ CapsStep \/ RequestStep \/ NetifStep \/ UserStep
    BY <2>3 DEF OptlistStep, CapsStep, RequestStep, NetifStep, UserStep
  <2> QED BY <2>1, <2>2, <2>3 DEF Next
<1>3. Inv => OptionsAsWritten
  BY LineIsMeant DEF OptionsAsWritten
<1> QED BY <1>1, <1>2, <1>3, PTL DEF Spec

-----------------------------------------------------------------------------
(* The fields of an option.                                                *)

Values == Seq(STRING \ {Fields!Null}) \ {<<>>}

ValueHasType == value \in Values /\ option \in {"mount", "user-map"}

\* Sets are counted there as they are here.
LEMMA SameCount == \A S : Fields!Cardinality(S) = Cardinality(S)
BY DEF Fields!Cardinality, Cardinality

\* The first token is a field of the value that has characters.
LEMMA FirstToken ==
    ASSUME NEW v \in Values, Fields!Tokens(v) # {}
    PROVE  /\ 1 \in DOMAIN Fields!split_str(v)
           /\ \E x \in DOMAIN v : Fields!split_str(v)[1] = v[x] /\ v[x] # Empty
<1> DEFINE S == Fields!Tokens(v)
<1>1. Len(v) \in Nat /\ DOMAIN v = 1 .. Len(v) /\ S \subseteq 1 .. Len(v)
  BY DEF Values, Fields!Tokens
<1>2. Cardinality(S) \in Nat /\ Cardinality(S) # 0
  <2>1. IsFiniteSet(1 .. Len(v))
    BY <1>1, FS_Interval
  <2>2. IsFiniteSet(S)
    BY <1>1, <2>1, FS_Subset
  <2>3. Cardinality(S) \in Nat
    BY <2>2, FS_CardinalityType
  <2>4. Cardinality(S) # 0
    BY ONLY <2>2, S # {}, FS_EmptySet
  <2> QED BY <2>3, <2>4
<1>3. PICK m \in S : \A x \in S : m <= x
  BY <1>1, LeastPlace
<1>4. {x \in S : x <= m} = {m}
  BY <1>1, <1>3
<1>5. Cardinality({x \in S : x <= m}) = 1
  BY <1>4, FS_Singleton
<1>6. Fields!Token(v, 1) \in S
  <2>1. \E x \in S : Cardinality({y \in S : y <= x}) = 1
    BY <1>3, <1>5
  <2> QED BY <2>1, SameCount DEF Fields!Token
<1>7. 1 \in 1 .. Cardinality(S)
  BY <1>2
<1>8. Fields!split_str(v) = [n \in 1 .. Cardinality(S) |-> v[Fields!Token(v, n)]]
  BY SameCount DEF Fields!split_str
<1> QED BY <1>6, <1>7, <1>8 DEF Fields!Tokens

\* A value without an empty field is cut into its fields.
LEMMA AllTokens ==
    ASSUME NEW v \in Values, \A x \in DOMAIN v : v[x] # Empty
    PROVE  Fields!split_str(v) = v
<1>1. Len(v) \in Nat /\ Len(v) # 0 /\ DOMAIN v = 1 .. Len(v) /\ v = [n \in 1 .. Len(v) |-> v[n]]
  BY EmptySeq DEF Values
<1>2. Fields!Tokens(v) = 1 .. Len(v)
  BY <1>1 DEF Fields!Tokens
<1>3. Cardinality(1 .. Len(v)) = Len(v)
  BY <1>1, FS_Interval
<1>4. \A n \in 1 .. Len(v) : Fields!Token(v, n) = n
  <2> SUFFICES ASSUME NEW n \in 1 .. Len(v)
               PROVE  Fields!Token(v, n) = n
    OBVIOUS
  <2>1. ASSUME NEW x \in 1 .. Len(v)
        PROVE  Cardinality({y \in 1 .. Len(v) : y <= x}) = x
    <3>1. {y \in 1 .. Len(v) : y <= x} = 1 .. x
      BY <1>1
    <3>2. Cardinality(1 .. x) = x
      BY FS_Interval
    <3> QED BY <3>1, <3>2
  <2> QED BY <1>2, <2>1, SameCount DEF Fields!Token
<1>5. 1 \in 1 .. Len(v)
  BY <1>1
<1> QED BY <1>1, <1>2, <1>3, <1>4, <1>5, SameCount DEF Fields!split_str

\* Without a first token there is nothing but colons.
LEMMA NullToken ==
    ASSUME ValueHasType, Fields!Opts[1] = Fields!Null
    PROVE  \A x \in DOMAIN value : value[x] = Empty
<1>1. \A x \in DOMAIN value : value[x] # Fields!Null
  BY ElementOfSeq DEF ValueHasType, Values
<1>2. Fields!Tokens(value) = {}
  BY <1>1, FirstToken DEF ValueHasType, Fields!Opts
<1> QED BY <1>2 DEF Fields!Tokens

\* What is made of the n fields of a mount.
LEMMA MountFields ==
    ASSUME ValueHasType, NEW n \in 2 .. 4, NEW word, Fields!Enough(n), Fields!Absolute(2 .. n),
           NEW e, e = <<word>> \o [x \in 1 .. n - 1 |-> Fields!Field(x + 1)]
    PROVE  \A x \in 2 .. Len(e) :
               e[x] \in Paths /\ (Fields!NoEmptyField => e[x] = value[x])
<1>1. DOMAIN Fields!Opts = 1 .. Len(Fields!Opts) /\ Len(Fields!Opts) \in Nat
  <2>1. CASE Fields!Tokens(value) = {}
    BY <2>1 DEF Fields!Opts, Fields!split_str
  <2>2. CASE Fields!Tokens(value) # {}
    <3>1. Len(value) \in Nat /\ DOMAIN value = 1 .. Len(value)
      BY DEF ValueHasType, Values
    <3>2. IsFiniteSet(1 .. Len(value)) /\ Fields!Tokens(value) \subseteq 1 .. Len(value)
      BY <3>1, FS_Interval DEF Fields!Tokens
    <3>3. Cardinality(Fields!Tokens(value)) \in Nat
      BY <3>2, FS_Subset, FS_CardinalityType
    <3> QED BY <2>2, <3>3, SameCount DEF Fields!Opts, Fields!split_str
  <2> QED BY <2>1, <2>2
<1>2. ASSUME NEW x \in 2 .. n
      PROVE  /\ x \in DOMAIN Fields!Opts /\ Fields!Field(x) = Fields!Opts[x]
             /\ Fields!Field(x) \in Paths
  <2>1. x \in DOMAIN Fields!Opts
    BY <1>1 DEF Fields!Enough
  <2> QED BY <2>1 DEF Fields!Field, Fields!Absolute
<1> DEFINE tail == [x \in 1 .. n - 1 |-> Fields!Field(x + 1)]
<1>3. \A x \in 1 .. n - 1 : x + 1 \in 2 .. n
  OBVIOUS
<1>4. tail \in Seq(Paths) /\ Len(tail) = n - 1
  BY <1>2, <1>3
<1>5. Len(e) = n /\ \A x \in 2 .. n : e[x] = tail[x - 1]
  <2>1. <<word>> \in Seq({word}) /\ Len(<<word>>) = 1
    OBVIOUS
  <2>2. <<word>> \in Seq({word} \cup Paths) /\ tail \in Seq({word} \cup Paths)
    BY <1>4
  <2> HIDE DEF tail
  <2>3. e = <<word>> \o tail
    BY DEF tail
  <2>4. Len(e) = 1 + (n - 1)
    BY <1>4, <2>1, <2>2, <2>3, ConcatProperties
  <2>5. ASSUME NEW x \in 2 .. n PROVE e[x] = tail[x - 1]
    <3>1. x \in 1 .. Len(<<word>>) + Len(tail) /\ x > Len(<<word>>) /\ x - Len(<<word>>) = x - 1
      BY <1>4, <2>1
    <3>2. ~(x <= Len(<<word>>))
      BY <2>1
    <3>3. (<<word>> \o tail)[x] = IF x <= Len(<<word>>) THEN <<word>>[x]
                                  ELSE tail[x - Len(<<word>>)]
      BY <2>2, <3>1, ConcatProperties
    <3> QED BY ONLY <2>3, <3>1, <3>2, <3>3
  <2> QED BY <2>4, <2>5
<1>6. \A x \in 2 .. n : tail[x - 1] = Fields!Field(x)
  OBVIOUS
<1>7. Fields!NoEmptyField => Fields!Opts = value
  BY AllTokens DEF Fields!NoEmptyField, Fields!Opts, ValueHasType
<1> HIDE DEF tail
<1> QED BY <1>2, <1>5, <1>6, <1>7

FieldsInv == ValueHasType /\ Fields!FieldsHaveMeaning

LEMMA InitFields == ASSUME Fields!Init PROVE FieldsInv
BY Inputs DEF Fields!Init, Fields!OptlistAssumption, FieldsInv, ValueHasType, Values,
   Fields!FieldsHaveMeaning

LEMMA FieldsKeep == ASSUME FieldsInv, Fields!Next PROVE FieldsInv'
<1>1. ValueHasType' /\ UNCHANGED <<option, value>>
  BY DEF FieldsInv, ValueHasType, Fields!Next, Fields!validate_optlist, Fields!user_map,
     Fields!mount_add_from_spec, Fields!MountEntry, Fields!Ends
<1>2. CASE pc' \notin {"crashed", "accepted"}
  BY <1>1, <1>2 DEF FieldsInv, Fields!FieldsHaveMeaning
<1>3. CASE pc' = "crashed"
  <2>1. Fields!Opts[1] = Fields!Null
    BY <1>3 DEF Fields!Next, Fields!validate_optlist, Fields!user_map,
       Fields!mount_add_from_spec, Fields!MountEntry, Fields!Ends
  <2> QED BY <1>1, <1>3, <2>1, NullToken DEF FieldsInv, Fields!FieldsHaveMeaning
<1>4. CASE pc' = "accepted" /\ Fields!mount_add_from_spec
  <2>0. PICK n \in 2 .. 4 : \E word : Fields!MountEntry(n, word)
    BY <1>4 DEF Fields!mount_add_from_spec, Fields!Ends
  <2>1. PICK word : Fields!MountEntry(n, word)
    BY <2>0
  <2>2. /\ Fields!Enough(n) /\ Fields!Absolute(2 .. n)
        /\ entry' = <<word>> \o [x \in 1 .. n - 1 |-> Fields!Field(x + 1)]
    BY <1>4, <2>1 DEF Fields!MountEntry, Fields!Ends
  <2>3. \A x \in 2 .. Len(entry') :
            entry'[x] \in Paths /\ (Fields!NoEmptyField => entry'[x] = value[x])
    BY <2>2, MountFields DEF FieldsInv
  <2>4. option = "mount"
    BY <1>4 DEF Fields!mount_add_from_spec
  <2>5. Fields!FieldsHaveMeaning'
    BY <1>1, <1>4, <2>3, <2>4 DEF Fields!FieldsHaveMeaning, Fields!NoEmptyField
  <2> QED BY <1>1, <2>5 DEF FieldsInv
<1>5. CASE pc' = "accepted" /\ Fields!user_map
  <2>1. /\ option = "user-map" /\ Len(value) = 3
        /\ \A x \in 1 .. 3 : value[x] \in DOMAIN Number
        /\ entry' = <<Fields!Id(value[1]), Fields!Id(value[2]), Number[value[3]]>>
    BY <1>5 DEF Fields!user_map, Fields!Ends, Fields!Readable
  <2>2. \A x \in 1 .. 3 : Number[value[x]] \in Nat
    BY <2>1, Inputs DEF Fields!OptlistAssumption
  <2>3. ASSUME NEW x \in 1 .. 3, Number[value[x]] < 2 ^ IdBits
        PROVE  entry'[x] = Number[value[x]]
    <3>1. IdBits \in Nat
      BY Inputs DEF Fields!OptlistAssumption
    <3>2. Fields!Id(value[x]) = Number[value[x]]
      BY <2>2, <2>3, <3>1 DEF Fields!Id
    <3> QED BY <2>1, <3>2
  <2>4. Fields!FieldsHaveMeaning'
    BY <1>1, <1>5, <2>1, <2>3 DEF Fields!FieldsHaveMeaning
  <2> QED BY <1>1, <2>4 DEF FieldsInv
<1>6. CASE pc' = "accepted" /\ Fields!validate_optlist
  BY <1>6 DEF Fields!validate_optlist, Fields!Ends
<1> QED BY <1>2, <1>3, <1>4, <1>5, <1>6 DEF Fields!Next

\* A value is crashed on only if it has nothing but colons, and each field of one that
\* was written in full and understood has its meaning, for any number of fields of any
\* text and ids of any width (mount.c:94-131, pflask.c:140-160).
THEOREM FieldsMean == Spec => []FieldsHaveMeaning
<1> DEFINE Inv == part = "optlist" => FieldsInv
<1>1. Init => Inv
  BY InitFields DEF Init
<1>2. Inv /\ [Next]_vars => Inv'
  <2> SUFFICES ASSUME Inv, [Next]_vars, part' = "optlist" PROVE FieldsInv'
    OBVIOUS
  <2>1. CASE OptlistStep
    BY <2>1, FieldsKeep DEF OptlistStep
  <2>2. CASE UNCHANGED vars
    BY <2>2 DEF vars, optlistVars, FieldsInv, ValueHasType, Fields!FieldsHaveMeaning,
       Fields!NoEmptyField
  <2>3. CASE LineStep \/ CapsStep \/ RequestStep \/ NetifStep \/ UserStep
    BY <2>3 DEF LineStep, CapsStep, RequestStep, NetifStep, UserStep
  <2> QED BY <2>1, <2>2, <2>3 DEF Next
<1>3. Inv => FieldsHaveMeaning
  BY DEF FieldsInv, FieldsHaveMeaning
<1> QED BY <1>1, <1>2, <1>3, PTL DEF Spec
=============================================================================
