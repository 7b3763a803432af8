----------------------------- MODULE SeqLemmas ------------------------------
(***************************************************************************)
(* Facts about data that the proofs of several components share: prefixes, *)
(* sequences of numbered items, and induction, for sets of numbers.        *)
(***************************************************************************)
EXTENDS SequencesExt, SequenceTheorems, FiniteSetTheorems, TLAPS

\* The items are numbered upwards, to at most k.
RisingTo(s, k) ==
  /\ \A i, j \in DOMAIN s : i < j => s[i].id < s[j].id
  /\ \A i \in DOMAIN s : s[i].id <= k

\* A prefix agrees with the whole up to its length.
LEMMA PrefixPointwise ==
  ASSUME NEW S, NEW s \in Seq(S), NEW t \in Seq(S)
  PROVE  IsPrefix(s, t) <=>
           Len(s) <= Len(t) /\ \A i \in 1 .. Len(s) : s[i] = t[i]
  <1>1. SubSeq(s, 1, Len(s)) = s
    BY SubSeqFull
  <1>2. CASE Len(s) <= Len(t)
    <2>1. \A i \in 1 .. Len(s) : t[i] \in S
      BY <1>2
    <2>2. /\ SubSeq(t, 1, Len(s)) \in Seq(S)
          /\ Len(SubSeq(t, 1, Len(s))) = Len(s)
          /\ \A i \in 1 .. Len(s) : SubSeq(t, 1, Len(s))[i] = t[i]
      <3>1. Len(s) \in Nat
        OBVIOUS
      <3> QED
        BY <2>1, <3>1, SubSeqProperties
    <2>3. s = SubSeq(t, 1, Len(s)) <=> \A i \in 1 .. Len(s) : s[i] = t[i]
      BY <2>2, SeqEqual
    <2> QED
      BY <1>1, <1>2, <2>3 DEF IsPrefix
  <1>3. CASE ~(Len(s) <= Len(t))
    BY <1>3 DEF IsPrefix
  <1> QED
    BY <1>2, <1>3

\* A sequence is a prefix of every extension of it.
LEMMA PrefixOfConcat ==
  ASSUME NEW S, NEW s \in Seq(S), NEW t \in Seq(S)
  PROVE  IsPrefix(s, s \o t)
  <1>1. s \o t \in Seq(S) /\ Len(s) <= Len(s \o t)
    BY ConcatProperties
  <1>2. \A i \in 1 .. Len(s) : s[i] = (s \o t)[i]
    BY ConcatProperties
  <1> QED
    BY <1>1, <1>2, PrefixPointwise

\* Appending to the whole keeps its prefixes.
LEMMA PrefixAppend ==
  ASSUME NEW S, NEW s \in Seq(S), NEW t \in Seq(S), NEW e \in S, IsPrefix(s, t)
  PROVE  IsPrefix(s, Append(t, e))
  <1>1. Len(s) <= Len(t) /\ \A i \in 1 .. Len(s) : s[i] = t[i]
    BY PrefixPointwise
  <1>2. /\ Append(t, e) \in Seq(S)
        /\ Len(Append(t, e)) = Len(t) + 1
        /\ \A i \in 1 .. Len(t) : Append(t, e)[i] = t[i]
    BY AppendProperties
  <1>3. Len(s) <= Len(Append(t, e)) /\ \A i \in 1 .. Len(s) : s[i] = Append(t, e)[i]
    BY <1>1, <1>2
  <1> QED
    BY <1>2, <1>3, PrefixPointwise

\* A prefix of a prefix is a prefix.
LEMMA PrefixTransitive ==
  ASSUME NEW S, NEW r \in Seq(S), NEW s \in Seq(S), NEW t \in Seq(S),
         IsPrefix(r, s), IsPrefix(s, t)
  PROVE  IsPrefix(r, t)
  <1>1. Len(r) <= Len(s) /\ \A i \in 1 .. Len(r) : r[i] = s[i]
    BY PrefixPointwise
  <1>2. Len(s) <= Len(t) /\ \A i \in 1 .. Len(s) : s[i] = t[i]
    BY PrefixPointwise
  <1>3. Len(r) <= Len(t) /\ \A i \in 1 .. Len(r) : r[i] = t[i]
    BY <1>1, <1>2
  <1> QED
    BY <1>3, PrefixPointwise

\* The first item and the others make the sequence.
LEMMA HeadTailConcat ==
  ASSUME NEW S, NEW s \in Seq(S), s # <<>>
  PROVE  /\ <<Head(s)>> \in Seq(S) /\ Tail(s) \in Seq(S)
         /\ <<Head(s)>> \o Tail(s) = s
  <1>1. 1 \in 1 .. Len(s) /\ Len(s) \in 1 .. Len(s)
    OBVIOUS
  <1>2. SubSeq(s, 1, Len(s)) = <<s[1]>> \o SubSeq(s, 1 + 1, Len(s))
    BY <1>1, SubSeqRecursiveFirst
  <1>3. SubSeq(s, 1, Len(s)) = s
    BY SubSeqFull
  <1>4. Tail(s) = SubSeq(s, 2, Len(s)) /\ Head(s) = s[1]
    BY TailIsSubSeq
  <1>5. Head(s) \in S /\ Tail(s) \in Seq(S)
    BY HeadTailProperties
  <1> QED
    BY <1>2, <1>3, <1>4, <1>5

\* ConcatAssociative, for all sequences over one set.
LEMMA ConcatAssoc ==
  ASSUME NEW S
  PROVE  \A s, t, u \in Seq(S) : (s \o t) \o u = s \o (t \o u)
  BY ConcatAssociative, SMTT(30)

\* The items of two sequences, one after the other, are those of both.
LEMMA ConcatToSet ==
  ASSUME NEW S, NEW s \in Seq(S), NEW t \in Seq(S)
  PROVE  ToSet(s \o t) = ToSet(s) \cup ToSet(t)
  <1>1. /\ DOMAIN s = 1 .. Len(s) /\ DOMAIN t = 1 .. Len(t)
        /\ Len(s) \in Nat /\ Len(t) \in Nat
    OBVIOUS
  <1>2. /\ DOMAIN (s \o t) = 1 .. Len(s) + Len(t)
        /\ \A i \in 1 .. Len(s) + Len(t) :
             (s \o t)[i] = IF i <= Len(s) THEN s[i] ELSE t[i - Len(s)]
    <2>1. s \o t \in Seq(S)
      BY ConcatProperties
    <2> QED
      BY <2>1, ConcatProperties
  <1>3. ASSUME NEW i \in DOMAIN (s \o t) PROVE (s \o t)[i] \in ToSet(s) \cup ToSet(t)
    <2>1. CASE i <= Len(s)
      BY <1>1, <1>2, <2>1 DEF ToSet
    <2>2. CASE ~(i <= Len(s))
      <3>1. i - Len(s) \in 1 .. Len(t)
        BY <1>1, <1>2, <2>2
      <3> QED
        BY <1>1, <1>2, <2>2, <3>1 DEF ToSet
    <2> QED
      BY <2>1, <2>2
  <1>4. ASSUME NEW i \in DOMAIN s PROVE s[i] \in ToSet(s \o t)
    <2>1. i \in 1 .. Len(s) + Len(t) /\ i <= Len(s)
      BY <1>1
    <2> QED
      BY <1>2, <2>1 DEF ToSet
  <1>5. ASSUME NEW i \in DOMAIN t PROVE t[i] \in ToSet(s \o t)
    <2>1. /\ Len(s) + i \in 1 .. Len(s) + Len(t) /\ ~(Len(s) + i <= Len(s))
          /\ (Len(s) + i) - Len(s) = i
      BY <1>1
    <2> QED
      BY <1>2, <2>1 DEF ToSet
  <1> QED
    BY <1>3, <1>4, <1>5 DEF ToSet

\* An item goes to the end of the last part.
LEMMA AppendConcat ==
  ASSUME NEW S, NEW s \in Seq(S), NEW t \in Seq(S), NEW e \in S
  PROVE  Append(s \o t, e) = s \o Append(t, e)
  <1>1. /\ s \o t \in Seq(S)
        /\ <<e>> \in Seq(S)
    BY ConcatProperties
  <1>2. Append(s \o t, e) = (s \o t) \o <<e>>
    BY <1>1, AppendIsConcat
  <1>3. (s \o t) \o <<e>> = s \o (t \o <<e>>)
    BY <1>1, ConcatAssociative
  <1>4. Append(t, e) = t \o <<e>>
    BY AppendIsConcat
  <1> QED
    BY <1>2, <1>3, <1>4

\* The first n items of a sequence.
LEMMA HeadPart ==
  ASSUME NEW S, NEW t \in Seq(S), NEW n \in 0 .. Len(t)
  PROVE  /\ SubSeq(t, 1, n) \in Seq(S)
         /\ Len(SubSeq(t, 1, n)) = n
         /\ \A i \in 1 .. n : SubSeq(t, 1, n)[i] = t[i]
  <1>1. n \in Int /\ \A i \in 1 .. n : t[i] \in S
    OBVIOUS
  <1> QED
    BY <1>1, SubSeqProperties

\* The items after the first n.
LEMMA TailPart ==
  ASSUME NEW S, NEW t \in Seq(S), NEW n \in 0 .. Len(t)
  PROVE  /\ SubSeq(t, n + 1, Len(t)) \in Seq(S)
         /\ Len(SubSeq(t, n + 1, Len(t))) = Len(t) - n
  <1>1. n + 1 \in Int /\ Len(t) \in Int /\ \A i \in n + 1 .. Len(t) : t[i] \in S
    OBVIOUS
  <1> QED
    BY <1>1, SubSeqProperties

\* The first items of the second part lengthen the prefix.
LEMMA PrefixHead ==
  ASSUME NEW S, NEW s \in Seq(S), NEW t \in Seq(S), NEW n \in 0 .. Len(t)
  PROVE  IsPrefix(s \o SubSeq(t, 1, n), s \o t)
  <1> DEFINE u == SubSeq(t, 1, n)
             v == SubSeq(t, n + 1, Len(t))
  <1>1. u \in Seq(S) /\ v \in Seq(S)
    BY HeadPart, TailPart
  <1>2. u \o v = t
    <2>1. 1 \in 1 .. Len(t) + 1 /\ n \in 1 - 1 .. Len(t) /\ Len(t) \in n .. Len(t)
      OBVIOUS
    <2>2. u \o v = SubSeq(t, 1, Len(t))
      BY <2>1, ConcatAdjacentSubSeq
    <2> QED
      BY <2>2, SubSeqFull
  <1> HIDE DEF u, v
  <1>3. s \o u \in Seq(S)
    BY <1>1, ConcatProperties
  <1>4. (s \o u) \o v = s \o t
    <2>1. (s \o u) \o v = s \o (u \o v)
      BY <1>1, ConcatAssociative, SMTT(30)
    <2> QED
      BY <1>2, <2>1
  <1>5. IsPrefix(s \o u, s \o t)
    BY <1>1, <1>3, <1>4, PrefixOfConcat
  <1> QED
    BY <1>5 DEF u

\* Cutting the second part short keeps the numbering.
LEMMA RisingHead ==
  ASSUME NEW S, NEW s \in Seq(S), NEW t \in Seq(S), NEW n \in 0 .. Len(t),
         NEW k, RisingTo(s \o t, k)
  PROVE  RisingTo(s \o SubSeq(t, 1, n), k)
  <1> DEFINE u == SubSeq(t, 1, n)
  <1>1. u \in Seq(S) /\ Len(u) = n /\ \A i \in 1 .. n : u[i] = t[i]
    BY HeadPart
  <1>2. /\ s \o u \in Seq(S) /\ Len(s \o u) = Len(s) + n
        /\ \A i \in 1 .. Len(s) + n : (s \o u)[i] = IF i <= Len(s) THEN s[i] ELSE u[i - Len(s)]
    BY <1>1, ConcatProperties
  <1>3. /\ s \o t \in Seq(S) /\ Len(s \o t) = Len(s) + Len(t)
        /\ \A i \in 1 .. Len(s) + Len(t) : (s \o t)[i] = IF i <= Len(s) THEN s[i] ELSE t[i - Len(s)]
    BY ConcatProperties
  <1>4. \A i \in 1 .. Len(s) + n : (s \o u)[i] = (s \o t)[i]
    <2> TAKE i \in 1 .. Len(s) + n
    <2>1. CASE i <= Len(s)
      BY <1>2, <1>3, <2>1
    <2>2. CASE ~(i <= Len(s))
      <3>1. i - Len(s) \in 1 .. n
        BY <2>2
      <3> QED
        BY <1>1, <1>2, <1>3, <2>2, <3>1
    <2> QED
      BY <2>1, <2>2
  <1>5. DOMAIN (s \o u) = 1 .. Len(s) + n /\ DOMAIN (s \o t) = 1 .. Len(s) + Len(t)
    BY <1>2, <1>3
  <1>6. ASSUME NEW i \in 1 .. Len(s) + n, NEW j \in 1 .. Len(s) + n, i < j
        PROVE  (s \o u)[i].id < (s \o u)[j].id
    <2>1. i \in DOMAIN (s \o t) /\ j \in DOMAIN (s \o t)
      BY <1>5
    <2>2. (s \o t)[i].id < (s \o t)[j].id
      BY <1>6, <2>1 DEF RisingTo
    <2> QED
      BY <1>4, <2>2
  <1>7. ASSUME NEW i \in 1 .. Len(s) + n
        PROVE  (s \o u)[i].id <= k
    <2>1. i \in DOMAIN (s \o t)
      BY <1>5
    <2>2. (s \o t)[i].id <= k
      BY <2>1 DEF RisingTo
    <2> QED
      BY <1>4, <2>2
  <1> HIDE DEF u
  <1>8. RisingTo(s \o u, k)
    BY <1>5, <1>6, <1>7 DEF RisingTo
  <1> QED
    BY <1>8 DEF u

\* The empty end cut off: a part is numbered like the whole.
LEMMA RisingFirst ==
  ASSUME NEW S, NEW s \in Seq(S), NEW t \in Seq(S), NEW k, RisingTo(s \o t, k)
  PROVE  RisingTo(s, k)
  <1>1. 0 \in 0 .. Len(t)
    OBVIOUS
  <1>2. RisingTo(s \o SubSeq(t, 1, 0), k)
    BY <1>1, RisingHead
  <1>3. SubSeq(t, 1, 0) = <<>>
    BY SubSeqEmpty
  <1>4. s \o <<>> = s
    BY ConcatEmptySeq
  <1> QED
    BY <1>2, <1>3, <1>4

\* The next number goes to the end.
LEMMA RisingAppend ==
  ASSUME NEW S, NEW s \in Seq(S), NEW e \in S, NEW k \in Nat, RisingTo(s, k),
         \A i \in DOMAIN s : s[i].id \in Nat, e.id = k + 1
  PROVE  RisingTo(Append(s, e), k + 1)
  <1>1. /\ Append(s, e) \in Seq(S)
        /\ Len(Append(s, e)) = Len(s) + 1
        /\ \A i \in 1 .. Len(s) : Append(s, e)[i] = s[i]
        /\ Append(s, e)[Len(s) + 1] = e
    BY AppendProperties
  <1>2. DOMAIN Append(s, e) = 1 .. Len(s) + 1 /\ DOMAIN s = 1 .. Len(s)
    BY <1>1
  <1>3. \A i \in 1 .. Len(s) : s[i].id \in Nat /\ s[i].id <= k
    BY <1>2 DEF RisingTo
  <1>4. \A i, j \in 1 .. Len(s) : i < j => s[i].id < s[j].id
    BY <1>2 DEF RisingTo
  <1>5. ASSUME NEW i \in 1 .. Len(s) + 1, NEW j \in 1 .. Len(s) + 1, i < j
        PROVE  Append(s, e)[i].id < Append(s, e)[j].id
    <2>0. Len(s) \in Nat
      OBVIOUS
    <2>1. i \in 1 .. Len(s) /\ (j \in 1 .. Len(s) \/ j = Len(s) + 1)
      BY ONLY <1>5, <2>0, SMTT(30)
    <2>2. Append(s, e)[i] = s[i] /\ s[i].id \in Nat /\ s[i].id <= k
      BY <1>1, <1>3, <2>1
    <2>3. CASE j \in 1 .. Len(s)
      BY <1>1, <1>4, <1>5, <2>1, <2>3
    <2>4. CASE j = Len(s) + 1
      <3>1. Append(s, e)[j].id = k + 1
        BY <1>1, <2>4
      <3> QED
        BY <2>2, <3>1
    <2> QED
      BY <2>1, <2>3, <2>4
  <1>6. ASSUME NEW i \in 1 .. Len(s) + 1
        PROVE  Append(s, e)[i].id <= k + 1
    <2>1. CASE i \in 1 .. Len(s)
      BY <1>1, <1>3, <2>1
    <2>2. CASE i = Len(s) + 1
      BY <1>1, <2>2
    <2> QED
      BY <2>1, <2>2
  <1> QED
    BY <1>2, <1>5, <1>6 DEF RisingTo

\* More numbers have been given out.
LEMMA RisingWeaken ==
  ASSUME NEW s, NEW k \in Nat, RisingTo(s, k), \A i \in DOMAIN s : s[i].id \in Nat
  PROVE  RisingTo(s, k + 1)
  <1>1. \A i \in DOMAIN s : s[i].id <= k
    BY DEF RisingTo
  <1>2. \A i \in DOMAIN s : s[i].id <= k + 1
    BY <1>1
  <1> QED
    BY <1>2 DEF RisingTo
-----------------------------------------------------------------------------
(* Numbers *)

\* Numbers have a least element.  The well-founded order of finite sets gives
\* it, through the sets 0 .. n.
LEMMA LeastNat ==
  ASSUME NEW T \in SUBSET Nat, T # {}
  PROVE  \E m \in T : \A n \in T : m <= n
  <1> DEFINE Below == {0 .. n : n \in T}
             R == StrictSubsetOrdering(Nat)
  <1>1. Below \subseteq FiniteSubsetsOf(Nat) /\ Below # {}
    <2>1. \A n \in T : IsFiniteSet(0 .. n) /\ 0 .. n \in SUBSET Nat
      BY FS_Interval
    <2> QED
      BY <2>1 DEF FiniteSubsetsOf
  <1>2. IsWellFoundedOn(R, FiniteSubsetsOf(Nat))
    BY FS_StrictSubsetOrderingWellFounded
  <1>3. PICK b \in Below : \A a \in Below : <<a, b>> \notin R
    <2> HIDE DEF Below, R
    <2> QED
      BY <1>1, <1>2, WFMin
  <1>4. PICK m \in T : b = 0 .. m
    OBVIOUS
  <1>5. ASSUME NEW n \in T, n < m PROVE FALSE
    <2>1. 0 .. n \in Below /\ 0 .. n \subseteq 0 .. m /\ 0 .. n # 0 .. m
      <3>1. m \in 0 .. m /\ m \notin 0 .. n
        BY <1>5
      <3> QED
        BY <1>5, <3>1
    <2>2. <<0 .. n, 0 .. m>> \in R
      BY <2>1 DEF StrictSubsetOrdering
    <2> QED
      BY <1>3, <1>4, <2>1, <2>2
  <1>6. \A n \in T : m <= n
    BY <1>5
  <1> QED
    BY <1>6

\* Induction: a set that has 0 and the successor of each of its elements is Nat.
LEMMA NatSetInduction ==
  ASSUME NEW P \in SUBSET Nat, 0 \in P, \A n \in P : n + 1 \in P
  PROVE  P = Nat
  <1>1. ASSUME Nat \ P # {} PROVE FALSE
    <2>1. PICK m \in Nat \ P : \A n \in Nat \ P : m <= n
      BY <1>1, LeastNat
    <2>2. m - 1 \in Nat /\ m - 1 \notin Nat \ P
      BY <2>1
    <2> QED
      BY <2>1, <2>2
  <1> QED
    BY <1>1
-----------------------------------------------------------------------------
(* Functions that call themselves *)

\* f goes from Succ to Succ, until it stops.
TailRec(f, D, Stop, Val, Succ) ==
  f = [x \in D |-> IF x \in Stop THEN Val[x] ELSE f[Succ[x]]]

\* The same up to rank n.
TailRecBelow(f, D, Stop, Val, Succ, Rank, n) ==
  \A x \in D : Rank[x] < n => f[x] = IF x \in Stop THEN Val[x] ELSE f[Succ[x]]

\* A function that only calls itself at its end, on an argument of lower rank, exists.
LEMMA TailRecursion ==
  ASSUME NEW D, NEW Stop \in SUBSET D, NEW Val, NEW Succ \in [D \ Stop -> D],
         NEW Rank \in [D -> Nat], \A x \in D \ Stop : Rank[Succ[x]] < Rank[x]
  PROVE  \E f : TailRec(f, D, Stop, Val, Succ)
  <1> DEFINE F(f, n) == TailRecBelow(f, D, Stop, Val, Succ, Rank, n)
             P == {n \in Nat : \E f : F(f, n)}
             Q == {n \in Nat : \A f, g : F(f, n) /\ F(g, n) =>
                     \A x \in D : Rank[x] < n => f[x] = g[x]}
  <1>0. \A x \in D : Rank[x] \in Nat /\ (x \notin Stop => Succ[x] \in D /\ Rank[Succ[x]] < Rank[x])
    OBVIOUS
  <1>1. P = Nat
    <2>1. 0 \in P
      <3>1. F(Val, 0)
        BY <1>0 DEF TailRecBelow
      <3> QED
        BY <3>1
    <2>2. ASSUME NEW n \in P PROVE n + 1 \in P
      <3>1. PICK f : F(f, n)
        OBVIOUS
      <3> DEFINE g == [x \in D |-> IF x \in Stop THEN Val[x] ELSE f[Succ[x]]]
      <3>2. ASSUME NEW x \in D, Rank[x] < n + 1
            PROVE  g[x] = IF x \in Stop THEN Val[x] ELSE g[Succ[x]]
        <4>1. CASE x \in Stop
          BY <4>1
        <4>2. CASE x \notin Stop
          <5>1. Succ[x] \in D /\ Rank[Succ[x]] < n
            BY <1>0, <3>2, <4>2
          <5>2. f[Succ[x]] = IF Succ[x] \in Stop THEN Val[Succ[x]] ELSE f[Succ[Succ[x]]]
            BY <3>1, <5>1 DEF TailRecBelow
          <5> QED
            BY <4>2, <5>1, <5>2
        <4> QED
          BY <4>1, <4>2
      <3> HIDE DEF g
      <3>3. F(g, n + 1)
        BY <3>2 DEF TailRecBelow
      <3> QED
        BY <3>3
    <2> HIDE DEF P
    <2>3. P \in SUBSET Nat
      BY DEF P
    <2> QED
      BY <2>1, <2>2, <2>3, NatSetInduction
  <1>2. Q = Nat
    <2>1. 0 \in Q
      BY <1>0
    <2>2. ASSUME NEW n \in Q PROVE n + 1 \in Q
      <3> SUFFICES ASSUME NEW f, NEW g, F(f, n + 1), F(g, n + 1), NEW x \in D, Rank[x] < n + 1
                   PROVE  f[x] = g[x]
        OBVIOUS
      <3>1. F(f, n) /\ F(g, n)
        <4>1. \A y \in D : Rank[y] < n => Rank[y] < n + 1
          BY <1>0
        <4> QED
          BY <4>1 DEF TailRecBelow
      <3>2. /\ f[x] = IF x \in Stop THEN Val[x] ELSE f[Succ[x]]
            /\ g[x] = IF x \in Stop THEN Val[x] ELSE g[Succ[x]]
        BY DEF TailRecBelow
      <3>3. ASSUME x \notin Stop PROVE f[Succ[x]] = g[Succ[x]]
        <4>1. Succ[x] \in D /\ Rank[Succ[x]] < n
          BY <1>0, <3>3
        <4>2. \A y \in D : Rank[y] < n => f[y] = g[y]
          BY <3>1
        <4> QED
          BY <4>1, <4>2
      <3> QED
        BY <3>2, <3>3
    <2> HIDE DEF Q
    <2>3. Q \in SUBSET Nat
      BY DEF Q
    <2> QED
      BY <2>1, <2>2, <2>3, NatSetInduction
  <1> DEFINE h(n) == CHOOSE f : F(f, n)
             r == [x \in D |-> h(Rank[x] + 1)[x]]
  <1>3. ASSUME NEW n \in Nat PROVE F(h(n), n)
    <2>1. n \in P
      BY <1>1
    <2>2. \E f : F(f, n)
      BY <2>1
    <2> QED
      BY <2>2
  <1>4. ASSUME NEW x \in D PROVE r[x] = IF x \in Stop THEN Val[x] ELSE r[Succ[x]]
    <2>1. Rank[x] + 1 \in Nat /\ F(h(Rank[x] + 1), Rank[x] + 1)
      BY <1>0, <1>3
    <2> DEFINE f == h(Rank[x] + 1)
    <2>2. f[x] = IF x \in Stop THEN Val[x] ELSE f[Succ[x]]
      BY <1>0, <2>1 DEF TailRecBelow
    <2>3. ASSUME x \notin Stop PROVE f[Succ[x]] = r[Succ[x]]
      <3> DEFINE y == Succ[x]
                 n == Rank[y] + 1
      <3>1. y \in D /\ n \in Nat /\ Rank[y] < n /\ Rank[y] < Rank[x]
        BY <1>0, <2>3
      <3>2. F(h(n), n)
        BY <1>3, <3>1
      <3>3. F(f, n)
        <4>1. \A z \in D : Rank[z] < n => Rank[z] < Rank[x] + 1
          BY <1>0, <3>1
        <4> QED
          BY <2>1, <4>1 DEF TailRecBelow
      <3>4. n \in Q
        BY <1>2, <3>1
      <3> HIDE DEF f, n, y
      <3>5. f[y] = h(n)[y]
        <4>1. \A a, b : F(a, n) /\ F(b, n) => \A z \in D : Rank[z] < n => a[z] = b[z]
          BY <3>4
        <4> HIDE DEF F, h
        <4> QED
          BY <3>1, <3>2, <3>3, <4>1
      <3>6. r[y] = h(n)[y]
        BY <3>1 DEF n
      <3> QED
        BY <3>5, <3>6 DEF y
    <2>4. r[x] = f[x]
      OBVIOUS
    <2> HIDE DEF f, r
    <2> QED
      BY <2>2, <2>3, <2>4
  <1>5. TailRec(r, D, Stop, Val, Succ)
    <2>1. r = [x \in D |-> r[x]]
      OBVIOUS
    <2> HIDE DEF r
    <2> QED
      BY <1>4, <2>1 DEF TailRec
  <1> QED
    BY <1>5
-----------------------------------------------------------------------------
(* FlattenSeq *)

\* f holds the join of the first i parts, for every i: the function FlattenSeq
\* is made from.
Joins(f, p) ==
  f = [i \in 1 .. Len(p) |-> IF i = 1 THEN p[i] ELSE f[i - 1] \o p[i]]

LEMMA FlattenDef ==
  ASSUME NEW p, Len(p) # 0
  PROVE  FlattenSeq(p) = (CHOOSE f : Joins(f, p))[Len(p)]
  BY DEF FlattenSeq, Joins

LEMMA JoinsItem ==
  ASSUME NEW p, NEW f, Joins(f, p), NEW i \in 1 .. Len(p)
  PROVE  f[i] = IF i = 1 THEN p[i] ELSE f[i - 1] \o p[i]
  BY DEF Joins

\* The joins of the first parts do not depend on the later ones.
LEMMA JoinsUnique ==
  ASSUME NEW p, NEW q, Len(p) \in Nat, Len(q) \in Nat, Len(p) <= Len(q),
         \A i \in 1 .. Len(p) : p[i] = q[i]
  PROVE  \A f, g : Joins(f, p) /\ Joins(g, q) => \A i \in 1 .. Len(p) : f[i] = g[i]
  <1> SUFFICES ASSUME NEW f, NEW g, Joins(f, p), Joins(g, q)
               PROVE  \A i \in 1 .. Len(p) : f[i] = g[i]
    OBVIOUS
  <1> DEFINE P == {n \in Nat : n + 1 <= Len(p) => f[n + 1] = g[n + 1]}
  <1>0. Len(p) \in Nat /\ Len(q) \in Nat
    OBVIOUS
  <1>1. 0 \in P
    <2>1. ASSUME 1 <= Len(p) PROVE f[1] = g[1]
      <3>1. 1 \in 1 .. Len(p) /\ 1 \in 1 .. Len(q)
        BY <1>0, <2>1
      <3>2. f[1] = p[1] /\ g[1] = q[1]
        BY <3>1, JoinsItem
      <3> QED
        BY <3>1, <3>2
    <2> QED
      BY <2>1
  <1>2. ASSUME NEW n \in P PROVE n + 1 \in P
    <2>1. n \in Nat /\ n + 1 \in Nat
      OBVIOUS
    <2>2. ASSUME (n + 1) + 1 <= Len(p) PROVE f[(n + 1) + 1] = g[(n + 1) + 1]
      <3> DEFINE m == (n + 1) + 1
      <3>1. m \in 1 .. Len(p) /\ m \in 1 .. Len(q) /\ m # 1 /\ m - 1 = n + 1 /\ n + 1 <= Len(p)
        BY <1>0, <2>1, <2>2
      <3>2. f[n + 1] = g[n + 1]
        BY <3>1
      <3>3. p[m] = q[m]
        BY <3>1
      <3> HIDE DEF m, P
      <3>4. f[m] = f[m - 1] \o p[m]
        BY <3>1, JoinsItem
      <3>5. g[m] = g[m - 1] \o q[m]
        BY <3>1, JoinsItem
      <3>6. f[m] = g[m]
        BY <3>1, <3>2, <3>3, <3>4, <3>5
      <3> QED
        BY <3>6 DEF m
    <2> QED
      BY <2>1, <2>2
  <1>3. P = Nat
    <2> HIDE DEF P
    <2>1. P \in SUBSET Nat
      BY DEF P
    <2> QED
      BY <1>1, <1>2, <2>1, NatSetInduction
  <1>4. ASSUME NEW i \in 1 .. Len(p) PROVE f[i] = g[i]
    <2>1. i - 1 \in Nat /\ (i - 1) + 1 = i
      OBVIOUS
    <2>2. i - 1 \in P
      BY <1>3, <2>1
    <2> QED
      BY <2>1, <2>2
  <1> QED
    BY <1>4

\* There are such joins.
LEMMA JoinsExist ==
  ASSUME NEW S, NEW p \in Seq(Seq(S)), Len(p) # 0
  PROVE  \E f : Joins(f, p) /\ \A i \in 1 .. Len(p) : f[i] \in Seq(S)
  <1> DEFINE Has(q) == \E f : Joins(f, q) /\ \A i \in 1 .. Len(q) : f[i] \in Seq(S)
             P == {n \in Nat : \A q \in Seq(Seq(S)) : Len(q) = n + 1 => Has(q)}
  <1>1. 0 \in P
    <2>1. ASSUME NEW q \in Seq(Seq(S)), Len(q) = 1 PROVE Has(q)
      <3>0. 1 \in 1 .. Len(q)
        BY <2>1
      <3>1. q[1] \in Seq(S)
        BY <3>0, ElementOfSeq
      <3> DEFINE f == [i \in 1 .. 1 |-> q[i]]
      <3>2. f = [i \in 1 .. 1 |-> IF i = 1 THEN q[i] ELSE f[i - 1] \o q[i]]
        OBVIOUS
      <3>3. \A i \in 1 .. 1 : f[i] \in Seq(S)
        BY <3>1
      <3> HIDE DEF f
      <3> QED
        BY <2>1, <3>2, <3>3 DEF Joins
    <2> HIDE DEF Has
    <2> QED
      BY <2>1
  <1>2. ASSUME NEW n \in P PROVE n + 1 \in P
    <2>1. n \in Nat /\ n + 1 \in Nat
      OBVIOUS
    <2>2. ASSUME NEW q \in Seq(Seq(S)), Len(q) = (n + 1) + 1 PROVE Has(q)
      <3> DEFINE m == n + 1
                 r == SubSeq(q, 1, m)
      <3>0. m \in 0 .. Len(q) /\ m \in Nat /\ m # 0
        BY <2>1, <2>2
      <3>1. r \in Seq(Seq(S)) /\ Len(r) = m /\ \A i \in 1 .. m : r[i] = q[i]
        <4> HIDE DEF m
        <4> QED
          BY <3>0, HeadPart
      <3>2. Has(r)
        <4> HIDE DEF r, Has
        <4> QED
          BY <3>1
      <3>3. PICK f : Joins(f, r) /\ \A i \in 1 .. m : f[i] \in Seq(S)
        <4> HIDE DEF r, m
        <4> QED
          BY <3>1, <3>2
      <3> HIDE DEF r
      <3> DEFINE g == [i \in 1 .. m + 1 |-> IF i = m + 1 THEN f[m] \o q[m + 1] ELSE f[i]]
      <3>4. q[m + 1] \in Seq(S) /\ f[m] \in Seq(S)
        BY <2>1, <2>2, <3>3
      <3> HIDE DEF m
      <3>5. \A i \in 1 .. m + 1 : g[i] \in Seq(S)
        <4> TAKE i \in 1 .. m + 1
        <4>1. CASE i = m + 1
          BY <3>0, <3>4, <4>1, ConcatProperties
        <4>2. CASE i # m + 1
          <5>1. i \in 1 .. m
            BY <3>0, <4>2
          <5> QED
            BY <3>3, <4>2, <5>1
        <4> QED
          BY <4>1, <4>2
      <3>6. \A i \in 1 .. m + 1 : g[i] = IF i = 1 THEN q[i] ELSE g[i - 1] \o q[i]
        <4> TAKE i \in 1 .. m + 1
        <4>1. CASE i = m + 1
          <5>1. i # 1 /\ i - 1 = m /\ m \in 1 .. m + 1 /\ m # m + 1
            BY <3>0, <4>1
          <5>2. g[m] = f[m]
            BY <5>1
          <5> QED
            BY <4>1, <5>1, <5>2
        <4>2. CASE i # m + 1
          <5>1. i \in 1 .. m /\ i \in 1 .. Len(r)
            BY <3>0, <3>1, <4>2
          <5>2. f[i] = IF i = 1 THEN r[i] ELSE f[i - 1] \o r[i]
            BY <3>1, <3>3, <5>1, JoinsItem
          <5>3. g[i] = f[i] /\ r[i] = q[i]
            BY <3>1, <4>2, <5>1
          <5>4. i # 1 => i - 1 \in 1 .. m + 1 /\ i - 1 # m + 1
            BY <3>0, <5>1
          <5>5. i # 1 => g[i - 1] = f[i - 1]
            BY <5>4
          <5> QED
            BY <5>2, <5>3, <5>5
        <4> QED
          BY <4>1, <4>2
      <3>7. g = [i \in 1 .. m + 1 |-> IF i = 1 THEN q[i] ELSE g[i - 1] \o q[i]]
        BY <3>6
      <3>8. Len(q) = m + 1
        BY <2>2 DEF m
      <3> HIDE DEF g
      <3> QED
        BY <3>5, <3>7, <3>8 DEF Joins
    <2> HIDE DEF Has
    <2> QED
      BY <2>1, <2>2
  <1>3. P = Nat
    <2> HIDE DEF P
    <2>1. P \in SUBSET Nat
      BY DEF P
    <2> QED
      BY <1>1, <1>2, <2>1, NatSetInduction
  <1>4. Len(p) - 1 \in P /\ Len(p) = (Len(p) - 1) + 1
    <2> HIDE DEF P
    <2> QED
      BY <1>3
  <1>5. Has(p)
    <2> HIDE DEF Has
    <2> QED
      BY <1>4
  <1> QED
    BY <1>5

\* What FlattenSeq takes its last item from.
LEMMA FlattenJoins ==
  ASSUME NEW S, NEW p \in Seq(Seq(S)), Len(p) # 0
  PROVE  \E f : /\ Joins(f, p) /\ FlattenSeq(p) = f[Len(p)]
                /\ \A i \in 1 .. Len(p) : f[i] \in Seq(S)
  <1> DEFINE f == CHOOSE f : Joins(f, p)
  <1>1. PICK g : Joins(g, p) /\ \A i \in 1 .. Len(p) : g[i] \in Seq(S)
    BY JoinsExist
  <1>2. Joins(f, p)
    BY <1>1
  <1>3. FlattenSeq(p) = f[Len(p)]
    BY FlattenDef
  <1> HIDE DEF f
  <1>4. Len(p) <= Len(p) /\ \A i \in 1 .. Len(p) : p[i] = p[i]
    OBVIOUS
  <1>5. \A i \in 1 .. Len(p) : f[i] = g[i]
    BY <1>1, <1>2, <1>4, JoinsUnique
  <1>6. \A i \in 1 .. Len(p) : f[i] \in Seq(S)
    BY <1>1, <1>5
  <1> QED
    BY <1>2, <1>3, <1>6

\* Nothing joined is nothing.
LEMMA FlattenEmpty == FlattenSeq(<<>>) = <<>>
  BY DEF FlattenSeq

LEMMA FlattenSingle ==
  ASSUME NEW S, NEW e \in Seq(S)
  PROVE  FlattenSeq(<<e>>) = e
  <1>1. <<e>> \in Seq(Seq(S)) /\ Len(<<e>>) = 1 /\ <<e>>[1] = e /\ 1 \in 1 .. Len(<<e>>)
    OBVIOUS
  <1> DEFINE p == <<e>>
  <1> HIDE DEF p
  <1>2. /\ p \in Seq(Seq(S)) /\ Len(p) = 1 /\ p[1] = e /\ 1 \in 1 .. Len(p)
        /\ Len(p) # 0
    BY <1>1 DEF p
  <1>3. PICK f : Joins(f, p) /\ FlattenSeq(p) = f[Len(p)]
    BY <1>2, FlattenJoins
  <1>4. f[1] = p[1]
    BY <1>2, <1>3, JoinsItem
  <1>5. FlattenSeq(p) = e
    BY <1>2, <1>3, <1>4
  <1> QED
    BY <1>5 DEF p

\* The join of sequences over S is one.
LEMMA FlattenType ==
  ASSUME NEW S, NEW p \in Seq(Seq(S))
  PROVE  FlattenSeq(p) \in Seq(S)
  <1>1. CASE Len(p) = 0
    <2>1. p = <<>>
      BY <1>1, EmptySeq
    <2>2. <<>> \in Seq(S)
      OBVIOUS
    <2> QED
      BY <2>1, <2>2, FlattenEmpty
  <1>2. CASE Len(p) # 0
    <2>1. PICK f : FlattenSeq(p) = f[Len(p)] /\ \A i \in 1 .. Len(p) : f[i] \in Seq(S)
      BY <1>2, FlattenJoins
    <2>2. Len(p) \in 1 .. Len(p)
      BY <1>2
    <2> QED
      BY <2>1, <2>2
  <1> QED
    BY <1>1, <1>2

\* One more part goes to the end.
LEMMA FlattenAppend ==
  ASSUME NEW S, NEW p \in Seq(Seq(S)), NEW e \in Seq(S)
  PROVE  FlattenSeq(Append(p, e)) = FlattenSeq(p) \o e
  <1>1. CASE Len(p) = 0
    <2>1. p = <<>>
      BY <1>1
    <2>2. Append(p, e) = <<e>>
      BY <2>1
    <2>3. <<>> \o e = e
      BY ConcatEmptySeq
    <2> QED
      BY <2>1, <2>2, <2>3, FlattenEmpty, FlattenSingle
  <1>2. CASE Len(p) # 0
    <2> DEFINE q == Append(p, e)
               T == Seq(S)
    <2> HIDE DEF T
    <2>0. p \in Seq(T) /\ e \in T
      BY DEF T
    <2>1. /\ q \in Seq(T) /\ Len(q) = Len(p) + 1
          /\ \A i \in 1 .. Len(p) : q[i] = p[i]
          /\ q[Len(p) + 1] = e
      BY <2>0, AppendProperties
    <2> HIDE DEF q
    <2>2. /\ Len(q) # 0 /\ Len(q) \in 1 .. Len(q) /\ Len(q) # 1
          /\ Len(q) - 1 = Len(p) /\ Len(p) <= Len(q) /\ Len(p) \in 1 .. Len(p)
      BY <1>2, <2>1
    <2>3. PICK f : Joins(f, p) /\ FlattenSeq(p) = f[Len(p)]
      BY <1>2, FlattenJoins
    <2>4. PICK g : Joins(g, q) /\ FlattenSeq(q) = g[Len(q)]
      BY <2>1, <2>2, FlattenJoins DEF T
    <2>5. \A i \in 1 .. Len(p) : f[i] = g[i]
      <3>1. \A i \in 1 .. Len(p) : p[i] = q[i]
        BY <2>1
      <3>2. Len(p) \in Nat
        BY <2>0
      <3>3. Len(q) \in Nat
        BY <2>1
      <3>4. Len(p) <= Len(q)
        BY <2>2
      <3>5. Joins(f, p)
        BY <2>3
      <3>6. Joins(g, q)
        BY <2>4
      <3>7. \A a, b : Joins(a, p) /\ Joins(b, q) => \A i \in 1 .. Len(p) : a[i] = b[i]
        BY ONLY <3>1, <3>2, <3>3, <3>4, JoinsUnique
      <3> QED
        BY ONLY <3>5, <3>6, <3>7, Zenon
    <2>6. g[Len(q)] = g[Len(q) - 1] \o q[Len(q)]
      BY ONLY <2>1, <2>2, <2>4, JoinsItem, Zenon
    <2>7. FlattenSeq(q) = FlattenSeq(p) \o e
      BY <2>1, <2>2, <2>3, <2>4, <2>5, <2>6
    <2> QED
      BY <2>7 DEF q
  <1> QED
    BY <1>1, <1>2

\* The join of two runs of parts is the join of one after that of the other.
LEMMA FlattenConcat ==
  ASSUME NEW S, NEW p \in Seq(Seq(S)), NEW q \in Seq(Seq(S))
  PROVE  FlattenSeq(p \o q) = FlattenSeq(p) \o FlattenSeq(q)
  <1> DEFINE T == Seq(S)
             P == {n \in Nat : \A r \in Seq(T) :
                     Len(r) = n => FlattenSeq(p \o r) = FlattenSeq(p) \o FlattenSeq(r)}
  <1>1. 0 \in P
    <2>1. ASSUME NEW r \in Seq(T), Len(r) = 0
          PROVE  FlattenSeq(p \o r) = FlattenSeq(p) \o FlattenSeq(r)
      <3>1. r = <<>>
        BY <2>1
      <3>2. p \o <<>> = p
        BY ConcatEmptySeq
      <3>3. FlattenSeq(p) \in Seq(S)
        BY FlattenType
      <3>4. FlattenSeq(p) \o <<>> = FlattenSeq(p)
        BY <3>3, ConcatEmptySeq
      <3> QED
        BY <3>1, <3>2, <3>4, FlattenEmpty
    <2> QED
      BY <2>1
  <1>2. ASSUME NEW n \in P PROVE n + 1 \in P
    <2>1. n \in Nat /\ n + 1 \in Nat
      OBVIOUS
    <2>2. ASSUME NEW r \in Seq(T), Len(r) = n + 1
          PROVE  FlattenSeq(p \o r) = FlattenSeq(p) \o FlattenSeq(r)
      <3> DEFINE u == SubSeq(r, 1, n)
                 e == r[n + 1]
      <3>0. n \in 0 .. Len(r) /\ n + 1 \in 1 .. Len(r)
        BY <2>1, <2>2
      <3>1. u \in Seq(T) /\ Len(u) = n /\ \A i \in 1 .. n : u[i] = r[i]
        <4> HIDE DEF T
        <4> QED
          BY <3>0, HeadPart
      <3>2. e \in T
        BY <3>0
      <3> HIDE DEF u, e, T
      <3>3. r = Append(u, e)
        <4>1. Append(u, e) \in Seq(T) /\ Len(Append(u, e)) = n + 1
          BY <3>1, <3>2, AppendProperties
        <4>2. \A i \in 1 .. n + 1 : r[i] = Append(u, e)[i]
          BY <2>1, <3>1, <3>2, AppendProperties DEF e
        <4> QED
          BY <2>2, <4>1, <4>2, SeqEqual
      <3>4. p \in Seq(T)
        BY DEF T
      <3>5. p \o r = Append(p \o u, e)
        BY <3>1, <3>2, <3>3, <3>4, AppendConcat
      <3>6. p \o u \in Seq(T)
        BY <3>1, <3>4, ConcatProperties
      <3>7. FlattenSeq(Append(p \o u, e)) = FlattenSeq(p \o u) \o e
        BY <3>2, <3>6, FlattenAppend DEF T
      <3>8. FlattenSeq(Append(u, e)) = FlattenSeq(u) \o e
        BY <3>1, <3>2, FlattenAppend DEF T
      <3>9. FlattenSeq(p \o u) = FlattenSeq(p) \o FlattenSeq(u)
        BY <3>1
      <3>10. FlattenSeq(p) \in Seq(S) /\ FlattenSeq(u) \in Seq(S) /\ e \in Seq(S)
        BY <3>1, <3>2, FlattenType DEF T
      <3>11. (FlattenSeq(p) \o FlattenSeq(u)) \o e = FlattenSeq(p) \o (FlattenSeq(u) \o e)
        <4>1. \A s, t, w \in Seq(S) : (s \o t) \o w = s \o (t \o w)
          BY ONLY ConcatAssoc
        <4> QED
          BY ONLY <3>10, <4>1, Zenon
      <3> QED
        BY ONLY <3>3, <3>5, <3>7, <3>8, <3>9, <3>11
    <2> QED
      BY <2>1, <2>2
  <1>3. P = Nat
    <2> HIDE DEF P
    <2>1. P \in SUBSET Nat
      BY DEF P
    <2> QED
      BY <1>1, <1>2, <2>1, NatSetInduction
  <1>4. Len(q) \in P /\ q \in Seq(T)
    <2> HIDE DEF P
    <2> QED
      BY <1>3
  <1> QED
    BY <1>4

\* The first part comes first.
LEMMA FlattenHead ==
  ASSUME NEW S, NEW p \in Seq(Seq(S)), p # <<>>
  PROVE  FlattenSeq(p) = Head(p) \o FlattenSeq(Tail(p))
  <1>1. /\ <<Head(p)>> \in Seq(Seq(S)) /\ Tail(p) \in Seq(Seq(S))
        /\ <<Head(p)>> \o Tail(p) = p
    BY HeadTailConcat
  <1>2. Head(p) \in Seq(S)
    BY HeadTailProperties
  <1>3. FlattenSeq(<<Head(p)>>) = Head(p)
    BY <1>2, FlattenSingle
  <1> QED
    BY <1>1, <1>3, FlattenConcat

\* The items of the join are those of its parts.
LEMMA FlattenItems ==
  ASSUME NEW S, NEW p \in Seq(Seq(S))
  PROVE  ToSet(FlattenSeq(p)) = UNION {ToSet(p[i]) : i \in DOMAIN p}
  <1> DEFINE T == Seq(S)
             Items(r) == ToSet(FlattenSeq(r)) = UNION {ToSet(r[i]) : i \in 1 .. Len(r)}
             P == {n \in Nat : \A r \in Seq(T) : Len(r) = n => Items(r)}
  <1>1. 0 \in P
    <2>1. ASSUME NEW r \in Seq(T), Len(r) = 0 PROVE Items(r)
      <3>1. r = <<>>
        BY <2>1, EmptySeq
      <3>2. FlattenSeq(r) = <<>>
        BY <3>1, FlattenEmpty
      <3> QED
        BY <2>1, <3>2 DEF ToSet
    <2> HIDE DEF Items
    <2> QED
      BY <2>1
  <1>2. ASSUME NEW n \in P PROVE n + 1 \in P
    <2>1. n \in Nat /\ n + 1 \in Nat
      OBVIOUS
    <2>2. ASSUME NEW r \in Seq(T), Len(r) = n + 1 PROVE Items(r)
      <3> DEFINE u == SubSeq(r, 1, n)
                 e == r[n + 1]
      <3>0. n \in 0 .. Len(r) /\ n + 1 \in 1 .. Len(r)
        BY <2>1, <2>2
      <3>1. u \in Seq(T) /\ Len(u) = n /\ \A i \in 1 .. n : u[i] = r[i]
        <4> HIDE DEF T
        <4> QED
          BY <3>0, HeadPart
      <3>2. e \in T
        <4> HIDE DEF T
        <4> QED
          BY <3>0, ElementOfSeq
      <3>3. Items(u)
        <4> HIDE DEF u, Items
        <4> QED
          BY <3>1
      <3> HIDE DEF u, T
      <3>4. r = Append(u, e)
        <4>1. Append(u, e) \in Seq(T) /\ Len(Append(u, e)) = n + 1
          BY <3>1, <3>2, AppendProperties
        <4>2. \A i \in 1 .. n + 1 : r[i] = Append(u, e)[i]
          BY <2>1, <3>1, <3>2, AppendProperties
        <4> QED
          BY <2>2, <4>1, <4>2, SeqEqual
      <3> HIDE DEF e
      <3>5. FlattenSeq(r) = FlattenSeq(u) \o e
        BY <3>1, <3>2, <3>4, FlattenAppend DEF T
      <3>6. FlattenSeq(u) \in Seq(S) /\ e \in Seq(S)
        BY <3>1, <3>2, FlattenType DEF T
      <3>7. ToSet(FlattenSeq(r)) = ToSet(FlattenSeq(u)) \cup ToSet(e)
        BY <3>5, <3>6, ConcatToSet
      <3>8. UNION {ToSet(r[i]) : i \in 1 .. n + 1}
              = (UNION {ToSet(u[i]) : i \in 1 .. n}) \cup ToSet(e)
        <4>1. 1 .. n + 1 = 1 .. n \cup {n + 1}
          BY <2>1
        <4>2. \A i \in 1 .. n : ToSet(r[i]) = ToSet(u[i])
          BY <3>1
        <4>3. ToSet(r[n + 1]) = ToSet(e)
          BY DEF e
        <4> QED
          BY <4>1, <4>2, <4>3
      <3> QED
        BY <2>2, <3>1, <3>3, <3>7, <3>8
    <2> HIDE DEF Items
    <2> QED
      BY <2>1, <2>2
  <1>3. P = Nat
    <2> HIDE DEF P
    <2>1. P \in SUBSET Nat
      BY DEF P
    <2> QED
      BY <1>1, <1>2, <2>1, NatSetInduction
  <1>4. Len(p) \in P /\ p \in Seq(T)
    <2> HIDE DEF P
    <2> QED
      BY <1>3
  <1>5. Items(p)
    <2> HIDE DEF Items
    <2> QED
      BY <1>4
  <1>6. DOMAIN p = 1 .. Len(p)
    OBVIOUS
  <1> QED
    BY <1>5, <1>6
-----------------------------------------------------------------------------
(* What a function makes of the items of a sequence, joined *)

Makes(G, A, S) == \A a \in A : G[a] \in Seq(S)
Joined(G, s) == FlattenSeq([i \in DOMAIN s |-> G[s[i]]])

\* The parts that are joined.
LEMMA JoinedParts ==
  ASSUME NEW A, NEW S, NEW G, Makes(G, A, S)
  PROVE  \A s \in Seq(A) :
         /\ [i \in DOMAIN s |-> G[s[i]]] \in Seq(Seq(S))
         /\ Len([i \in DOMAIN s |-> G[s[i]]]) = Len(s)
         /\ \A k \in 1 .. Len(s) : [i \in DOMAIN s |-> G[s[i]]][k] = G[s[k]]
  <1> TAKE s \in Seq(A)
  <1> DEFINE T == Seq(S)
  <1>1. DOMAIN s = 1 .. Len(s) /\ Len(s) \in Nat
    OBVIOUS
  <1>2. \A i \in 1 .. Len(s) : G[s[i]] \in T
    <2>1. \A i \in 1 .. Len(s) : s[i] \in A
      OBVIOUS
    <2>2. \A a \in A : G[a] \in T
      BY DEF Makes
    <2> HIDE DEF T
    <2> QED
      BY <2>1, <2>2
  <1> HIDE DEF T
  <1>3. [i \in 1 .. Len(s) |-> G[s[i]]] \in Seq(T)
    BY <1>1, <1>2
  <1> QED
    BY <1>1, <1>3 DEF T

LEMMA JoinedType ==
  ASSUME NEW A, NEW S, NEW G, Makes(G, A, S), NEW s \in Seq(A)
  PROVE  Joined(G, s) \in Seq(S)
  <1> DEFINE p == [i \in DOMAIN s |-> G[s[i]]]
  <1>1. p \in Seq(Seq(S))
    BY JoinedParts
  <1> HIDE DEF p
  <1>2. FlattenSeq(p) \in Seq(S)
    BY <1>1, FlattenType
  <1> QED
    BY <1>2 DEF Joined, p

LEMMA JoinedEmpty ==
  ASSUME NEW G
  PROVE  Joined(G, <<>>) = <<>>
  <1>1. [i \in DOMAIN <<>> |-> G[<<>>[i]]] = <<>>
    OBVIOUS
  <1> QED
    BY <1>1, FlattenEmpty DEF Joined

LEMMA JoinedSingle ==
  ASSUME NEW A, NEW S, NEW G, Makes(G, A, S), NEW e \in A
  PROVE  Joined(G, <<e>>) = G[e]
  <1>1. [i \in DOMAIN <<e>> |-> G[<<e>>[i]]] = <<G[e]>>
    OBVIOUS
  <1>2. G[e] \in Seq(S)
    BY DEF Makes
  <1> QED
    BY <1>1, <1>2, FlattenSingle DEF Joined

\* Two runs of items give one join after the other.
LEMMA JoinedConcat ==
  ASSUME NEW A, NEW S, NEW G, Makes(G, A, S)
  PROVE  \A s, t \in Seq(A) : Joined(G, s \o t) = Joined(G, s) \o Joined(G, t)
  <1> TAKE s, t \in Seq(A)
  <1> DEFINE T == Seq(S)
             p == [i \in DOMAIN s |-> G[s[i]]]
             q == [i \in DOMAIN t |-> G[t[i]]]
             r == [i \in DOMAIN (s \o t) |-> G[(s \o t)[i]]]
  <1>1. p \in Seq(Seq(S)) /\ Len(p) = Len(s) /\ \A i \in 1 .. Len(s) : p[i] = G[s[i]]
    BY JoinedParts
  <1>2. q \in Seq(Seq(S)) /\ Len(q) = Len(t) /\ \A i \in 1 .. Len(t) : q[i] = G[t[i]]
    BY JoinedParts
  <1>3. /\ s \o t \in Seq(A) /\ Len(s \o t) = Len(s) + Len(t)
        /\ \A i \in 1 .. Len(s) + Len(t) :
             (s \o t)[i] = IF i <= Len(s) THEN s[i] ELSE t[i - Len(s)]
    BY ConcatProperties
  <1>4. /\ r \in Seq(Seq(S)) /\ Len(r) = Len(s) + Len(t)
        /\ \A i \in 1 .. Len(s) + Len(t) : r[i] = G[(s \o t)[i]]
    <2> DEFINE w == s \o t
    <2>1. w \in Seq(A)
      BY <1>3
    <2> HIDE DEF w
    <2>2. /\ [i \in DOMAIN w |-> G[w[i]]] \in Seq(Seq(S))
          /\ Len([i \in DOMAIN w |-> G[w[i]]]) = Len(w)
          /\ \A k \in 1 .. Len(w) : [i \in DOMAIN w |-> G[w[i]]][k] = G[w[k]]
      BY <2>1, JoinedParts
    <2> QED
      BY <1>3, <2>2 DEF w
  <1>0. p \in Seq(T) /\ q \in Seq(T) /\ r \in Seq(T)
    BY <1>1, <1>2, <1>4
  <1> HIDE DEF p, q, r, T
  <1>5. /\ p \o q \in Seq(T) /\ Len(p \o q) = Len(s) + Len(t)
        /\ \A i \in 1 .. Len(s) + Len(t) :
             (p \o q)[i] = IF i <= Len(s) THEN p[i] ELSE q[i - Len(s)]
    <2>1. Len(p) = Len(s) /\ Len(q) = Len(t)
      BY <1>1, <1>2
    <2>2. p \in Seq(T) /\ q \in Seq(T)
      BY <1>0
    <2>3. /\ p \o q \in Seq(T) /\ Len(p \o q) = Len(p) + Len(q)
          /\ \A i \in 1 .. Len(p) + Len(q) :
               (p \o q)[i] = IF i <= Len(p) THEN p[i] ELSE q[i - Len(p)]
      BY ONLY <2>2, ConcatProperties
    <2> QED
      BY <2>1, <2>3
  <1>6. \A i \in 1 .. Len(s) + Len(t) : r[i] = (p \o q)[i]
    <2> TAKE i \in 1 .. Len(s) + Len(t)
    <2>1. CASE i <= Len(s)
      <3>1. i \in 1 .. Len(s)
        BY <2>1
      <3>2. r[i] = G[s[i]]
        BY <1>3, <1>4, <2>1
      <3>3. (p \o q)[i] = p[i]
        BY <1>5, <2>1
      <3>4. p[i] = G[s[i]]
        BY <1>1, <3>1
      <3> QED
        BY <3>2, <3>3, <3>4
    <2>2. CASE ~(i <= Len(s))
      <3>1. i - Len(s) \in 1 .. Len(t)
        BY <2>2
      <3>2. r[i] = G[t[i - Len(s)]]
        BY <1>3, <1>4, <2>2
      <3>3. (p \o q)[i] = q[i - Len(s)]
        BY <1>5, <2>2
      <3>4. q[i - Len(s)] = G[t[i - Len(s)]]
        BY <1>2, <3>1
      <3> QED
        BY <3>2, <3>3, <3>4
    <2> QED
      BY <2>1, <2>2
  <1>7. r = p \o q
    BY <1>0, <1>4, <1>5, <1>6, SeqEqual
  <1>8. FlattenSeq(p \o q) = FlattenSeq(p) \o FlattenSeq(q)
    BY <1>1, <1>2, FlattenConcat DEF T
  <1> QED
    BY <1>7, <1>8 DEF Joined, p, q, r

\* One more item gives its part at the end.
LEMMA JoinedAppend ==
  ASSUME NEW A, NEW S, NEW G, Makes(G, A, S), NEW s \in Seq(A), NEW e \in A
  PROVE  Joined(G, Append(s, e)) = Joined(G, s) \o G[e]
  <1>1. Append(s, e) = s \o <<e>> /\ <<e>> \in Seq(A)
    BY AppendIsConcat
  <1>2. Joined(G, s \o <<e>>) = Joined(G, s) \o Joined(G, <<e>>)
    <2>1. \A x, y \in Seq(A) : Joined(G, x \o y) = Joined(G, x) \o Joined(G, y)
      BY JoinedConcat
    <2> QED
      BY <1>1, <2>1
  <1>3. Joined(G, <<e>>) = G[e]
    BY JoinedSingle
  <1> QED
    BY <1>1, <1>2, <1>3

\* The part of the first item comes first.
LEMMA JoinedHead ==
  ASSUME NEW A, NEW S, NEW G, Makes(G, A, S), NEW s \in Seq(A), s # <<>>
  PROVE  /\ Head(s) \in A /\ Tail(s) \in Seq(A)
         /\ Joined(G, s) = G[Head(s)] \o Joined(G, Tail(s))
  <1>1. /\ <<Head(s)>> \in Seq(A) /\ Tail(s) \in Seq(A)
        /\ <<Head(s)>> \o Tail(s) = s
    BY HeadTailConcat
  <1>2. Head(s) \in A
    BY HeadTailProperties
  <1>3. Joined(G, <<Head(s)>>) = G[Head(s)]
    BY <1>2, JoinedSingle
  <1>4. Joined(G, <<Head(s)>> \o Tail(s)) = Joined(G, <<Head(s)>>) \o Joined(G, Tail(s))
    <2>1. \A x, y \in Seq(A) : Joined(G, x \o y) = Joined(G, x) \o Joined(G, y)
      BY JoinedConcat
    <2> QED
      BY <1>1, <2>1
  <1> QED
    BY <1>1, <1>2, <1>3, <1>4

\* The items of the parts are the items of the join.
LEMMA JoinedItems ==
  ASSUME NEW A, NEW S, NEW G, Makes(G, A, S), NEW s \in Seq(A)
  PROVE  ToSet(Joined(G, s)) = UNION {ToSet(G[s[i]]) : i \in DOMAIN s}
  <1> DEFINE p == [i \in DOMAIN s |-> G[s[i]]]
  <1>1. p \in Seq(Seq(S)) /\ DOMAIN p = DOMAIN s /\ \A i \in DOMAIN s : p[i] = G[s[i]]
    BY JoinedParts
  <1> HIDE DEF p
  <1>2. ToSet(FlattenSeq(p)) = UNION {ToSet(p[i]) : i \in DOMAIN p}
    BY <1>1, FlattenItems
  <1>3. UNION {ToSet(p[i]) : i \in DOMAIN p} = UNION {ToSet(G[s[i]]) : i \in DOMAIN s}
    BY <1>1
  <1> QED
    BY <1>2, <1>3 DEF Joined, p
=============================================================================
