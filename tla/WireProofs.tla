---------------------------- MODULE WireProofs ----------------------------
(***************************************************************************)
(* What Wire's operators do to any sequences: how Flatten puts sequences   *)
(* together, which calls a transcript owes, that a client reads back what  *)
(* a response was written from, and that responses are well formed.  These *)
(* are inductions over data; each is an argument about a set of numbers,   *)
(* or of sequences, that has a least member or contains all.               *)
(***************************************************************************)
EXTENDS Wire, SequenceTheorems, WellFoundedInduction, TLAPS

\* A set of numbers has a least member.
LEMMA Least ==
  ASSUME NEW S \in SUBSET Nat, S # {}
  PROVE  \E k \in S : \A j \in S : k <= j
<1>1. PICK k \in S : \A j \in S : ~(<<j, k>> \in OpToRel(<, Nat))
  BY NatLessThanWellFounded, WFMin, Zenon
<1>2. ASSUME NEW j \in S PROVE k <= j
  <2>1. <<j, k>> \notin OpToRel(<, Nat)
    BY <1>1, Zenon
  <2>2. j \in Nat /\ k \in Nat
    OBVIOUS
  <2>3. ~(j < k)
    BY <2>1, <2>2, Zenon DEF OpToRel
  <2> QED
    BY <2>2, <2>3
<1> QED
  BY <1>2

\* Induction over the naturals, for a set of them.
LEMMA Induction ==
  ASSUME NEW S, 0 \in S, \A n \in Nat : n \in S => n + 1 \in S
  PROVE  Nat \subseteq S
<1> SUFFICES ASSUME ~(Nat \subseteq S) PROVE FALSE
  OBVIOUS
<1>1. PICK k \in Nat \ S : \A j \in Nat \ S : k <= j
  <2>1. Nat \ S # {} /\ Nat \ S \in SUBSET Nat
    OBVIOUS
  <2> QED
    BY <2>1, Least
<1>2. k # 0 /\ k - 1 \in Nat
  BY <1>1
<1>3. k - 1 \in S
  BY <1>1, <1>2
<1> QED
  BY <1>1, <1>2, <1>3

\* Flatten, from left to right.
Unfolds(f, s) == f = [k \in 0..Len(s) |-> IF k = 0 THEN <<>> ELSE f[k - 1] \o s[k]]
\* What it has put together after k entries.
Prefix(s, k)  == (CHOOSE f : Unfolds(f, s))[k]

\* The recursion that Flatten is defined by has a solution for every sequence.
LEMMA UnfoldsExists ==
  ASSUME NEW s, Len(s) \in Nat
  PROVE  \E f : Unfolds(f, s)
<1> DEFINE Upto(k, f) == f = [j \in 0..k |-> IF j = 0 THEN <<>> ELSE f[j - 1] \o s[j]]
           S == {k \in Nat : \E f : Upto(k, f)}
<1>1. 0 \in S
  <2>1. Upto(0, [j \in 0..0 |-> <<>>])
    OBVIOUS
  <2> HIDE DEF Upto
  <2> QED
    BY <2>1
<1>2. ASSUME NEW k \in Nat, k \in S PROVE k + 1 \in S
  <2>1. PICK f : Upto(k, f)
    BY <1>2
  <2> DEFINE h == [j \in 0..k + 1 |-> IF j = k + 1 THEN f[k] \o s[k + 1] ELSE f[j]]
  <2>2. ASSUME NEW j \in 0..k + 1
        PROVE  h[j] = IF j = 0 THEN <<>> ELSE h[j - 1] \o s[j]
    <3>1. CASE j = k + 1
      BY <3>1
    <3>2. CASE j \in 0..k
      <4>1. h[j] = f[j] /\ (j # 0 => h[j - 1] = f[j - 1])
        BY <3>2
      <4>2. f[j] = IF j = 0 THEN <<>> ELSE f[j - 1] \o s[j]
        BY <2>1, <3>2
      <4> QED
        BY <4>1, <4>2
    <3> QED
      BY <3>1, <3>2
  <2>3. Upto(k + 1, h)
    <3>1. h = [j \in 0..k + 1 |-> h[j]]
      OBVIOUS
    <3> HIDE DEF h
    <3> QED
      BY <2>2, <3>1
  <2>4. \E e : Upto(k + 1, e)
    <3> HIDE DEF h, Upto
    <3> QED
      BY <2>3, Zenon
  <2> HIDE DEF Upto
  <2> QED
    BY <2>4
<1>3. Len(s) \in S
  <2> HIDE DEF S
  <2> QED
    BY <1>1, <1>2, Induction
<1>4. PICK f : Upto(Len(s), f)
  BY <1>3
<1> QED
  BY <1>4 DEF Unfolds

\* Flatten goes on from each prefix to the next.
LEMMA PrefixSteps ==
  ASSUME NEW s, Len(s) \in Nat
  PROVE  /\ Flatten(s) = Prefix(s, Len(s)) /\ Prefix(s, 0) = <<>>
         /\ \A k \in 0..Len(s) - 1 : Prefix(s, k + 1) = Prefix(s, k) \o s[k + 1]
<1> DEFINE g == CHOOSE f : Unfolds(f, s)
<1>1. Unfolds(g, s)
  BY UnfoldsExists
<1>2. Flatten(s) = g[Len(s)]
  BY DEF Flatten, Unfolds
<1> HIDE DEF g
<1>3. g[0] = <<>>
  BY <1>1 DEF Unfolds
<1>4. ASSUME NEW k \in 0..Len(s) - 1 PROVE g[k + 1] = g[k] \o s[k + 1]
  <2>1. k + 1 \in 0..Len(s) /\ k + 1 # 0 /\ (k + 1) - 1 = k
    OBVIOUS
  <2>2. \A j \in 0..Len(s) : g[j] = IF j = 0 THEN <<>> ELSE g[j - 1] \o s[j]
    BY <1>1 DEF Unfolds
  <2> QED
    BY <2>1, <2>2
<1> QED
  BY <1>2, <1>3, <1>4 DEF Prefix, g

\* Nothing of nothing.
LEMMA FlattenEmpty == Flatten(<<>>) = <<>>
<1>1. Len(<<>>) = 0
  BY EmptySeq
<1> QED
  BY <1>1, PrefixSteps

\* What Flatten does with one more sequence at the end.
LEMMA FlattenAppend ==
  ASSUME NEW S, NEW s \in Seq(S), NEW e \in S
  PROVE  Flatten(Append(s, e)) = Flatten(s) \o e
<1> DEFINE n == Len(s)
           a == Append(s, e)
<1>1. n \in Nat /\ Len(a) = n + 1 /\ a[n + 1] = e /\ \A i \in 1..n : a[i] = s[i]
  BY LenProperties, AppendProperties
<1>2. /\ Flatten(a) = Prefix(a, n + 1) /\ Prefix(a, 0) = <<>>
      /\ \A k \in 0..n : Prefix(a, k + 1) = Prefix(a, k) \o a[k + 1]
  <2>1. Len(a) \in Nat /\ 0..Len(a) - 1 = 0..n
    BY <1>1
  <2> HIDE DEF a
  <2> QED
    BY <1>1, <2>1, PrefixSteps
<1>3. /\ Flatten(s) = Prefix(s, n) /\ Prefix(s, 0) = <<>>
      /\ \A k \in 0..n - 1 : Prefix(s, k + 1) = Prefix(s, k) \o s[k + 1]
  BY <1>1, PrefixSteps
<1> HIDE DEF n, a
<1> DEFINE T == {k \in Nat : k <= n => Prefix(a, k) = Prefix(s, k)}
<1>4. 0 \in T
  BY <1>2, <1>3
<1>5. ASSUME NEW k \in Nat, k \in T PROVE k + 1 \in T
  <2>1. SUFFICES ASSUME k + 1 <= n PROVE Prefix(a, k + 1) = Prefix(s, k + 1)
    OBVIOUS
  <2>2. k \in 0..n /\ k \in 0..n - 1 /\ k + 1 \in 1..n /\ k <= n
    BY <1>1, <2>1
  <2>3. a[k + 1] = s[k + 1] /\ Prefix(a, k) = Prefix(s, k)
    BY <1>1, <1>5, <2>2
  <2> QED
    BY <1>2, <1>3, <2>2, <2>3
<1>6. n \in T
  <2> HIDE DEF T
  <2> QED
    BY <1>1, <1>4, <1>5, Induction
<1>7. Prefix(a, n + 1) = Prefix(a, n) \o e
  <2>1. n \in 0..n
    BY <1>1
  <2> QED
    BY <1>1, <1>2, <2>1
<1> QED
  BY <1>1, <1>2, <1>3, <1>6, <1>7 DEF a

\* Induction over sequences, for a set of them.
LEMMA SeqInduction ==
  ASSUME NEW X, NEW P, <<>> \in P, \A s \in Seq(X) : \A e \in X : s \in P => Append(s, e) \in P
  PROVE  Seq(X) \subseteq P
<1> DEFINE N == {n \in Nat : \A s \in Seq(X) : Len(s) = n => s \in P}
<1>1. 0 \in N
  <2>1. \A s \in Seq(X) : Len(s) = 0 => s = <<>>
    BY EmptySeq
  <2> QED
    BY <2>1
<1>2. ASSUME NEW n \in Nat, n \in N PROVE n + 1 \in N
  <2> SUFFICES ASSUME NEW s \in Seq(X), Len(s) = n + 1 PROVE s \in P
    OBVIOUS
  <2>1. s # <<>>
    BY EmptySeq
  <2>2. PICK r \in Seq(X), e \in X : s = Append(r, e)
    BY <2>1, SequenceEmptyOrAppend
  <2>3. Len(r) \in Nat /\ Len(s) = Len(r) + 1
    BY <2>2, LenProperties, AppendProperties
  <2>4. r \in P
    BY <1>2, <2>3
  <2> QED
    BY <2>2, <2>4
<1>3. Nat \subseteq N
  <2> HIDE DEF N
  <2> QED
    BY <1>1, <1>2, Induction
<1> QED
  <2> SUFFICES ASSUME NEW s \in Seq(X) PROVE s \in P
    OBVIOUS
  <2>1. Len(s) \in Nat
    BY LenProperties
  <2> QED
    BY <1>3, <2>1

\* Flatten makes one sequence of its entries.
LEMMA FlattenType ==
  ASSUME NEW S, NEW s \in Seq(Seq(S))
  PROVE  Flatten(s) \in Seq(S)
<1> DEFINE P == {t \in Seq(Seq(S)) : Flatten(t) \in Seq(S)}
<1>1. <<>> \in P
  BY FlattenEmpty, EmptySeq
<1>2. ASSUME NEW t \in Seq(Seq(S)), NEW e \in Seq(S), t \in P PROVE Append(t, e) \in P
  <2>1. Append(t, e) \in Seq(Seq(S)) /\ Flatten(Append(t, e)) = Flatten(t) \o e
    BY AppendProperties, FlattenAppend
  <2> QED
    BY <1>2, <2>1, ConcatProperties
<1> HIDE DEF P
<1>3. s \in P
  BY <1>1, <1>2, SeqInduction
<1> QED
  BY <1>3 DEF P

\* An entry at the end, before or after the concatenation.
LEMMA AppendConcat ==
  ASSUME NEW S, NEW s \in Seq(S), NEW t \in Seq(S), NEW e \in S
  PROVE  s \o Append(t, e) = Append(s \o t, e)
<1>1. <<e>> \in Seq(S)
  OBVIOUS
<1>2. s \o t \in Seq(S)
  BY ConcatProperties
<1>3. Append(t, e) = t \o <<e>> /\ Append(s \o t, e) = (s \o t) \o <<e>>
  BY <1>2, AppendIsConcat
<1> QED
  BY <1>1, <1>3, ConcatAssociative

\* Flatten of two halves.
LEMMA FlattenConcat ==
  ASSUME NEW S, NEW s \in Seq(Seq(S)), NEW t \in Seq(Seq(S))
  PROVE  Flatten(s \o t) = Flatten(s) \o Flatten(t)
<1> DEFINE P == {u \in Seq(Seq(S)) : Flatten(s \o u) = Flatten(s) \o Flatten(u)}
<1>0. Flatten(s) \in Seq(S)
  BY FlattenType
<1>1. <<>> \in P
  <2>1. s \o <<>> = s /\ Flatten(s) \o <<>> = Flatten(s) /\ <<>> \in Seq(Seq(S))
    BY <1>0, ConcatEmptySeq, EmptySeq
  <2> QED
    BY <2>1, FlattenEmpty
<1>2. ASSUME NEW u \in Seq(Seq(S)), NEW e \in Seq(S), u \in P PROVE Append(u, e) \in P
  <2>1. s \o Append(u, e) = Append(s \o u, e) /\ s \o u \in Seq(Seq(S)) /\ Append(u, e) \in Seq(Seq(S))
    BY AppendConcat, ConcatProperties, AppendProperties, SMTT(30)
  <2>2. Flatten(s \o Append(u, e)) = Flatten(s \o u) \o e /\ Flatten(Append(u, e)) = Flatten(u) \o e
    BY <2>1, FlattenAppend
  <2>3. Flatten(u) \in Seq(S) /\ Flatten(s \o u) = Flatten(s) \o Flatten(u)
    BY <1>2, FlattenType
  <2>4. (Flatten(s) \o Flatten(u)) \o e = Flatten(s) \o (Flatten(u) \o e)
    BY <1>0, <2>3, ConcatAssociative, SMTT(30)
  <2> QED
    BY <2>1, <2>2, <2>3, <2>4
<1> HIDE DEF P
<1>3. t \in P
  BY <1>1, <1>2, SeqInduction
<1> QED
  BY <1>3 DEF P

\* Flatten of one sequence is that sequence.
LEMMA FlattenOne ==
  ASSUME NEW S, NEW e \in Seq(S)
  PROVE  Flatten(<<e>>) = e
<1>1. <<>> \in Seq(Seq(S)) /\ Append(<<>>, e) = <<e>> /\ <<>> \o e = e
  BY EmptySeq, ConcatEmptySeq
<1>2. Flatten(Append(<<>>, e)) = Flatten(<<>>) \o e
  BY <1>1, FlattenAppend
<1> QED
  BY <1>1, <1>2, FlattenEmpty

\* A sequence over a set is one over a larger set.
LEMMA SeqMono ==
  ASSUME NEW S, NEW T, S \subseteq T
  PROVE  Seq(S) \subseteq Seq(T)
<1> SUFFICES ASSUME NEW s \in Seq(S) PROVE s \in Seq(T)
  OBVIOUS
<1>1. Len(s) \in Nat /\ s \in [1..Len(s) -> S]
  BY LenProperties
<1>2. s \in [1..Len(s) -> T]
  BY <1>1
<1> QED
  BY <1>1, <1>2

\* A function on the first n numbers is a sequence.
LEMMA FunSeq ==
  ASSUME NEW S, NEW n \in Nat, NEW f \in [1..n -> S]
  PROVE  f \in Seq(S)
OBVIOUS

-----------------------------------------------------------------------------
(* What a sequence becomes when each entry becomes a sequence.             *)

\* The entries, each through f; these in one sequence; and f as a function.
Each(f, s)    == [i \in DOMAIN s |-> f[s[i]]]
Through(f, s) == Flatten(Each(f, s))
Maps(f, E, Y) == f \in [E -> Y]

\* The entries become what f makes of them,
LEMMA EachType ==
  ASSUME NEW E, NEW Y, NEW f, Maps(f, E, Y), NEW s \in Seq(E)
  PROVE  Each(f, s) \in Seq(Y)
<1>1. Len(s) \in Nat /\ DOMAIN s = 1..Len(s) /\ \A i \in 1..Len(s) : s[i] \in E
  BY LenProperties, ElementOfSeq
<1>2. Each(f, s) \in [1..Len(s) -> Y]
  BY <1>1 DEF Each, Maps
<1> QED
  BY <1>1, <1>2

\* one for one,
LEMMA EachLen ==
  ASSUME NEW E, NEW s \in Seq(E), NEW f
  PROVE  Len(Each(f, s)) = Len(s)
<1>1. Len(s) \in Nat /\ DOMAIN s = 1..Len(s)
  BY LenProperties
<1> QED
  BY <1>1 DEF Each

\* half by half.
LEMMA EachConcat ==
  ASSUME NEW E, NEW f, NEW a \in Seq(E), NEW b \in Seq(E)
  PROVE  Each(f, a \o b) = Each(f, a) \o Each(f, b)
<1> DEFINE Y == {f[e] : e \in E}
<1>0. ASSUME NEW s \in Seq(E) PROVE Each(f, s) \in Seq(Y)
  <2>1. Len(s) \in Nat /\ DOMAIN s = 1..Len(s) /\ \A i \in 1..Len(s) : s[i] \in E
    BY LenProperties, ElementOfSeq
  <2>2. Each(f, s) \in [1..Len(s) -> Y]
    BY <2>1 DEF Each
  <2> HIDE DEF Y
  <2> QED
    BY <2>1, <2>2, SMTT(30)
<1> HIDE DEF Y
<1>1. a \o b \in Seq(E) /\ Len(a \o b) = Len(a) + Len(b) /\ Len(a) \in Nat /\ Len(b) \in Nat
  BY ConcatProperties, LenProperties
<1>2. /\ Each(f, a) \in Seq(Y) /\ Len(Each(f, a)) = Len(a)
      /\ Each(f, b) \in Seq(Y) /\ Len(Each(f, b)) = Len(b)
      /\ Each(f, a \o b) \in Seq(Y) /\ Len(Each(f, a \o b)) = Len(a) + Len(b)
  <2>1. Each(f, a) \in Seq(Y) /\ Len(Each(f, a)) = Len(a)
    BY <1>0, EachLen
  <2>2. Each(f, b) \in Seq(Y) /\ Len(Each(f, b)) = Len(b)
    BY <1>0, EachLen
  <2>3. Each(f, a \o b) \in Seq(Y) /\ Len(Each(f, a \o b)) = Len(a \o b)
    BY <1>0, <1>1, EachLen
  <2> QED
    BY <1>1, <2>1, <2>2, <2>3
<1> DEFINE A == Each(f, a)
           B == Each(f, b)
<1>3. A \o B \in Seq(Y) /\ Len(A \o B) = Len(a) + Len(b)
  <2>1. A \in Seq(Y) /\ B \in Seq(Y) /\ Len(A) = Len(a) /\ Len(B) = Len(b)
    BY <1>2
  <2> HIDE DEF A, B
  <2>2. A \o B \in Seq(Y) /\ Len(A \o B) = Len(A) + Len(B)
    BY <2>1, ConcatProperties
  <2> QED
    BY <2>1, <2>2
<1>4. ASSUME NEW i \in 1..Len(a) + Len(b) PROVE Each(f, a \o b)[i] = (Each(f, a) \o Each(f, b))[i]
  <2>1. Each(f, a \o b)[i] = f[(a \o b)[i]]
    BY <1>1, LenProperties DEF Each
  <2>2. (a \o b)[i] = IF i <= Len(a) THEN a[i] ELSE b[i - Len(a)]
    BY ConcatProperties
  <2>3. (Each(f, a) \o Each(f, b))[i] = IF i <= Len(a) THEN Each(f, a)[i] ELSE Each(f, b)[i - Len(a)]
    BY <1>2, ConcatProperties
  <2>4. i <= Len(a) => Each(f, a)[i] = f[a[i]]
    BY <1>1, LenProperties DEF Each
  <2>5. ~(i <= Len(a)) => Each(f, b)[i - Len(a)] = f[b[i - Len(a)]]
    BY <1>1, LenProperties DEF Each
  <2> QED
    BY <2>1, <2>2, <2>3, <2>4, <2>5
<1> QED
  BY <1>2, <1>3, <1>4, SeqEqual

\* A sequence goes through f half by half;
LEMMA ThroughConcat ==
  ASSUME NEW E, NEW X, NEW f, Maps(f, E, Seq(X)), NEW a \in Seq(E), NEW b \in Seq(E)
  PROVE  Through(f, a \o b) = Through(f, a) \o Through(f, b)
<1>1. Each(f, a) \in Seq(Seq(X)) /\ Each(f, b) \in Seq(Seq(X))
  BY EachType
<1>2. Each(f, a \o b) = Each(f, a) \o Each(f, b)
  BY EachConcat
<1>3. Flatten(Each(f, a) \o Each(f, b)) = Flatten(Each(f, a)) \o Flatten(Each(f, b))
  BY <1>1, FlattenConcat
<1> QED
  BY <1>2, <1>3 DEF Through

\* it stays a sequence;
LEMMA ThroughType ==
  ASSUME NEW E, NEW X, NEW f, Maps(f, E, Seq(X)), NEW a \in Seq(E)
  PROVE  Through(f, a) \in Seq(X)
BY EachType, FlattenType DEF Through

\* one entry becomes what f makes of it,
LEMMA ThroughOne ==
  ASSUME NEW E, NEW X, NEW f, Maps(f, E, Seq(X)), NEW e \in E
  PROVE  Through(f, <<e>>) = f[e]
<1>1. Each(f, <<e>>) = <<f[e]>>
  BY DEF Each
<1>2. f[e] \in Seq(X)
  BY DEF Maps
<1> QED
  BY <1>1, <1>2, FlattenOne DEF Through

\* and nothing becomes nothing.
LEMMA ThroughEmpty ==
  ASSUME NEW f
  PROVE  Through(f, <<>>) = <<>>
<1>1. Each(f, <<>>) = <<>>
  BY DEF Each
<1> QED
  BY <1>1, FlattenEmpty DEF Through

\* Taken through a sequence of sequences at once, or one after the other.
LEMMA ThroughFlatten ==
  ASSUME NEW E, NEW X, NEW f, Maps(f, E, Seq(X)), NEW t \in Seq(Seq(E))
  PROVE  Through(f, Flatten(t)) = Flatten([i \in DOMAIN t |-> Through(f, t[i])])
<1> DEFINE g == [s \in Seq(E) |-> Through(f, s)]
           P == {u \in Seq(Seq(E)) : Through(f, Flatten(u)) = Through(g, u)}
<1>0. Maps(g, Seq(E), Seq(X))
  BY ThroughType DEF Maps
<1>1. <<>> \in P
  BY ThroughEmpty, FlattenEmpty, EmptySeq
<1>2. ASSUME NEW u \in Seq(Seq(E)), NEW e \in Seq(E), u \in P PROVE Append(u, e) \in P
  <2>1. Append(u, e) \in Seq(Seq(E)) /\ Append(u, e) = u \o <<e>> /\ <<e>> \in Seq(Seq(E))
    BY AppendProperties, AppendIsConcat
  <2>2. Flatten(Append(u, e)) = Flatten(u) \o e /\ Flatten(u) \in Seq(E)
    BY FlattenAppend, FlattenType
  <2>3. Through(f, Flatten(Append(u, e))) = Through(f, Flatten(u)) \o Through(f, e)
    <3>1. Through(f, Flatten(u) \o e) = Through(f, Flatten(u)) \o Through(f, e)
      BY <2>2, ThroughConcat
    <3> QED
      BY <2>2, <3>1
  <2>4. Through(g, u \o <<e>>) = Through(g, u) \o g[e]
    <3> HIDE DEF g
    <3> DEFINE w == <<e>>
    <3>3. w \in Seq(Seq(E))
      BY <2>1
    <3>1. Through(g, u \o w) = Through(g, u) \o Through(g, w)
      <4> HIDE DEF w
      <4> QED
        BY <1>0, <3>3, ThroughConcat
    <3>2. Through(g, <<e>>) = g[e]
      BY <1>0, ThroughOne
    <3> QED
      BY <3>1, <3>2
  <2>5. g[e] = Through(f, e)
    OBVIOUS
  <2> HIDE DEF g
  <2> QED
    BY <1>2, <2>1, <2>3, <2>4, <2>5
<1> HIDE DEF P
<1>3. t \in P
  BY <1>1, <1>2, SeqInduction
<1>4. Each(g, t) = [i \in DOMAIN t |-> Through(f, t[i])]
  <2>1. \A i \in DOMAIN t : t[i] \in Seq(E)
    BY LenProperties, ElementOfSeq
  <2> QED
    BY <2>1 DEF Each
<1> QED
  BY <1>3, <1>4 DEF P, Through

\* What stays of sequences that are empty, all of them or all but one.
LEMMA FlattenNone ==
  ASSUME NEW X, NEW s \in Seq(Seq(X)), \A i \in 1..Len(s) : s[i] = <<>>
  PROVE  Flatten(s) = <<>>
<1> DEFINE P == {t \in Seq(Seq(X)) : (\A i \in 1..Len(t) : t[i] = <<>>) => Flatten(t) = <<>>}
<1>1. <<>> \in P
  BY FlattenEmpty, EmptySeq
<1>2. ASSUME NEW t \in Seq(Seq(X)), NEW e \in Seq(X), t \in P PROVE Append(t, e) \in P
  <2>1. /\ Append(t, e) \in Seq(Seq(X)) /\ Len(t) \in Nat /\ Len(Append(t, e)) = Len(t) + 1
        /\ Append(t, e)[Len(t) + 1] = e /\ \A i \in 1..Len(t) : Append(t, e)[i] = t[i]
    BY AppendProperties, LenProperties
  <2> SUFFICES ASSUME \A i \in 1..Len(Append(t, e)) : Append(t, e)[i] = <<>> PROVE Flatten(Append(t, e)) = <<>>
    BY <2>1
  <2>2. e = <<>> /\ \A i \in 1..Len(t) : t[i] = <<>>
    BY <2>1
  <2>3. Flatten(Append(t, e)) = Flatten(t) \o e
    BY FlattenAppend
  <2>4. Flatten(t) = <<>> /\ <<>> \o <<>> = <<>>
    BY <1>2, <2>2, ConcatEmptySeq, EmptySeq
  <2> QED
    BY <2>2, <2>3, <2>4
<1> HIDE DEF P
<1>3. s \in P
  BY <1>1, <1>2, SeqInduction
<1> QED
  BY <1>3 DEF P

\* Flatten of entries that are empty but for one is that one.
LEMMA FlattenOnly ==
  ASSUME NEW X, NEW s \in Seq(Seq(X)), NEW n \in 1..Len(s), \A i \in 1..Len(s) : i # n => s[i] = <<>>
  PROVE  Flatten(s) = s[n]
<1> DEFINE P == {t \in Seq(Seq(X)) : \A k \in 1..Len(t) :
                   (\A i \in 1..Len(t) : i # k => t[i] = <<>>) => Flatten(t) = t[k]}
<1>1. <<>> \in P
  BY EmptySeq
<1>2. ASSUME NEW t \in Seq(Seq(X)), NEW e \in Seq(X), t \in P PROVE Append(t, e) \in P
  <2>1. /\ Append(t, e) \in Seq(Seq(X)) /\ Len(t) \in Nat /\ Len(Append(t, e)) = Len(t) + 1
        /\ Append(t, e)[Len(t) + 1] = e /\ \A i \in 1..Len(t) : Append(t, e)[i] = t[i]
    BY AppendProperties, LenProperties
  <2> SUFFICES ASSUME NEW k \in 1..Len(t) + 1, \A i \in 1..Len(t) + 1 : i # k => Append(t, e)[i] = <<>>
               PROVE  Flatten(Append(t, e)) = Append(t, e)[k]
    BY <2>1
  <2>3. Flatten(Append(t, e)) = Flatten(t) \o e
    BY FlattenAppend
  <2>4. CASE k = Len(t) + 1
    <3>1. ASSUME NEW i \in 1..Len(t) PROVE t[i] = <<>>
      <4>1. i \in 1..Len(t) + 1 /\ i # k
        BY <2>1, <2>4
      <4> QED
        BY <2>1, <4>1
    <3>2. Flatten(t) = <<>> /\ <<>> \o e = e
      BY <3>1, FlattenNone, ConcatEmptySeq
    <3> QED
      BY <2>1, <2>3, <2>4, <3>2
  <2>5. CASE k \in 1..Len(t)
    <3>1. e = <<>> /\ \A i \in 1..Len(t) : i # k => t[i] = <<>>
      BY <2>1, <2>5
    <3>2. Flatten(t) = t[k] /\ t[k] \in Seq(X)
      BY <1>2, <2>5, <3>1, ElementOfSeq
    <3>3. t[k] \o <<>> = t[k]
      BY <3>2, ConcatEmptySeq
    <3> QED
      BY <2>1, <2>3, <2>5, <3>1, <3>2, <3>3
  <2> QED
    BY <2>1, <2>4, <2>5
<1> HIDE DEF P
<1>3. s \in P
  BY <1>1, <1>2, SeqInduction
<1> QED
  BY <1>3 DEF P

\* Each entry becomes itself, or nothing.
LEMMA ThroughAll ==
  ASSUME NEW X, NEW f, NEW s \in Seq(X), \A i \in 1..Len(s) : f[s[i]] = <<s[i]>>
  PROVE  Through(f, s) = s
<1> DEFINE g == [x \in X |-> <<x>>]
           P == {t \in Seq(X) : Through(g, t) = t}
<1>0. Maps(g, X, Seq(X))
  BY DEF Maps
<1>1. <<>> \in P
  BY ThroughEmpty, EmptySeq
<1>2. ASSUME NEW t \in Seq(X), NEW e \in X, t \in P PROVE Append(t, e) \in P
  <2>1. Append(t, e) \in Seq(X) /\ Append(t, e) = t \o <<e>>
    BY AppendProperties, AppendIsConcat
  <2> DEFINE w == <<e>>
  <2>2. w \in Seq(X) /\ Through(g, w) = w
    <3>1. Through(g, <<e>>) = g[e]
      <4> HIDE DEF g
      <4> QED
        BY <1>0, ThroughOne
    <3> QED
      BY <3>1
  <2>3. Through(g, t \o w) = Through(g, t) \o Through(g, w)
    <3>1. w \in Seq(X) /\ t \in Seq(X)
      BY <2>2
    <3> HIDE DEF w, g, P
    <3> QED
      BY <1>0, <3>1, ThroughConcat
  <2> QED
    BY <1>2, <2>1, <2>2, <2>3
<1>3. s \in P
  <2> HIDE DEF P
  <2> QED
    BY <1>1, <1>2, SeqInduction
<1>4. Each(f, s) = Each(g, s)
  <2>1. DOMAIN s = 1..Len(s) /\ \A i \in 1..Len(s) : s[i] \in X
    BY LenProperties, ElementOfSeq
  <2> QED
    BY <2>1 DEF Each
<1> QED
  BY <1>3, <1>4 DEF P, Through

\* A sequence of which f makes nothing becomes nothing.
LEMMA ThroughNone ==
  ASSUME NEW X, NEW f, NEW s \in Seq(X), \A i \in 1..Len(s) : f[s[i]] = <<>>
  PROVE  Through(f, s) = <<>>
<1>1. Len(s) \in Nat /\ DOMAIN s = 1..Len(s)
  BY LenProperties
<1>2. Len(Each(f, s)) = Len(s) /\ \A i \in 1..Len(s) : Each(f, s)[i] = <<>>
  BY <1>1, EachLen DEF Each
<1>3. Each(f, s) \in Seq(Seq(X))
  <2>1. Each(f, s) \in [1..Len(s) -> Seq(X)]
    BY <1>1, <1>2, EmptySeq DEF Each
  <2> QED
    BY <1>1, <2>1
<1> QED
  BY <1>2, <1>3, FlattenNone DEF Through

-----------------------------------------------------------------------------
(* The calls that are owed.                                                *)

\* When everything a chat called has been answered, what is owed is what the
\* message that follows it calls.
LEMMA UnresolvedIs ==
  ASSUME NEW C, NEW M, \A m \in M : m.calls \in Seq(C),
         NEW h \in Seq(M), \A i \in 1..Len(h) : \A j \in 1..Len(h[i].calls) : h[i].calls[j].id \in Answered(h),
         NEW m \in M, m.results = <<>>, \A j \in 1..Len(m.calls) : m.calls[j].id \notin Answered(h)
  PROVE  Unresolved(h) = <<>> /\ Unresolved(h \o <<m>>) = m.calls
<1> DEFINE A == Answered(h)
           f == [x \in M |-> x.calls]
           g == [c \in C |-> IF c.id \notin A THEN <<c>> ELSE <<>>]
<1>1. Maps(f, M, Seq(C)) /\ Maps(g, C, Seq(C))
  BY DEF Maps
<1>2. ASSUME NEW s \in Seq(M) PROVE ToolCallsIn(s) = Through(f, s)
  <2>1. \A i \in DOMAIN s : s[i] \in M
    BY LenProperties, ElementOfSeq
  <2>2. Each(f, s) = [i \in DOMAIN s |-> s[i].calls]
    BY <2>1 DEF Each
  <2> QED
    BY <2>2 DEF ToolCallsIn, Through
<1>3. ASSUME NEW s \in Seq(M), Answered(s) = A PROVE Unresolved(s) = Through(g, Through(f, s))
  <2>1. ToolCallsIn(s) \in Seq(C)
    <3> HIDE DEF f
    <3> QED
      BY <1>1, <1>2, ThroughType
  <2>2. \A i \in DOMAIN ToolCallsIn(s) : ToolCallsIn(s)[i] \in C
    BY <2>1, LenProperties, ElementOfSeq
  <2>3. Each(g, ToolCallsIn(s)) =
          [i \in DOMAIN ToolCallsIn(s) |-> IF ToolCallsIn(s)[i].id \notin A THEN <<ToolCallsIn(s)[i]>> ELSE <<>>]
    BY <2>2 DEF Each
  <2> QED
    BY <1>2, <1>3, <2>3 DEF Unresolved, Those, Through
<1>4. Through(g, Through(f, h)) = <<>>
  <2>1. Each(f, h) \in Seq(Seq(C))
    <3> HIDE DEF f
    <3> QED
      BY <1>1, EachType
  <2>2. Through(g, Flatten(Each(f, h))) = Flatten([i \in DOMAIN Each(f, h) |-> Through(g, Each(f, h)[i])])
    <3> HIDE DEF f, g
    <3> QED
      BY <1>1, <2>1, ThroughFlatten
  <2> DEFINE e == [i \in DOMAIN Each(f, h) |-> Through(g, Each(f, h)[i])]
  <2>3. DOMAIN Each(f, h) = 1..Len(h) /\ Len(h) \in Nat
    BY LenProperties DEF Each
  <2>4. ASSUME NEW i \in 1..Len(h) PROVE e[i] = <<>>
    <3>1. Each(f, h)[i] = h[i].calls /\ h[i].calls \in Seq(C)
      BY <2>3, ElementOfSeq DEF Each
    <3>2. \A j \in 1..Len(h[i].calls) : g[h[i].calls[j]] = <<>>
      BY <3>1, ElementOfSeq
    <3>3. Through(g, h[i].calls) = <<>>
      <4> DEFINE c == h[i].calls
      <4>1. c \in Seq(C) /\ \A j \in 1..Len(c) : g[c[j]] = <<>>
        BY <3>1, <3>2
      <4> HIDE DEF c, g
      <4>2. Through(g, c) = <<>>
        BY <4>1, ThroughNone
      <4> QED
        BY <4>2 DEF c
    <3> QED
      BY <2>3, <3>1, <3>3
  <2>5. e \in Seq(Seq(C)) /\ Len(e) = Len(h)
    <3>1. DOMAIN e = 1..Len(h) /\ \A i \in 1..Len(h) : e[i] \in Seq(C)
      BY <2>3, <2>4, EmptySeq
    <3>2. e \in [1..Len(h) -> Seq(C)]
      BY <3>1
    <3> HIDE DEF e
    <3> QED
      BY <2>3, <3>2
  <2>6. Flatten(e) = <<>>
    <3> HIDE DEF e
    <3> QED
      BY <2>4, <2>5, FlattenNone
  <2> QED
    BY <2>2, <2>6 DEF Through
<1>5. Through(g, m.calls) = m.calls
  <2>1. m.calls \in Seq(C) /\ \A j \in 1..Len(m.calls) : m.calls[j] \in C
    BY ElementOfSeq
  <2>2. \A j \in 1..Len(m.calls) : g[m.calls[j]] = <<m.calls[j]>>
    BY <2>1
  <2> HIDE DEF g
  <2> QED
    BY <2>1, <2>2, ThroughAll
<1> DEFINE w == <<m>>
<1>6. w \in Seq(M) /\ Len(w) = 1 /\ w[1] = m
  OBVIOUS
<1>7. Answered(h \o w) = A
  <2>1. Len(h \o w) = Len(h) + 1 /\ DOMAIN (h \o w) = 1..Len(h) + 1 /\ DOMAIN h = 1..Len(h) /\ Len(h) \in Nat
    BY <1>6, ConcatProperties, LenProperties
  <2>2. (h \o w)[Len(h) + 1] = m /\ \A i \in 1..Len(h) : (h \o w)[i] = h[i]
    BY <1>6, <2>1, ConcatProperties
  <2>3. Ids(m.results) = {}
    BY EmptySeq DEF Ids
  <2> HIDE DEF w
  <2>4. ASSUME NEW x PROVE x \in Answered(h \o w) <=> x \in Answered(h)
    BY <2>1, <2>2, <2>3 DEF Answered
  <2> QED
    BY <2>4
<1>8. Through(f, h \o w) = Through(f, h) \o m.calls
  <2>1. Through(f, w) = f[m]
    <3> HIDE DEF f
    <3> QED
      BY <1>1, ThroughOne
  <2>2. Through(f, h \o w) = Through(f, h) \o Through(f, w)
    <3> HIDE DEF f, w
    <3> QED
      BY <1>1, <1>6, ThroughConcat
  <2> QED
    BY <2>1, <2>2
<1>9. Through(g, Through(f, h) \o m.calls) = Through(g, Through(f, h)) \o Through(g, m.calls)
  <2>1. Through(f, h) \in Seq(C) /\ m.calls \in Seq(C)
    <3> HIDE DEF f
    <3> QED
      BY <1>1, ThroughType
  <2> HIDE DEF f, g
  <2> QED
    BY <1>1, <2>1, ThroughConcat
<1>10. h \o w \in Seq(M) /\ <<>> \o m.calls = m.calls
  BY <1>6, ConcatProperties, ConcatEmptySeq
<1> HIDE DEF f, g, w
<1>11. Unresolved(h) = <<>> /\ Unresolved(h \o w) = m.calls
  BY <1>3, <1>4, <1>5, <1>7, <1>8, <1>9, <1>10
<1> QED
  BY <1>11 DEF w

-----------------------------------------------------------------------------
(* The client reads what was written.                                      *)

\* Calls whose input is made of P.
CallsOf(I, N, P) == [id : I, name : N, input : Seq(P)]

\* The events of a response with calls in C and texts and inputs over Q.
Marks         == {"message_start", "block_stop", "message_stop", "done", "error"}
\* The events of a response with calls in C and texts of Q.
EventsOf(C, Q) ==
  [event : {"delta"}, at : Nat, body : Seq(Q)]
    \cup [event : {"block_start"}, at : Nat, body : Seq(C)]
    \cup [event : {"calls"}, at : {None}, body : Seq(C)]
    \cup [event : {"finish"}, at : {None}, body : {"end", "tools"}]
    \cup [event : Marks, at : Nat \cup {None}, body : {None}]

\* What Read makes of one event, for each of the things it reads.
InCalls(E)    == [e \in E |-> IF e.event = "calls" THEN e.body ELSE <<>>]
InBlock(E, n) == [e \in E |-> IF e.event = "delta" /\ e.at = n THEN e.body ELSE <<>>]
Opening(E)    == [e \in E |-> IF e.event = "block_start" /\ e.body # <<>> THEN <<e>> ELSE <<>>]
Ending(E)     == [e \in E |-> IF e.event = "finish" THEN <<e.body>> ELSE <<>>]

\* These are functions on the events.
LEMMA ReadersMap ==
  ASSUME NEW C, NEW Q, NEW n
  PROVE  /\ Maps(InCalls(EventsOf(C, Q)), EventsOf(C, Q), Seq(C))
         /\ Maps(InBlock(EventsOf(C, Q), n), EventsOf(C, Q), Seq(Q))
         /\ Maps(Opening(EventsOf(C, Q)), EventsOf(C, Q), Seq(EventsOf(C, Q)))
         /\ Maps(Ending(EventsOf(C, Q)), EventsOf(C, Q), Seq({"end", "tools"}))
<1> DEFINE E == EventsOf(C, Q)
<1>1. ASSUME NEW e \in E
      PROVE  /\ e.event = "calls" => e.body \in Seq(C)
             /\ e.event = "delta" => e.body \in Seq(Q)
             /\ e.event = "finish" => e.body \in {"end", "tools"}
  BY DEF EventsOf, Marks
<1> HIDE DEF E
<1>2. /\ \A e \in E : (IF e.event = "calls" THEN e.body ELSE <<>>) \in Seq(C)
      /\ \A e \in E : (IF e.event = "delta" /\ e.at = n THEN e.body ELSE <<>>) \in Seq(Q)
      /\ \A e \in E : (IF e.event = "block_start" /\ e.body # <<>> THEN <<e>> ELSE <<>>) \in Seq(E)
      /\ \A e \in E : (IF e.event = "finish" THEN <<e.body>> ELSE <<>>) \in Seq({"end", "tools"})
  <2>1. \A e \in E : (IF e.event = "calls" THEN e.body ELSE <<>>) \in Seq(C)
    BY <1>1, EmptySeq
  <2>2. \A e \in E : (IF e.event = "delta" /\ e.at = n THEN e.body ELSE <<>>) \in Seq(Q)
    BY <1>1, EmptySeq
  <2>3. \A e \in E : (IF e.event = "block_start" /\ e.body # <<>> THEN <<e>> ELSE <<>>) \in Seq(E)
    BY EmptySeq
  <2>4. ASSUME NEW e \in E PROVE (IF e.event = "finish" THEN <<e.body>> ELSE <<>>) \in Seq({"end", "tools"})
    <3>1. CASE e.event = "finish"
      <4>1. e.body \in {"end", "tools"}
        BY <1>1, <3>1
      <4> HIDE DEF E
      <4>2. <<e.body>> \in Seq({"end", "tools"})
        BY <4>1
      <4> QED
        BY <3>1, <4>2
    <3>2. CASE e.event # "finish"
      BY <3>2, EmptySeq
    <3> QED
      BY <3>1, <3>2
  <2> QED
    BY <2>1, <2>2, <2>3, <2>4
<1> QED
  BY <1>2 DEF Maps, InCalls, InBlock, Opening, Ending, E

\* Read puts together what it makes of each event.
LEMMA ReadIs ==
  ASSUME NEW C, NEW Q, NEW E, E = EventsOf(C, Q), NEW s \in Seq(E), NEW format
  PROVE  LET opened == Through(Opening(E), s)
         IN Read(format, s) =
              [text  |-> Through(InBlock(E, 0), s),
               calls |-> IF format = "openai" THEN Through(InCalls(E), s)
                         ELSE [i \in DOMAIN opened |->
                                 [opened[i].body[1] EXCEPT !.input = Through(InBlock(E, opened[i].at), s)]],
               ends  |-> Through(Ending(E), s)]
<1>1. \A i \in DOMAIN s : s[i] \in E
  BY LenProperties, ElementOfSeq
<1>2. Each(InCalls(E), s) = [i \in DOMAIN s |-> IF s[i].event = "calls" THEN s[i].body ELSE <<>>]
  BY <1>1 DEF Each, InCalls
<1>3. ASSUME NEW n
      PROVE  Through(InBlock(E, n), s) =
               Flatten([i \in DOMAIN s |-> IF s[i].event = "delta" /\ s[i].at = n THEN s[i].body ELSE <<>>])
  <2>1. Each(InBlock(E, n), s) =
          [i \in DOMAIN s |-> IF s[i].event = "delta" /\ s[i].at = n THEN s[i].body ELSE <<>>]
    BY <1>1 DEF Each, InBlock
  <2> QED
    BY <2>1 DEF Through
<1>4. Each(Opening(E), s) =
        [i \in DOMAIN s |-> IF s[i].event = "block_start" /\ s[i].body # <<>> THEN <<s[i]>> ELSE <<>>]
  BY <1>1 DEF Each, Opening
<1>5. Each(Ending(E), s) = [i \in DOMAIN s |-> IF s[i].event = "finish" THEN <<s[i].body>> ELSE <<>>]
  BY <1>1 DEF Each, Ending
<1>6. /\ Through(InCalls(E), s) = Flatten([i \in DOMAIN s |-> IF s[i].event = "calls" THEN s[i].body ELSE <<>>])
      /\ Through(Opening(E), s) =
           Flatten([i \in DOMAIN s |-> IF s[i].event = "block_start" /\ s[i].body # <<>> THEN <<s[i]>> ELSE <<>>])
      /\ Through(Ending(E), s) = Flatten([i \in DOMAIN s |-> IF s[i].event = "finish" THEN <<s[i].body>> ELSE <<>>])
  BY <1>2, <1>4, <1>5 DEF Through
<1> DEFINE opened == Flatten([i \in DOMAIN s |->
                       IF s[i].event = "block_start" /\ s[i].body # <<>> THEN <<s[i]>> ELSE <<>>])
           Block(n) == [i \in DOMAIN s |-> IF s[i].event = "delta" /\ s[i].at = n THEN s[i].body ELSE <<>>]
<1>7. Read(format, s) =
        [text  |-> Flatten(Block(0)),
         calls |-> IF format = "openai"
                   THEN Flatten([i \in DOMAIN s |-> IF s[i].event = "calls" THEN s[i].body ELSE <<>>])
                   ELSE [i \in DOMAIN opened |-> [opened[i].body[1] EXCEPT !.input = Flatten(Block(opened[i].at))]],
         ends  |-> Flatten([i \in DOMAIN s |-> IF s[i].event = "finish" THEN <<s[i].body>> ELSE <<>>])]
  BY DEF Read, Those
<1>8. \A n : Flatten(Block(n)) = Through(InBlock(E, n), s)
  BY <1>3
<1>9. opened = Through(Opening(E), s)
  BY <1>6
<1> HIDE DEF opened, Block
<1> QED
  BY <1>6, <1>7, <1>8, <1>9

\* Two entries through f.
LEMMA ThroughTwo ==
  ASSUME NEW E, NEW X, NEW f, Maps(f, E, Seq(X)), NEW a \in E, NEW b \in E
  PROVE  Through(f, <<a, b>>) = f[a] \o f[b]
<1> DEFINE v == <<a>>
           w == <<b>>
<1>0. v \in Seq(E) /\ w \in Seq(E)
  OBVIOUS
<1>1. v \o w = <<a, b>>
  <2>1. Append(v, b) = v \o w
    BY <1>0, AppendIsConcat
  <2> DEFINE p == <<a, b>>
  <2>2. p \in Seq(E) /\ Len(p) = 2 /\ p[1] = a /\ p[2] = b
    OBVIOUS
  <2>3. Len(v) = 1 /\ v[1] = a
    OBVIOUS
  <2>4. Append(v, b) \in Seq(E) /\ Len(Append(v, b)) = 2 /\ Append(v, b)[1] = a /\ Append(v, b)[2] = b
    <3> HIDE DEF v
    <3>1. Append(v, b) \in Seq(E) /\ Len(Append(v, b)) = Len(v) + 1 /\ Append(v, b)[Len(v) + 1] = b
      BY <1>0, AppendProperties
    <3>2. Append(v, b)[1] = v[1]
      BY <1>0, <2>3, AppendProperties, SMTT(30)
    <3> QED
      BY <2>3, <3>1, <3>2
  <2>5. Append(v, b) = p
    <3> HIDE DEF v, p
    <3>1. \A i \in 1..2 : i = 1 \/ i = 2
      OBVIOUS
    <3> QED
      BY <2>2, <2>4, <3>1, SeqEqual
  <2> QED
    BY <2>1, <2>5
<1>2. Through(f, v) = f[a] /\ Through(f, w) = f[b]
  BY ThroughOne
<1> HIDE DEF v, w
<1>3. Through(f, v \o w) = Through(f, v) \o Through(f, w)
  BY <1>0, ThroughConcat
<1> QED
  BY <1>1, <1>2, <1>3

\* Three entries, the last of which f makes nothing of.
LEMMA ThroughThree ==
  ASSUME NEW E, NEW X, NEW f, Maps(f, E, Seq(X)), NEW a \in E, NEW b \in E, NEW c \in E, f[c] = <<>>
  PROVE  Through(f, <<a, b, c>>) = Through(f, <<a, b>>)
<1> DEFINE v == <<a, b>>
           w == <<c>>
           p == <<a, b, c>>
<1>0. v \in Seq(E) /\ w \in Seq(E)
  OBVIOUS
<1>1. v \o w = p
  <2>1. Append(v, c) = v \o w
    BY <1>0, AppendIsConcat
  <2>2. p \in Seq(E) /\ Len(p) = 3 /\ p[1] = a /\ p[2] = b /\ p[3] = c
    OBVIOUS
  <2>3. Len(v) = 2 /\ v[1] = a /\ v[2] = b
    OBVIOUS
  <2>4. Append(v, c) \in Seq(E) /\ Len(Append(v, c)) = 3
        /\ Append(v, c)[1] = a /\ Append(v, c)[2] = b /\ Append(v, c)[3] = c
    <3> HIDE DEF v
    <3>1. Append(v, c) \in Seq(E) /\ Len(Append(v, c)) = Len(v) + 1 /\ Append(v, c)[Len(v) + 1] = c
      BY <1>0, AppendProperties
    <3>2. Append(v, c)[1] = v[1] /\ Append(v, c)[2] = v[2]
      <4>1. 1 \in 1..Len(v) /\ 2 \in 1..Len(v)
        BY <2>3
      <4>2. \A i \in 1..Len(v) : Append(v, c)[i] = v[i]
        BY <1>0, AppendProperties
      <4> QED
        BY <4>1, <4>2
    <3> QED
      BY <2>3, <3>1, <3>2
  <2>5. Append(v, c) = p
    <3> HIDE DEF v, p
    <3>1. \A i \in 1..3 : i = 1 \/ i = 2 \/ i = 3
      OBVIOUS
    <3> QED
      BY <2>2, <2>4, <3>1, SeqEqual
  <2> QED
    BY <2>1, <2>5
<1>2. Through(f, w) = f[c]
  BY ThroughOne
<1> HIDE DEF v, w, p
<1>3. Through(f, v \o w) = Through(f, v) \o Through(f, w)
  BY <1>0, ThroughConcat
<1>4. Through(f, v) \o <<>> = Through(f, v)
  BY <1>0, ThroughType, ConcatEmptySeq
<1> QED
  BY <1>1, <1>2, <1>3, <1>4 DEF p, v

\* A response, streamed or not.
Response(format, text, calls) == WriteStart(format) \o WriteDelta(format, text) \o WriteStop(format, calls)

\* The events of one call.
Triple(calls, i) == <<Event("block_start", i, <<[calls[i] EXCEPT !.input = <<>>]>>),
                      Event("delta", i, calls[i].input), Event("block_stop", i, None)>>

\* A call's events are events of the response.
LEMMA TriplesTyped ==
  ASSUME NEW I, NEW N, NEW Q, NEW calls \in Seq(CallsOf(I, N, Q))
  PROVE  [i \in DOMAIN calls |-> Triple(calls, i)] \in Seq(Seq(EventsOf(CallsOf(I, N, Q), Q)))
<1> DEFINE C == CallsOf(I, N, Q)
           E == EventsOf(C, Q)
<1>1. Len(calls) \in Nat /\ DOMAIN calls = 1..Len(calls)
  BY LenProperties
<1>2. ASSUME NEW i \in 1..Len(calls) PROVE Triple(calls, i) \in Seq(E)
  <2>1. calls[i] \in C
    BY ElementOfSeq
  <2>2. calls[i].input \in Seq(Q) /\ [calls[i] EXCEPT !.input = <<>>] \in C
    BY <2>1, EmptySeq DEF CallsOf
  <2>3. <<[calls[i] EXCEPT !.input = <<>>]>> \in Seq(C)
    <3> HIDE DEF C
    <3> QED
      BY <2>2
  <2> HIDE DEF C
  <2>4. /\ Event("block_start", i, <<[calls[i] EXCEPT !.input = <<>>]>>) \in E
        /\ Event("delta", i, calls[i].input) \in E /\ Event("block_stop", i, None) \in E
    BY <1>1, <2>2, <2>3 DEF Event, EventsOf, Marks
  <2> HIDE DEF E
  <2> QED
    BY <2>4 DEF Triple
<1> HIDE DEF E, C
<1>3. [i \in DOMAIN calls |-> Triple(calls, i)] \in [1..Len(calls) -> Seq(E)]
  BY <1>1, <1>2
<1> QED
  BY <1>1, <1>3 DEF E, C

\* The parts of a response are events.
LEMMA ResponseTyped ==
  ASSUME NEW I, NEW N, NEW Q, NEW calls \in Seq(CallsOf(I, N, Q)), NEW text \in Seq(Q), NEW format
  PROVE  /\ WriteStart(format) \in Seq(EventsOf(CallsOf(I, N, Q), Q))
         /\ WriteDelta(format, text) \in Seq(EventsOf(CallsOf(I, N, Q), Q))
         /\ WriteToolCalls(calls) \in Seq(EventsOf(CallsOf(I, N, Q), Q))
         /\ WriteStop(format, calls) \in Seq(EventsOf(CallsOf(I, N, Q), Q))
<1> DEFINE C == CallsOf(I, N, Q)
           E == EventsOf(C, Q)
<1>1. \A b \in Seq(Q) : Event("delta", 0, b) \in E
  BY DEF Event, EventsOf
<1>2. \A b \in Seq(C) : Event("block_start", 0, b) \in E /\ Event("calls", None, b) \in E
  BY DEF Event, EventsOf
<1>3. \A m \in Marks : Event(m, None, None) \in E /\ Event(m, 0, None) \in E
  BY DEF Event, EventsOf
<1>4. Event("finish", None, FinishReason(calls)) \in E
  BY DEF Event, EventsOf, FinishReason
<1>5. <<>> \in Seq(C) /\ <<>> \in Seq(E) /\ {"message_start", "message_stop", "done", "block_stop"} \subseteq Marks
  BY EmptySeq DEF Marks
<1>6. WriteToolCalls(calls) \in Seq(E)
  <2>1. WriteToolCalls(calls) = Flatten([i \in DOMAIN calls |-> Triple(calls, i)])
    BY DEF WriteToolCalls, Triple
  <2>2. [i \in DOMAIN calls |-> Triple(calls, i)] \in Seq(Seq(E))
    BY TriplesTyped
  <2> HIDE DEF E
  <2> QED
    BY <2>1, <2>2, FlattenType
<1>a. calls \in Seq(C)
  OBVIOUS
<1> HIDE DEF E, C
<1>7. WriteStart(format) \in Seq(E)
  <2>1. Event("message_start", None, None) \in E /\ Event("block_start", 0, <<>>) \in E
    BY <1>2, <1>3, <1>5
  <2>2. <<Event("message_start", None, None), Event("block_start", 0, <<>>)>> \in Seq(E)
    BY <2>1
  <2> QED
    BY <1>5, <2>2 DEF WriteStart
<1>8. WriteDelta(format, text) \in Seq(E)
  BY <1>1 DEF WriteDelta
<1>9. /\ <<Event("finish", None, FinishReason(calls)), Event("done", None, None)>> \in Seq(E)
      /\ <<Event("finish", None, FinishReason(calls)), Event("message_stop", None, None)>> \in Seq(E)
      /\ <<Event("calls", None, calls)>> \in Seq(E) /\ <<Event("block_stop", 0, None)>> \in Seq(E)
  BY <1>2, <1>3, <1>4, <1>5, <1>a
<1>10. WriteStop(format, calls) \in Seq(E)
  BY <1>5, <1>6, <1>9, ConcatProperties DEF WriteStop
<1> QED
  BY <1>6, <1>7, <1>8, <1>10 DEF E, C

\* A reader that passes over the marks of a response, and over a block that opens
\* empty, finds three things in it: the text, the calls, the end.
Quiet(f, E) == \A e \in E : e.event \in Marks \/ (e.event = "block_start" /\ e.body = <<>>) => f[e] = <<>>

\* What f makes of the events that carry the calls, and of a response's parts in turn.
Found(f, format, calls) == IF format # "openai" THEN Through(f, WriteToolCalls(calls))
                           ELSE IF calls = <<>> THEN <<>> ELSE f[Event("calls", None, calls)]
InTurn(a, b, c) == a \o (b \o c)

\* What is read of a response is read of its text, its calls and its end.
LEMMA ThroughResponse ==
  ASSUME NEW I, NEW N, NEW Q, NEW calls \in Seq(CallsOf(I, N, Q)), NEW text \in Seq(Q), NEW format,
         NEW X, NEW f, Maps(f, EventsOf(CallsOf(I, N, Q), Q), Seq(X)), Quiet(f, EventsOf(CallsOf(I, N, Q), Q))
  PROVE  Through(f, Response(format, text, calls)) =
           InTurn(f[Event("delta", 0, text)], Found(f, format, calls), f[Event("finish", None, FinishReason(calls))])
<1> DEFINE E == EventsOf(CallsOf(I, N, Q), Q)
           D == Event("delta", 0, text)
           F == Event("finish", None, FinishReason(calls))
           S == WriteStart(format)
           L == WriteDelta(format, text)
           W == WriteToolCalls(calls)
           T == WriteStop(format, calls)
<1>1. S \in Seq(E) /\ L \in Seq(E) /\ W \in Seq(E) /\ T \in Seq(E)
  BY ResponseTyped
<1>2. D \in E /\ F \in E
  BY DEF EventsOf, Event, FinishReason
<1>3. ASSUME NEW m \in Marks, NEW n \in {0, None} PROVE Event(m, n, None) \in E /\ f[Event(m, n, None)] = <<>>
  <2>1. Event(m, n, None) \in E /\ Event(m, n, None).event = m
    BY DEF EventsOf, Event
  <2> QED
    BY <2>1 DEF Quiet
<1>4. Event("block_start", 0, <<>>) \in E /\ f[Event("block_start", 0, <<>>)] = <<>>
  <2> DEFINE b == Event("block_start", 0, <<>>)
  <2>1. b \in E
    BY EmptySeq DEF EventsOf, Event
  <2>2. b.event = "block_start" /\ b.body = <<>>
    BY DEF Event
  <2> HIDE DEF b
  <2>3. f[b] = <<>>
    BY <2>1, <2>2, Zenon DEF Quiet
  <2> QED
    BY <2>1, <2>3 DEF b
<1>b. Maps(f, E, Seq(X))
  OBVIOUS
<1>c. Event("calls", None, calls) \in E
  BY DEF EventsOf, Event
<1> HIDE DEF E
<1>5. f[D] \in Seq(X) /\ f[F] \in Seq(X) /\ <<>> \in Seq(X)
  BY <1>2, <1>b, EmptySeq DEF Maps
<1>6. "message_start" \in Marks /\ "message_stop" \in Marks /\ "done" \in Marks /\ "block_stop" \in Marks
  BY DEF Marks
<1>7. \A q \in Seq(X) : <<>> \o q = q /\ q \o <<>> = q
  BY ConcatEmptySeq
<1>8. Through(f, S) = <<>>
  <2>1. CASE format = "openai"
    BY <2>1, ThroughEmpty DEF WriteStart
  <2>2. CASE format # "openai"
    <3> DEFINE a == Event("message_start", None, None)
               b == Event("block_start", 0, <<>>)
    <3>1. S = <<a, b>>
      BY <2>2 DEF WriteStart
    <3>2. a \in E /\ b \in E /\ f[a] = <<>> /\ f[b] = <<>>
      BY <1>3, <1>4, <1>6
    <3> HIDE DEF a, b, S
    <3>3. Through(f, <<a, b>>) = f[a] \o f[b]
      BY <3>2, <1>b, ThroughTwo, ZenonT(90)
    <3> QED
      BY <1>5, <1>7, <3>1, <3>2, <3>3
  <2> QED
    BY <2>1, <2>2
<1>9. Through(f, L) = f[D]
  <2>1. L = <<D>>
    BY DEF WriteDelta
  <2> HIDE DEF D, L
  <2> QED
    BY <1>2, <2>1, <1>b, ThroughOne
<1> DEFINE asked == IF format # "openai" THEN Through(f, W)
                    ELSE IF calls = <<>> THEN <<>> ELSE f[Event("calls", None, calls)]
           end   == <<F, Event("done", None, None)>>
           stop  == <<F, Event("message_stop", None, None)>>
<1>10. end \in Seq(E) /\ stop \in Seq(E) /\ Through(f, end) = f[F] /\ Through(f, stop) = f[F]
  <2> DEFINE a == Event("done", None, None)
             b == Event("message_stop", None, None)
  <2>1. a \in E /\ b \in E /\ f[a] = <<>> /\ f[b] = <<>>
    BY <1>3, <1>6
  <2>5. a \in E /\ b \in E
    BY <2>1
  <2> HIDE DEF a, b, F
  <2>2. <<F, a>> \in Seq(E) /\ <<F, b>> \in Seq(E)
    BY <1>2, <2>1
  <2>6. a \in E
    BY <2>5
  <2>7. b \in E
    BY <2>5
  <2>8. F \in E
    BY <1>2
  <2>3. Through(f, <<F, a>>) = f[F] \o f[a]
    BY <2>6, <2>8, <1>b, ThroughTwo, ZenonT(90)
  <2>4. Through(f, <<F, b>>) = f[F] \o f[b]
    BY <2>7, <2>8, <1>b, ThroughTwo, ZenonT(90)
  <2> QED
    BY <1>5, <1>7, <2>1, <2>2, <2>3, <2>4 DEF a, b
<1> HIDE DEF S, L, W, D, F, end, stop
<1>a. end \in Seq(E) /\ stop \in Seq(E)
  BY <1>10
<1>11. asked \in Seq(X) /\ Through(f, T) = asked \o f[F]
  <2>1. CASE format = "openai" /\ calls = <<>>
    <3>1. T = <<>> \o end
      BY <2>1 DEF WriteStop, end, F
    <3>2. <<>> \o end = end
      BY <1>10, ConcatEmptySeq
    <3> HIDE DEF T
    <3> QED
      BY <1>5, <1>7, <1>10, <2>1, <3>1, <3>2
  <2>2. CASE format = "openai" /\ calls # <<>>
    <3> DEFINE k == Event("calls", None, calls)
               s == <<k>>
    <3>1. T = s \o end
      BY <2>2 DEF WriteStop, end, F
    <3>2. k \in E
      BY <1>c
    <3> HIDE DEF k, T
    <3>3. s \in Seq(E)
      BY <3>2
    <3>4. Through(f, s) = f[k]
      BY <3>2, <1>b, ThroughOne
    <3> HIDE DEF s
    <3>5. Through(f, s \o end) = Through(f, s) \o Through(f, end)
      BY <1>a, <3>3, <1>b, ThroughConcat
    <3>6. f[k] \in Seq(X)
      BY <1>b, <3>2 DEF Maps
    <3> QED
      BY <1>10, <2>2, <3>1, <3>4, <3>5, <3>6 DEF k
  <2>3. CASE format # "openai"
    <3> DEFINE b == Event("block_stop", 0, None)
               s == <<b>>
    <3>1. T = (s \o W) \o stop
      BY <2>3 DEF WriteStop, stop, F, W
    <3>2. b \in E /\ f[b] = <<>>
      BY <1>3, <1>6
    <3> HIDE DEF b, T
    <3>3. s \in Seq(E) /\ Through(f, s) = <<>>
      BY <3>2, <1>b, ThroughOne
    <3>8. s \in Seq(E)
      BY <3>3
    <3> HIDE DEF s
    <3>9. W \in Seq(E)
      BY <1>1
    <3>4. Through(f, s \o W) = Through(f, s) \o Through(f, W)
      <4> HIDE DEF asked
      <4> QED
        BY <3>9, <3>8, <1>b, ThroughConcat
    <3> DEFINE o == s \o W
    <3>5. o \in Seq(E)
      BY <1>1, <3>3, ConcatProperties
    <3>6. Through(f, o \o stop) = Through(f, o) \o Through(f, stop)
      <4> HIDE DEF o
      <4> QED
        BY <1>a, <3>5, <1>b, ThroughConcat
    <3>7. Through(f, W) \in Seq(X)
      BY <1>1, <1>b, ThroughType
    <3> QED
      BY <1>7, <1>10, <2>3, <3>1, <3>3, <3>4, <3>6, <3>7
  <2> QED
    BY <2>1, <2>2, <2>3
<1> HIDE DEF asked, T
<1>12. Response(format, text, calls) = (S \o L) \o T
  BY DEF Response, S, L, T
<1>16. S \o L \in Seq(E)
  BY <1>1, ConcatProperties
<1>13. Through(f, S \o L) = Through(f, S) \o Through(f, L)
  BY <1>1, <1>b, ThroughConcat, SMTT(30)
<1>14. Through(f, (S \o L) \o T) = Through(f, S \o L) \o Through(f, T)
  <2> DEFINE o == S \o L
  <2>1. o \in Seq(E)
    BY <1>16
  <2> HIDE DEF o
  <2>3. T \in Seq(E)
    BY <1>1
  <2>2. Through(f, o \o T) = Through(f, o) \o Through(f, T)
    BY <2>1, <2>3, <1>b, ThroughConcat
  <2> QED
    BY <2>2 DEF o
<1>15. Through(f, (S \o L) \o T) = f[D] \o (asked \o f[F])
  BY <1>5, <1>7, <1>8, <1>9, <1>11, <1>13, <1>14
<1>17. Through(f, Response(format, text, calls)) = InTurn(f[D], asked, f[F])
  BY <1>12, <1>15 DEF InTurn
<1>18. asked = Found(f, format, calls)
  BY DEF asked, Found, W
<1> QED
  BY <1>17, <1>18 DEF D, F

\* What opens a call's block, and what fills it.
Opens(calls, i) == Event("block_start", i, <<[calls[i] EXCEPT !.input = <<>>]>>)
Fills(calls, i) == Event("delta", i, calls[i].input)

\* They are events.
LEMMA TripleParts ==
  ASSUME NEW I, NEW N, NEW Q, NEW calls \in Seq(CallsOf(I, N, Q)), NEW i \in 1..Len(calls)
  PROVE  /\ Opens(calls, i) \in EventsOf(CallsOf(I, N, Q), Q) /\ Fills(calls, i) \in EventsOf(CallsOf(I, N, Q), Q)
         /\ Event("block_stop", i, None) \in EventsOf(CallsOf(I, N, Q), Q) /\ i \in Nat /\ i # 0
<1> DEFINE C == CallsOf(I, N, Q)
<1>1. Len(calls) \in Nat /\ i \in Nat /\ i # 0 /\ calls[i] \in C
  BY LenProperties, ElementOfSeq
<1>2. calls[i].input \in Seq(Q) /\ [calls[i] EXCEPT !.input = <<>>] \in C
  BY <1>1, EmptySeq DEF CallsOf
<1> HIDE DEF C
<1>3. <<[calls[i] EXCEPT !.input = <<>>]>> \in Seq(C)
  BY <1>2
<1>4. /\ Opens(calls, i) \in EventsOf(C, Q) /\ Fills(calls, i) \in EventsOf(C, Q)
      /\ Event("block_stop", i, None) \in EventsOf(C, Q)
  BY <1>1, <1>2, <1>3 DEF Opens, Fills, Event, EventsOf, Marks
<1> QED
  BY <1>1, <1>4 DEF C

\* What f makes of the calls' events, when it makes nothing of the marks.
LEMMA ThroughCalls ==
  ASSUME NEW I, NEW N, NEW Q, NEW calls \in Seq(CallsOf(I, N, Q)), NEW X, NEW f,
         Maps(f, EventsOf(CallsOf(I, N, Q), Q), Seq(X)), Quiet(f, EventsOf(CallsOf(I, N, Q), Q))
  PROVE  Through(f, WriteToolCalls(calls)) =
           Flatten([i \in 1..Len(calls) |-> f[Opens(calls, i)] \o f[Fills(calls, i)]])
<1> DEFINE E == EventsOf(CallsOf(I, N, Q), Q)
           t == [i \in DOMAIN calls |-> Triple(calls, i)]
<1>1. t \in Seq(Seq(E))
  BY TriplesTyped
<1>2. Maps(f, E, Seq(X)) /\ DOMAIN calls = 1..Len(calls) /\ DOMAIN t = 1..Len(calls)
  BY LenProperties
<1>3. WriteToolCalls(calls) = Flatten(t)
  BY DEF WriteToolCalls, Triple
<1>4. ASSUME NEW i \in 1..Len(calls)
      PROVE  Through(f, t[i]) = f[Opens(calls, i)] \o f[Fills(calls, i)]
  <2> DEFINE a == Opens(calls, i)
             b == Fills(calls, i)
             c == Event("block_stop", i, None)
  <2>1. t[i] = <<a, b, c>>
    BY <1>2 DEF Triple, Opens, Fills
  <2>2. a \in E
    BY TripleParts
  <2>3. b \in E
    BY TripleParts
  <2>4. c \in E
    BY TripleParts
  <2>5. c.event \in Marks
    BY DEF Event, Marks
  <2>6. f[c] = <<>>
    <3> HIDE DEF c
    <3> QED
      BY <2>4, <2>5, Zenon DEF Quiet
  <2> HIDE DEF a, b, c, E, t
  <2>b. Maps(f, E, Seq(X))
    BY <1>2
  <2>7. Through(f, <<a, b, c>>) = f[a] \o f[b]
    <3>1. Through(f, <<a, b, c>>) = Through(f, <<a, b>>)
      BY <2>b, <2>2, <2>3, <2>4, <2>6, ThroughThree
    <3>2. Through(f, <<a, b>>) = f[a] \o f[b]
      BY <2>b, <2>2, <2>3, ThroughTwo, ZenonT(60)
    <3> QED
      BY <3>1, <3>2
  <2> QED
    BY <2>1, <2>7 DEF a, b
<1> HIDE DEF E, t
<1>b. Maps(f, E, Seq(X))
  BY <1>2
<1>5. Through(f, Flatten(t)) = Flatten([i \in DOMAIN t |-> Through(f, t[i])])
  BY <1>b, <1>1, ThroughFlatten
<1>6. [i \in DOMAIN t |-> Through(f, t[i])] = [i \in 1..Len(calls) |-> f[Opens(calls, i)] \o f[Fills(calls, i)]]
  BY <1>2, <1>4
<1> QED
  BY <1>3, <1>5, <1>6

\* Entries by themselves, put together again.
LEMMA FlattenSingles ==
  ASSUME NEW X, NEW s \in Seq(X)
  PROVE  Flatten([i \in 1..Len(s) |-> <<s[i]>>]) = s
<1> DEFINE f == [x \in X |-> <<x>>]
<1>1. DOMAIN s = 1..Len(s) /\ \A i \in 1..Len(s) : s[i] \in X
  BY LenProperties, ElementOfSeq
<1>2. \A i \in 1..Len(s) : f[s[i]] = <<s[i]>>
  BY <1>1
<1>3. Each(f, s) = [i \in 1..Len(s) |-> <<s[i]>>]
  BY <1>1 DEF Each
<1> HIDE DEF f
<1>4. Through(f, s) = s
  BY <1>2, ThroughAll
<1> QED
  BY <1>3, <1>4 DEF Through

\* The readers make nothing of the marks.
LEMMA ReadersQuiet ==
  ASSUME NEW E, NEW n
  PROVE  /\ Quiet(InCalls(E), E) /\ Quiet(InBlock(E, n), E) /\ Quiet(Opening(E), E) /\ Quiet(Ending(E), E)
<1>1. \A e \in E : e.event \in Marks \/ (e.event = "block_start" /\ e.body = <<>>) =>
        /\ e.event # "calls" /\ e.event # "delta" /\ e.event # "finish"
        /\ ~(e.event = "block_start" /\ e.body # <<>>)
  BY DEF Marks
<1> QED
  BY <1>1 DEF Quiet, InCalls, InBlock, Opening, Ending

\* What a client reads in a response is what was written into it, in either format:
\* the text, every call with its whole input, in order, and one end that says
\* whether there are calls to run.
LEMMA ReadBack ==
  ASSUME NEW I, NEW N, NEW Q, NEW calls \in Seq(CallsOf(I, N, Q)), NEW text \in Seq(Q), NEW format
  PROVE  /\ Read(format, Response(format, text, calls)).text = text
         /\ Read(format, Response(format, text, calls)).calls = calls
         /\ Read(format, Response(format, text, calls)).ends = <<FinishReason(calls)>>
<1> DEFINE C == CallsOf(I, N, Q)
           E == EventsOf(C, Q)
           D == Event("delta", 0, text)
           F == Event("finish", None, FinishReason(calls))
           K == Event("calls", None, calls)
           r == Response(format, text, calls)
           W == WriteToolCalls(calls)
           Asked(f) == IF format # "openai" THEN Through(f, W) ELSE IF calls = <<>> THEN <<>> ELSE f[K]
<1>1. r \in Seq(E)
  <2> DEFINE S == WriteStart(format)
             L == WriteDelta(format, text)
             T == WriteStop(format, calls)
  <2>1. S \in Seq(E) /\ L \in Seq(E) /\ T \in Seq(E)
    BY ResponseTyped
  <2> HIDE DEF S, L, T, E
  <2>2. (S \o L) \o T \in Seq(E)
    BY <2>1, ConcatProperties
  <2> QED
    BY <2>2 DEF Response, S, L, T
<1>2. /\ D \in E /\ D.event = "delta" /\ D.at = 0 /\ D.body = text
      /\ F \in E /\ F.event = "finish" /\ F.body = FinishReason(calls)
      /\ K \in E /\ K.event = "calls" /\ K.body = calls
  BY DEF EventsOf, Event, FinishReason
<1>3. ASSUME NEW i \in 1..Len(calls)
      PROVE  /\ Opens(calls, i) \in E /\ Opens(calls, i).event = "block_start" /\ Opens(calls, i).at = i
             /\ Opens(calls, i).body = <<[calls[i] EXCEPT !.input = <<>>]>>
             /\ Fills(calls, i) \in E /\ Fills(calls, i).event = "delta" /\ Fills(calls, i).at = i
             /\ Fills(calls, i).body = calls[i].input /\ i # 0 /\ i \in Nat
             /\ Opens(calls, i).body # <<>>
  <2>1. <<[calls[i] EXCEPT !.input = <<>>]>> # <<>>
    OBVIOUS
  <2> QED
    BY <2>1, TripleParts DEF Opens, Fills, Event
<1>4. ASSUME NEW X, NEW f, Maps(f, E, Seq(X)), Quiet(f, E)
      PROVE  /\ Through(f, r) = f[D] \o (Asked(f) \o f[F])
             /\ Through(f, W) = Flatten([i \in 1..Len(calls) |-> f[Opens(calls, i)] \o f[Fills(calls, i)]])
  <2>1. Through(f, r) = f[D] \o (Asked(f) \o f[F])
    <3>1. Through(f, r) = InTurn(f[D], Found(f, format, calls), f[F])
      BY <1>4, ThroughResponse
    <3>2. Found(f, format, calls) = Asked(f)
      BY DEF Found
    <3> QED
      BY <3>1, <3>2 DEF InTurn
  <2>2. Through(f, W) = Flatten([i \in 1..Len(calls) |-> f[Opens(calls, i)] \o f[Fills(calls, i)]])
    BY <1>4, ThroughCalls, ZenonT(40)
  <2> QED
    BY <2>1, <2>2
<1>5. /\ Len(calls) \in Nat /\ \A i \in 1..Len(calls) : calls[i] \in C /\ calls[i].input \in Seq(Q)
      /\ calls \in Seq(C)
  <2>1. \A i \in 1..Len(calls) : calls[i] \in C
    BY ElementOfSeq
  <2> QED
    BY <2>1, LenProperties DEF CallsOf
<1> HIDE DEF E, C, D, F, K, r, W
<1>6. ASSUME NEW n
      PROVE  /\ Maps(InCalls(E), E, Seq(C)) /\ Maps(InBlock(E, n), E, Seq(Q))
             /\ Maps(Opening(E), E, Seq(E)) /\ Maps(Ending(E), E, Seq({"end", "tools"}))
  BY ReadersMap DEF E
<1>7. ASSUME NEW e \in E
      PROVE  /\ InCalls(E)[e] = (IF e.event = "calls" THEN e.body ELSE <<>>)
             /\ Opening(E)[e] = (IF e.event = "block_start" /\ e.body # <<>> THEN <<e>> ELSE <<>>)
             /\ Ending(E)[e] = (IF e.event = "finish" THEN <<e.body>> ELSE <<>>)
             /\ \A n : InBlock(E, n)[e] = (IF e.event = "delta" /\ e.at = n THEN e.body ELSE <<>>)
  BY DEF InCalls, InBlock, Opening, Ending
<1>e. ASSUME NEW X, NEW s \in Seq(X) PROVE <<>> \o s = s /\ s \o <<>> = s
  BY ConcatEmptySeq
<1>n. <<>> \o <<>> = <<>>
  BY ConcatEmptySeq, EmptySeq
\* Blocks in which nothing is found.
<1>8. ASSUME NEW g, \A i \in 1..Len(calls) : g[i] = <<>>, g \in [1..Len(calls) -> Seq(E)]
      PROVE  Flatten(g) = <<>>
  <2>1. Len(g) = Len(calls) /\ g \in Seq(Seq(E))
    BY <1>5, <1>8
  <2> QED
    BY <1>8, <2>1, FlattenNone
<1>9. Through(InBlock(E, 0), r) = text
  <2> DEFINE f == InBlock(E, 0)
             g == [i \in 1..Len(calls) |-> f[Opens(calls, i)] \o f[Fills(calls, i)]]
  <2>1. f[D] = text /\ f[F] = <<>> /\ f[K] = <<>>
    BY <1>2, <1>7
  <2>2. ASSUME NEW i \in 1..Len(calls) PROVE g[i] = <<>>
    <3>1. Opens(calls, i) \in E /\ Opens(calls, i).event # "delta"
      BY <1>3
    <3>2. Fills(calls, i) \in E /\ Fills(calls, i).at # 0
      BY <1>3
    <3>3. f[Opens(calls, i)] = <<>>
      BY <1>7, <3>1
    <3>4. f[Fills(calls, i)] = <<>>
      BY <1>7, <3>2
    <3> QED
      BY <1>n, <3>3, <3>4
  <2>3. g \in [1..Len(calls) -> Seq(E)]
    BY <2>2, EmptySeq
  <2>4. Through(f, r) = f[D] \o (Asked(f) \o f[F]) /\ Through(f, W) = Flatten(g)
    BY <1>4, <1>6, ReadersQuiet
  <2>5. Flatten(g) = <<>>
    <3> HIDE DEF g
    <3> QED
      BY <1>8, <2>2, <2>3
  <2>6. Asked(f) = <<>>
    BY <2>1, <2>4, <2>5
  <2> HIDE DEF Asked
  <2> QED
    BY <1>e, <1>n, <2>1, <2>4, <2>6
<1>10. Through(Ending(E), r) = <<FinishReason(calls)>>
  <2> DEFINE f == Ending(E)
             g == [i \in 1..Len(calls) |-> f[Opens(calls, i)] \o f[Fills(calls, i)]]
             z == <<FinishReason(calls)>>
  <2>1. f[D] = <<>> /\ f[F] = z /\ f[K] = <<>>
    BY <1>2, <1>7
  <2>2. ASSUME NEW i \in 1..Len(calls) PROVE g[i] = <<>>
    <3>1. Opens(calls, i) \in E /\ Opens(calls, i).event # "finish"
      BY <1>3
    <3>2. Fills(calls, i) \in E /\ Fills(calls, i).event # "finish"
      BY <1>3
    <3>3. f[Opens(calls, i)] = <<>>
      BY <1>7, <3>1
    <3>4. f[Fills(calls, i)] = <<>>
      BY <1>7, <3>2
    <3> QED
      BY <1>n, <3>3, <3>4
  <2>3. g \in [1..Len(calls) -> Seq(E)]
    BY <2>2, EmptySeq
  <2>4. Through(f, r) = f[D] \o (Asked(f) \o f[F]) /\ Through(f, W) = Flatten(g)
    BY <1>4, <1>6, ReadersQuiet
  <2>5. Flatten(g) = <<>>
    <3> HIDE DEF g
    <3> QED
      BY <1>8, <2>2, <2>3
  <2>6. Asked(f) = <<>>
    BY <2>1, <2>4, <2>5
  <2>7. z \in Seq({FinishReason(calls)})
    OBVIOUS
  <2>8. <<>> \o z = z
    <3> HIDE DEF z
    <3> QED
      BY <1>e, <2>7
  <2> HIDE DEF Asked, z
  <2>9. Through(f, r) = <<>> \o (<<>> \o z)
    BY <2>1, <2>4, <2>6
  <2> QED
    BY <2>8, <2>9 DEF z

<1>11. ASSUME format = "openai" PROVE Through(InCalls(E), r) = calls
  <2> DEFINE f == InCalls(E)
  <2>1. f[D] = <<>> /\ f[F] = <<>> /\ f[K] = calls
    BY <1>2, <1>7
  <2>2. Through(f, r) = f[D] \o (Asked(f) \o f[F])
    BY <1>4, <1>6, ReadersQuiet
  <2>3. Asked(f) = calls
    BY <1>11, <2>1
  <2> HIDE DEF Asked, f
  <2>4. calls \o <<>> = calls /\ <<>> \o calls = calls
    BY <1>5, <1>e
  <2> QED
    BY <2>1, <2>2, <2>3, <2>4 DEF f
<1> DEFINE o == [i \in 1..Len(calls) |-> Opens(calls, i)]
<1>12. ASSUME format # "openai" PROVE Through(Opening(E), r) = o
  <2> DEFINE f == Opening(E)
             g == [i \in 1..Len(calls) |-> f[Opens(calls, i)] \o f[Fills(calls, i)]]
  <2>1. f[D] = <<>> /\ f[F] = <<>>
    BY <1>2, <1>7
  <2>2. o \in Seq(E) /\ Len(o) = Len(calls)
    <3>1. o \in [1..Len(calls) -> E]
      BY <1>3
    <3> QED
      BY <1>5, <3>1
  <2>3. ASSUME NEW i \in 1..Len(calls) PROVE g[i] = <<o[i]>>
    <3> DEFINE b == Opens(calls, i)
               w == <<b>>
    <3>1. b \in E /\ f[Fills(calls, i)] = <<>>
      BY <1>3, <1>7
    <3>2. b.event = "block_start" /\ b.body # <<>>
      BY <1>3
    <3>3. f[b] = w
      <4> HIDE DEF b
      <4> QED
        BY <1>7, <3>1, <3>2
    <3>4. w \in Seq(E)
      <4> HIDE DEF b
      <4> QED
        BY <3>1
    <3>5. w \o <<>> = w
      <4> HIDE DEF w
      <4> QED
        BY <1>e, <3>4
    <3>6. g[i] = f[b] \o f[Fills(calls, i)]
      OBVIOUS
    <3> HIDE DEF f, g
    <3> QED
      BY <3>1, <3>3, <3>5, <3>6
  <2>4. g = [i \in 1..Len(o) |-> <<o[i]>>]
    BY <2>2, <2>3
  <2>5. Flatten(g) = o
    <3> HIDE DEF g, o
    <3> QED
      BY <2>2, <2>4, FlattenSingles
  <2>6. Through(f, r) = f[D] \o (Asked(f) \o f[F]) /\ Through(f, W) = Flatten(g)
    BY <1>4, <1>6, ReadersQuiet
  <2>7. Asked(f) = o
    BY <1>12, <2>5, <2>6
  <2> HIDE DEF Asked, f, o, g
  <2>8. o \o <<>> = o /\ <<>> \o o = o
    BY <1>e, <2>2
  <2> QED
    BY <2>1, <2>6, <2>7, <2>8 DEF f
<1>13. ASSUME format # "openai", NEW n \in 1..Len(calls) PROVE Through(InBlock(E, n), r) = calls[n].input
  <2> DEFINE f == InBlock(E, n)
             g == [i \in 1..Len(calls) |-> f[Opens(calls, i)] \o f[Fills(calls, i)]]
  <2>1. f[D] = <<>> /\ f[F] = <<>>
    <3>1. D.at # n /\ F.event # "delta"
      BY <1>2, <1>3
    <3> QED
      BY <1>2, <1>7, <3>1
  <2>2. ASSUME NEW i \in 1..Len(calls) PROVE g[i] = IF i = n THEN calls[i].input ELSE <<>>
    <3>1. f[Opens(calls, i)] = <<>> /\ f[Fills(calls, i)] = IF i = n THEN calls[i].input ELSE <<>>
      <4>1. Opens(calls, i) \in E /\ Opens(calls, i).event # "delta"
        BY <1>3
      <4>2. /\ Fills(calls, i) \in E /\ Fills(calls, i).event = "delta" /\ Fills(calls, i).at = i
            /\ Fills(calls, i).body = calls[i].input
        BY <1>3
      <4>3. f[Opens(calls, i)] = <<>>
        BY <1>7, <4>1
      <4>4. f[Fills(calls, i)] = IF i = n THEN calls[i].input ELSE <<>>
        BY <1>7, <4>2, ZenonT(40)
      <4> QED
        BY <4>3, <4>4
    <3>2. <<>> \o calls[i].input = calls[i].input
      BY <1>5, <1>e
    <3> QED
      BY <1>n, <3>1, <3>2
  <2>3. g \in Seq(Seq(Q)) /\ Len(g) = Len(calls)
    <3>1. \A i \in 1..Len(calls) : g[i] \in Seq(Q)
      BY <1>5, <2>2, EmptySeq
    <3>2. g \in [1..Len(calls) -> Seq(Q)]
      BY <3>1
    <3> HIDE DEF g
    <3> QED
      BY <1>5, <3>2
  <2>5. Flatten(g) = calls[n].input
    <3> HIDE DEF g
    <3> QED
      BY <2>2, <2>3, FlattenOnly
  <2>6. Through(f, r) = f[D] \o (Asked(f) \o f[F]) /\ Through(f, W) = Flatten(g)
    BY <1>4, <1>6, ReadersQuiet
  <2>7. Asked(f) = calls[n].input
    BY <1>13, <2>5, <2>6
  <2> HIDE DEF Asked, f, g
  <2>8. calls[n].input \o <<>> = calls[n].input /\ <<>> \o calls[n].input = calls[n].input
    BY <1>5, <1>e
  <2> QED
    BY <2>1, <2>6, <2>7, <2>8 DEF f
<1> DEFINE opened == Through(Opening(E), r)
           back   == [i \in DOMAIN opened |->
                        [opened[i].body[1] EXCEPT !.input = Through(InBlock(E, opened[i].at), r)]]
<1>14. Read(format, r) = [text |-> Through(InBlock(E, 0), r),
                          calls |-> IF format = "openai" THEN Through(InCalls(E), r) ELSE back,
                          ends |-> Through(Ending(E), r)]
  BY <1>1, ReadIs DEF E
<1>15. ASSUME format # "openai" PROVE back = calls
  <2>1. opened = o
    BY <1>12, <1>15
  <2>2. ASSUME NEW i \in 1..Len(calls)
        PROVE  [o[i].body[1] EXCEPT !.input = Through(InBlock(E, o[i].at), r)] = calls[i]
    <3>1. o[i].at = i /\ o[i].body[1] = [calls[i] EXCEPT !.input = <<>>]
      BY <1>3
    <3>2. Through(InBlock(E, i), r) = calls[i].input
      BY <1>13, <1>15
    <3>3. calls[i] = [id |-> calls[i].id, name |-> calls[i].name, input |-> calls[i].input]
      BY <1>5 DEF CallsOf, C
    <3> HIDE DEF o
    <3> QED
      BY <3>1, <3>2, <3>3
  <2>3. back = [i \in 1..Len(calls) |-> calls[i]]
    BY <2>1, <2>2
  <2>4. calls = [i \in 1..Len(calls) |-> calls[i]]
    BY LenProperties
  <2> QED
    BY <2>3, <2>4
<1> HIDE DEF back, o
<1>16. /\ Read(format, r).text = text /\ Read(format, r).calls = calls
       /\ Read(format, r).ends = <<FinishReason(calls)>>
  BY <1>9, <1>10, <1>11, <1>14, <1>15
<1> QED
  BY <1>16 DEF r

-----------------------------------------------------------------------------
(* Sequences along which something is opened and closed again.  T is the   *)
(* steps that are allowed: what is open, the next entry, what is open then. *)

\* Along s, L goes by steps of T from x to y.
Trail(T, s, x, y, L) == /\ L[0] = x /\ L[Len(s)] = y
                        /\ \A n \in 1..Len(s) : <<L[n - 1], s[n], L[n]>> \in T
\* There is a way along s from x to y.
Runs(T, s, x, y) == \E L : Trail(T, s, x, y, L)

\* Nothing leads nowhere,
LEMMA RunsEmpty ==
  ASSUME NEW T, NEW x
  PROVE  Runs(T, <<>>, x, x)
<1> DEFINE L == [n \in {0} |-> x]
<1>1. Len(<<>>) = 0
  BY EmptySeq
<1>2. L[0] = x /\ \A n \in 1..0 : FALSE
  OBVIOUS
<1> HIDE DEF L
<1>3. Trail(T, <<>>, x, x, L)
  BY <1>1, <1>2 DEF Trail
<1> QED
  BY <1>3 DEF Runs

\* an entry as far as its step,
LEMMA RunsOne ==
  ASSUME NEW T, NEW x, NEW e, NEW y, <<x, e, y>> \in T
  PROVE  Runs(T, <<e>>, x, y)
<1> DEFINE L == [n \in {0, 1} |-> IF n = 0 THEN x ELSE y]
           s == <<e>>
<1>1. Len(s) = 1 /\ s[1] = e
  OBVIOUS
<1>2. L[0] = x /\ L[1] = y
  OBVIOUS
<1>3. \A n \in 1..1 : n = 1 /\ n - 1 = 0
  OBVIOUS
<1> HIDE DEF L, s
<1>4. Trail(T, s, x, y, L)
  BY <1>1, <1>2, <1>3 DEF Trail
<1>5. Runs(T, s, x, y)
  BY <1>4 DEF Runs
<1> QED
  BY <1>5 DEF s

\* one way and then another as far as the second,
LEMMA RunsConcat ==
  ASSUME NEW E, NEW T, NEW x, NEW y, NEW z, NEW a \in Seq(E), NEW b \in Seq(E), Runs(T, a, x, y), Runs(T, b, y, z)
  PROVE  Runs(T, a \o b, x, z)
<1>1. PICK A : Trail(T, a, x, y, A)
  BY DEF Runs
<1>2. PICK B : Trail(T, b, y, z, B)
  BY DEF Runs
<1> DEFINE N == Len(a)
           M == Len(b)
           L == [n \in 0..N + M |-> IF n <= N THEN A[n] ELSE B[n - N]]
<1>3. N \in Nat /\ M \in Nat
  BY LenProperties
<1>4. Len(a \o b) = N + M
  BY ConcatProperties
<1>5. A[0] = x /\ A[N] = y /\ \A n \in 1..N : <<A[n - 1], a[n], A[n]>> \in T
  BY <1>1 DEF Trail
<1>6. B[0] = y /\ B[M] = z /\ \A n \in 1..M : <<B[n - 1], b[n], B[n]>> \in T
  BY <1>2 DEF Trail
<1>7. \A n \in 1..N + M : (a \o b)[n] = IF n <= N THEN a[n] ELSE b[n - N]
  BY ConcatProperties
<1>8. L[0] = x
  BY <1>3, <1>5
<1>9. L[N + M] = z
  <2>1. CASE M = 0
    BY <1>3, <1>5, <1>6, <2>1
  <2>2. CASE M # 0
    <3>1. N + M \in 0..N + M /\ ~(N + M <= N) /\ (N + M) - N = M
      BY <1>3, <2>2
    <3> QED
      BY <1>6, <3>1
  <2> QED
    BY <2>1, <2>2
<1>10. ASSUME NEW n \in 1..N + M PROVE <<L[n - 1], (a \o b)[n], L[n]>> \in T
  <2>1. CASE n <= N
    <3>1. n \in 1..N /\ n \in 0..N + M /\ n - 1 \in 0..N + M /\ n - 1 <= N
      BY <1>3, <2>1
    <3>2. L[n - 1] = A[n - 1] /\ L[n] = A[n] /\ (a \o b)[n] = a[n]
      BY <1>7, <2>1, <3>1
    <3> QED
      BY <1>5, <3>1, <3>2
  <2>2. CASE n = N + 1
    <3>1. n - 1 = N /\ n - N = 1 /\ ~(n <= N) /\ 1 \in 1..M /\ 1 - 1 = 0 /\ N \in 0..N + M /\ n \in 0..N + M
      BY <1>3, <2>2
    <3>2. L[n - 1] = y /\ L[n] = B[1] /\ (a \o b)[n] = b[1]
      BY <1>3, <1>5, <1>7, <3>1
    <3> QED
      BY <1>6, <3>1, <3>2
  <2>3. CASE n > N + 1
    <3>1. /\ n - N \in 1..M /\ ~(n <= N) /\ ~(n - 1 <= N) /\ (n - 1) - N = (n - N) - 1
          /\ n \in 0..N + M /\ n - 1 \in 0..N + M
      BY <1>3, <2>3
    <3>2. L[n - 1] = B[(n - N) - 1] /\ L[n] = B[n - N] /\ (a \o b)[n] = b[n - N]
      BY <1>7, <3>1
    <3> QED
      BY <1>6, <3>1, <3>2
  <2>4. n <= N \/ n = N + 1 \/ n > N + 1
    BY <1>3
  <2> QED
    BY <2>1, <2>2, <2>3, <2>4
<1> HIDE DEF L, N, M
<1>11. Trail(T, a \o b, x, z, L)
  BY <1>4, <1>8, <1>9, <1>10 DEF Trail
<1> QED
  BY <1>11 DEF Runs

\* and ways that come back, one after the other, come back.
LEMMA RunsFlatten ==
  ASSUME NEW E, NEW T, NEW x, NEW t \in Seq(Seq(E)), \A i \in 1..Len(t) : Runs(T, t[i], x, x)
  PROVE  Runs(T, Flatten(t), x, x)
<1> DEFINE P == {u \in Seq(Seq(E)) : (\A i \in 1..Len(u) : Runs(T, u[i], x, x)) => Runs(T, Flatten(u), x, x)}
<1>1. <<>> \in P
  BY RunsEmpty, FlattenEmpty, EmptySeq
<1>2. ASSUME NEW u \in Seq(Seq(E)), NEW e \in Seq(E), u \in P PROVE Append(u, e) \in P
  <2>1. /\ Append(u, e) \in Seq(Seq(E)) /\ Len(u) \in Nat /\ Len(Append(u, e)) = Len(u) + 1
        /\ Append(u, e)[Len(u) + 1] = e /\ \A i \in 1..Len(u) : Append(u, e)[i] = u[i]
    BY AppendProperties, LenProperties
  <2> SUFFICES ASSUME \A i \in 1..Len(u) + 1 : Runs(T, Append(u, e)[i], x, x) PROVE Runs(T, Flatten(Append(u, e)), x, x)
    BY <2>1
  <2>2. Flatten(Append(u, e)) = Flatten(u) \o e /\ Flatten(u) \in Seq(E)
    BY FlattenAppend, FlattenType
  <2>3. Runs(T, e, x, x)
    <3>1. Len(u) + 1 \in 1..Len(u) + 1
      BY <2>1
    <3>2. Runs(T, Append(u, e)[Len(u) + 1], x, x)
      BY <3>1
    <3> QED
      BY <2>1, <3>2
  <2>4. \A i \in 1..Len(u) : Runs(T, u[i], x, x)
    <3> SUFFICES ASSUME NEW i \in 1..Len(u) PROVE Runs(T, u[i], x, x)
      OBVIOUS
    <3>1. i \in 1..Len(u) + 1
      BY <2>1
    <3>2. Runs(T, Append(u, e)[i], x, x)
      BY <3>1
    <3> QED
      BY <2>1, <3>2
  <2>5. Runs(T, Flatten(u), x, x)
    BY <1>2, <2>4
  <2>6. Runs(T, Flatten(u) \o e, x, x)
    BY <2>2, <2>3, <2>5, RunsConcat
  <2> QED
    BY <2>2, <2>6
<1> HIDE DEF P
<1>3. t \in P
  BY <1>1, <1>2, SeqInduction
<1> QED
  BY <1>3 DEF P

-----------------------------------------------------------------------------
(* The events of a name.                                                   *)

\* The events of a name, as Of picks them.
Picks(E, name) == [e \in E |-> IF e.event = name THEN <<e>> ELSE <<>>]

\* A function on the events;
LEMMA PicksMap ==
  ASSUME NEW E, NEW name
  PROVE  Maps(Picks(E, name), E, Seq(E))
<1>1. \A e \in E : <<e>> \in Seq(E) /\ <<>> \in Seq(E)
  BY EmptySeq
<1> QED
  BY <1>1 DEF Maps, Picks

\* Of is what it makes of them.
LEMMA OfIs ==
  ASSUME NEW E, NEW s \in Seq(E), NEW name
  PROVE  Of(s, name) = Through(Picks(E, name), s)
<1>1. \A i \in DOMAIN s : s[i] \in E
  BY LenProperties, ElementOfSeq
<1>2. Each(Picks(E, name), s) = [i \in DOMAIN s |-> IF s[i].event = name THEN <<s[i]>> ELSE <<>>]
  BY <1>1 DEF Each, Picks
<1> QED
  BY <1>2 DEF Of, Those, Through

\* Of the two halves.
Splits(a, b, name) == Of(a \o b, name) = Of(a, name) \o Of(b, name)

\* Of goes half by half;
LEMMA OfConcat ==
  ASSUME NEW E, NEW name, NEW a \in Seq(E), NEW b \in Seq(E)
  PROVE  Splits(a, b, name)
<1>1. a \o b \in Seq(E)
  BY ConcatProperties
<1>2. Through(Picks(E, name), a \o b) = Through(Picks(E, name), a) \o Through(Picks(E, name), b)
  BY PicksMap, ThroughConcat
<1> DEFINE s == a \o b
<1>3. Of(s, name) = Through(Picks(E, name), s)
  <2> HIDE DEF s
  <2> QED
    BY <1>1, OfIs DEF s
<1>4. Of(a, name) = Through(Picks(E, name), a) /\ Of(b, name) = Through(Picks(E, name), b)
  BY OfIs
<1> QED
  BY <1>2, <1>3, <1>4 DEF Splits

\* it finds nothing where the name does not occur,
LEMMA OfNone ==
  ASSUME NEW E, NEW s \in Seq(E), NEW name, \A i \in 1..Len(s) : s[i].event # name
  PROVE  Of(s, name) = <<>>
<1>1. Len(s) \in Nat /\ DOMAIN s = 1..Len(s) /\ \A i \in 1..Len(s) : s[i] \in E
  BY LenProperties, ElementOfSeq
<1>2. Each(Picks(E, name), s) \in Seq(Seq(E)) /\ Len(Each(Picks(E, name), s)) = Len(s)
  BY PicksMap, EachType, EachLen
<1>3. \A i \in 1..Len(s) : Each(Picks(E, name), s)[i] = <<>>
  BY <1>1 DEF Each, Picks
<1>4. Flatten(Each(Picks(E, name), s)) = <<>>
  BY <1>2, <1>3, FlattenNone
<1> QED
  BY <1>4, OfIs DEF Through

\* and one event alone.
LEMMA OfOne ==
  ASSUME NEW E, NEW e \in E, NEW name
  PROVE  Of(<<e>>, name) = IF e.event = name THEN <<e>> ELSE <<>>
<1> DEFINE w == <<e>>
<1>1. w \in Seq(E)
  OBVIOUS
<1>2. Through(Picks(E, name), w) = Picks(E, name)[e]
  BY PicksMap, ThroughOne
<1>3. Of(w, name) = Through(Picks(E, name), w)
  <2> HIDE DEF w
  <2> QED
    BY <1>1, OfIs
<1> QED
  BY <1>2, <1>3 DEF Picks

\* Of four parts.
FourOf(a, b, c, d, name) ==
  Of(((a \o b) \o c) \o d, name) = ((Of(a, name) \o Of(b, name)) \o Of(c, name)) \o Of(d, name)

\* Of goes part by part.
LEMMA OfFour ==
  ASSUME NEW E, NEW name, NEW a \in Seq(E), NEW b \in Seq(E), NEW c \in Seq(E), NEW d \in Seq(E)
  PROVE  FourOf(a, b, c, d, name)
<1> DEFINE x == a \o b
           y == x \o c
<1>1. Splits(a, b, name)
  BY OfConcat
<1>2. x \in Seq(E)
  BY ConcatProperties
<1> HIDE DEF x
<1>3. Splits(x, c, name)
  BY <1>2, OfConcat
<1>4. y \in Seq(E)
  BY <1>2, ConcatProperties
<1> HIDE DEF y
<1>5. Splits(y, d, name)
  BY <1>4, OfConcat
<1> QED
  BY <1>1, <1>3, <1>5 DEF x, y, Splits, FourOf

-----------------------------------------------------------------------------
(* Blocks.                                                                 *)

\* What is open before an event, the event, and what is open then.
Allowed(a, e, b) ==
  /\ e.event = "block_start" => a = {} /\ b = {e.at}
  /\ e.event = "block_stop" => a = {e.at} /\ b = {}
  /\ e.event = "delta" => a = {e.at}
  /\ e.event \in {"finish", "message_stop"} => a = {}
  /\ e.event \notin {"block_start", "block_stop"} => b = a
\* The steps along which blocks do not overlap.
Ledger(E) == {t \in (SUBSET Nat) \X E \X (SUBSET Nat) : Allowed(t[1], t[2], t[3])}

\* What is open after an event, as WellFormed counts it.
OpenStep(before, e) ==
  CASE e.event = "block_start" -> before \cup {e.at}
    [] e.event = "block_stop"  -> before \ {e.at}
    [] OTHER                   -> before
\* The recursion WellFormed is defined by.
OpenFrom(o, s) == o = [n \in 0..Len(s) |-> IF n = 0 THEN {} ELSE OpenStep(o[n - 1], s[n])]

\* On a trail of the ledger, what WellFormed has open is what the ledger has.
LEMMA OpenIs ==
  ASSUME NEW E, NEW s \in Seq(E), NEW L, Trail(Ledger(E), s, {}, {}, L)
  PROVE  \A n \in 0..Len(s) : (CHOOSE o : OpenFrom(o, s))[n] = L[n]
<1> DEFINE T == Ledger(E)
           f == [n \in 0..Len(s) |-> L[n]]
<1>1. Len(s) \in Nat /\ L[0] = {} /\ \A n \in 1..Len(s) : <<L[n - 1], s[n], L[n]>> \in T
  BY LenProperties DEF Trail
<1>2. ASSUME NEW n \in 1..Len(s) PROVE L[n] = OpenStep(L[n - 1], s[n])
  <2>1. <<L[n - 1], s[n], L[n]>> \in T
    BY <1>1
  <2> DEFINE a == L[n - 1]
             e == s[n]
             b == L[n]
  <2> HIDE DEF a, e, b
  <2>2. /\ e.event = "block_start" => a = {} /\ b = {e.at}
        /\ e.event = "block_stop" => a = {e.at} /\ b = {}
        /\ e.event \notin {"block_start", "block_stop"} => b = a
    BY <2>1 DEF Ledger, Allowed, a, e, b
  <2>3. b = OpenStep(a, e)
    BY <2>2 DEF OpenStep
  <2> QED
    BY <2>3 DEF a, b, e
<1>3. OpenFrom(f, s)
  <2>1. ASSUME NEW n \in 0..Len(s) PROVE f[n] = IF n = 0 THEN {} ELSE OpenStep(f[n - 1], s[n])
    <3>1. CASE n = 0
      BY <1>1, <3>1
    <3>2. CASE n # 0
      <4>1. n \in 1..Len(s) /\ n - 1 \in 0..Len(s)
        BY <1>1, <3>2
      <4>2. f[n] = L[n] /\ f[n - 1] = L[n - 1]
        BY <4>1
      <4> QED
        BY <1>2, <3>2, <4>1, <4>2
    <3> QED
      BY <3>1, <3>2
  <2>2. f = [n \in 0..Len(s) |-> f[n]]
    OBVIOUS
  <2> HIDE DEF f
  <2> QED
    BY <2>1, <2>2 DEF OpenFrom
<1> HIDE DEF f
<1> DEFINE o == CHOOSE g : OpenFrom(g, s)
<1>4. OpenFrom(o, s)
  BY <1>3
<1> HIDE DEF o
<1>5. o[0] = {} /\ \A n \in 1..Len(s) : o[n] = OpenStep(o[n - 1], s[n])
  <2>1. \A n \in 0..Len(s) : o[n] = IF n = 0 THEN {} ELSE OpenStep(o[n - 1], s[n])
    BY <1>4 DEF OpenFrom
  <2>2. 0 \in 0..Len(s) /\ \A n \in 1..Len(s) : n \in 0..Len(s) /\ n # 0
    BY <1>1
  <2> QED
    BY <2>1, <2>2
<1> DEFINE S == {n \in Nat : n <= Len(s) => o[n] = L[n]}
<1>6. 0 \in S
  BY <1>1, <1>5
<1>7. ASSUME NEW n \in Nat, n \in S PROVE n + 1 \in S
  <2> SUFFICES ASSUME n + 1 <= Len(s) PROVE o[n + 1] = L[n + 1]
    OBVIOUS
  <2>1. n + 1 \in 1..Len(s) /\ (n + 1) - 1 = n /\ n <= Len(s)
    BY <1>1
  <2>2. o[n] = L[n]
    BY <1>7, <2>1
  <2> QED
    BY <1>2, <1>5, <2>1, <2>2
<1>8. Nat \subseteq S
  <2> HIDE DEF S
  <2> QED
    BY <1>6, <1>7, Induction
<1>9. ASSUME NEW n \in 0..Len(s) PROVE o[n] = L[n]
  <2>1. n \in Nat /\ n <= Len(s)
    BY <1>1
  <2> QED
    BY <1>8, <2>1
<1> QED
  BY <1>9 DEF o

\* The last event of a response.
EndOf(format) == IF format = "openai" THEN "done" ELSE "message_stop"

\* A sequence of events is well formed when its blocks are, and it consists of a
\* body, at most one finish, one end, and perhaps an error.
LEMMA WellFormedIs ==
  ASSUME NEW E, NEW p \in Seq(E), NEW q \in Seq(E), NEW z \in E, NEW w \in Seq(E), NEW format,
         \A i \in 1..Len(p) : p[i].event \notin {EndOf(format), "finish"},
         q = <<>> \/ \E e \in E : q = <<e>> /\ e.event = "finish",
         z.event = EndOf(format),
         w = <<>> \/ (/\ \A i \in 1..Len(p) : p[i].event # "error"
                      /\ \E e \in E : w = <<e>> /\ e.event = "error"),
         format = "anthropic" => Runs(Ledger(E), ((p \o q) \o <<z>>) \o w, {}, {})
  PROVE  WellFormed(format, ((p \o q) \o <<z>>) \o w)
<1> DEFINE r == p \o q
           zs == <<z>>
           x == r \o zs
           s == x \o w
           N == Len(r)
           D == EndOf(format)
<1>0. D # "finish" /\ D # "error"
  BY DEF EndOf
<1>z. zs \in Seq(E) /\ Len(zs) = 1 /\ zs[1] = z
  OBVIOUS
<1> HIDE DEF zs
<1>1. r \in Seq(E) /\ N \in Nat /\ Len(p) \in Nat /\ Len(q) \in Nat /\ N = Len(p) + Len(q)
  BY ConcatProperties, LenProperties
<1> DEFINE e1 == CHOOSE e \in E : q = <<e>> /\ e.event = "finish"
           e2 == CHOOSE e \in E : w = <<e>> /\ e.event = "error"
<1>q. q = <<>> \/ (e1 \in E /\ q = <<e1>> /\ e1.event = "finish")
  OBVIOUS
<1>w. w = <<>> \/ (e2 \in E /\ w = <<e2>> /\ e2.event = "error")
  OBVIOUS
<1> HIDE DEF e1, e2
<1>2. \A i \in 1..Len(q) : q[i].event = "finish"
  <2>1. CASE q = <<>>
    BY <2>1, EmptySeq
  <2>2. CASE q # <<>>
    <3>1. Len(q) = 1 /\ q[1].event = "finish"
      BY <1>q, <2>2
    <3> QED
      BY <3>1
  <2> QED
    BY <2>1, <2>2
<1>3. \A i \in 1..N : r[i].event # D
  <2> SUFFICES ASSUME NEW i \in 1..N PROVE r[i].event # D
    OBVIOUS
  <2>1. r[i] = IF i <= Len(p) THEN p[i] ELSE q[i - Len(p)]
    BY <1>1, ConcatProperties
  <2>2. i <= Len(p) => i \in 1..Len(p)
    BY <1>1
  <2>3. ~(i <= Len(p)) => i - Len(p) \in 1..Len(q)
    BY <1>1
  <2> QED
    BY <1>0, <1>2, <2>1, <2>2, <2>3
<1>4. x \in Seq(E) /\ Len(x) = N + 1 /\ x[N + 1] = z /\ \A i \in 1..N : x[i] = r[i]
  <2> HIDE DEF r
  <2>1. x \in Seq(E) /\ Len(x) = N + Len(zs)
    BY <1>1, <1>z, ConcatProperties, SMTT(60)
  <2>2. \A i \in 1..N + Len(zs) : x[i] = IF i <= N THEN r[i] ELSE zs[i - N]
    BY <1>1, <1>z, ConcatProperties
  <2>3. N + 1 \in 1..N + 1 /\ ~(N + 1 <= N) /\ (N + 1) - N = 1 /\ \A i \in 1..N : i \in 1..N + 1 /\ i <= N
    BY <1>1
  <2> QED
    BY <1>z, <2>1, <2>2, <2>3
<1>5. Len(w) \in Nat /\ s \in Seq(E) /\ Len(s) = N + 1 + Len(w)
      /\ \A i \in 1..N + 1 + Len(w) : s[i] = IF i <= N + 1 THEN x[i] ELSE w[i - (N + 1)]
  <2> HIDE DEF x, N
  <2>1. x \in Seq(E) /\ Len(x) = N + 1 /\ Len(w) \in Nat
    BY <1>4, LenProperties
  <2>2. s \in Seq(E) /\ Len(s) = Len(x) + Len(w)
        /\ \A i \in 1..Len(x) + Len(w) : s[i] = IF i <= Len(x) THEN x[i] ELSE w[i - Len(x)]
    BY <2>1, ConcatProperties, SMTT(30)
  <2> QED
    BY <2>1, <2>2
<1>6. \A n \in 1..Len(w) : w[n].event = "error"
  <2>1. CASE w = <<>>
    BY <2>1, EmptySeq
  <2>2. CASE w # <<>>
    <3>1. Len(w) = 1 /\ w[1].event = "error"
      BY <1>w, <2>2
    <3> QED
      BY <3>1
  <2> QED
    BY <2>1, <2>2
<1>7. ASSUME NEW name PROVE FourOf(p, q, zs, w, name)
  BY <1>z, OfFour
<1>e. Of(<<>>, "finish") = <<>>
  <2> DEFINE t == <<>>
  <2>1. t \in Seq(E) /\ \A i \in 1..Len(t) : FALSE
    BY EmptySeq
  <2> HIDE DEF t
  <2>2. Of(t, "finish") = <<>>
    BY <2>1, OfNone
  <2> QED
    BY <2>2 DEF t
<1>c. \A t \in Seq(E) : <<>> \o t = t /\ t \o <<>> = t
  BY ConcatEmptySeq
<1>s. <<>> \in Seq(E)
  BY EmptySeq
<1>8. Of(p, D) = <<>> /\ Of(q, D) = <<>> /\ Of(zs, D) = zs /\ Of(w, D) = <<>>
  <2>1. Of(p, D) = <<>>
    BY OfNone
  <2>2. Of(q, D) = <<>>
    BY <1>0, <1>2, OfNone
  <2>3. Of(zs, D) = zs
    BY OfOne DEF zs
  <2>4. Of(w, D) = <<>>
    BY <1>0, <1>6, OfNone
  <2> QED
    BY <2>1, <2>2, <2>3, <2>4
<1>9. Of(s, D) = zs
  <2> HIDE DEF s, D, zs
  <2> QED
    BY <1>7, <1>8, <1>c, <1>s, <1>z DEF FourOf, s, x, r
<1>10. Len(Of(s, "finish")) <= 1
  <2>1. Of(p, "finish") = <<>>
    BY OfNone
  <2>2. Of(zs, "finish") = <<>>
    BY <1>0, OfOne DEF zs
  <2>3. Of(w, "finish") = <<>>
    BY <1>6, OfNone
  <2>4. Of(q, "finish") = q
    BY <1>e, <1>q, OfOne
  <2>5. Of(s, "finish") = q
    <3> HIDE DEF s, zs
    <3> QED
      BY <1>7, <2>1, <2>2, <2>3, <2>4, <1>c, <1>s DEF FourOf, s, x, r
  <2>6. Len(q) <= 1
    <3>1. CASE q = <<>>
      BY <3>1, EmptySeq
    <3>2. CASE q # <<>>
      <4>1. Len(q) = 1 /\ q[1] = e1
        BY <1>q, <3>2
      <4> QED
        BY <4>1
    <3> QED
      BY <3>1, <3>2
  <2> QED
    BY <2>5, <2>6
<1>11. ASSUME w # <<>> PROVE Of(s, "error") = w
  <2>1. Of(p, "error") = <<>>
    BY <1>11, OfNone
  <2>2. Of(zs, "error") = <<>>
    BY <1>0, OfOne DEF zs
  <2>3. Of(w, "error") = w
    BY <1>11, <1>w, OfOne
  <2>4. Of(q, "error") = <<>>
    BY <1>2, OfNone
  <2> HIDE DEF s, zs
  <2> QED
    BY <1>7, <2>1, <2>2, <2>3, <2>4, <1>c, <1>s DEF FourOf, s, x, r
<1>12. ASSUME NEW n \in 1..Len(s), s[n].event = D
       PROVE  SubSeq(s, n + 1, Len(s)) = Of(s, "error") \/ n = Len(s)
  <2>1. n = N + 1
    <3>1. CASE n <= N
      <4>1. n \in 1..N /\ n \in 1..N + 1 + Len(w) /\ n <= N + 1
        BY <1>1, <1>5, <3>1
      <4>2. s[n] = r[n]
        BY <1>4, <1>5, <4>1
      <4> QED
        BY <1>3, <1>12, <4>1, <4>2
    <3>2. CASE n > N + 1
      <4>1. n \in 1..N + 1 + Len(w) /\ ~(n <= N + 1) /\ n - (N + 1) \in 1..Len(w)
        BY <1>1, <1>5, <3>2
      <4>2. s[n].event = "error"
        BY <1>5, <1>6, <4>1
      <4> QED
        BY <1>0, <1>12, <4>2
    <3>3. n <= N \/ n = N + 1 \/ n > N + 1
      <4>1. Len(s) \in Nat /\ N \in Nat
        BY <1>1, <1>5
      <4> HIDE DEF s, N
      <4> QED
        BY <4>1
    <3> QED
      BY <3>1, <3>2, <3>3
  <2>2. CASE w = <<>>
    <3>1. Len(w) = 0
      BY <2>2, EmptySeq
    <3> QED
      BY <1>5, <1>1, <2>1, <3>1
  <2>3. CASE w # <<>>
    <3>1. Len(w) = 1 /\ w[1] = e2 /\ w \in Seq(E)
      BY <1>w, <2>3
    <3>2. Len(s) = N + 2 /\ s[N + 2] = e2 /\ n + 1 = N + 2
      <4>1. N + 2 \in 1..N + 1 + Len(w) /\ ~(N + 2 <= N + 1) /\ (N + 2) - (N + 1) = 1
        BY <1>1, <3>1
      <4> QED
        BY <1>1, <1>5, <2>1, <3>1, <4>1, SMTT(30)
    <3>3. SubSeq(s, n + 1, Len(s)) = w
      <4> HIDE DEF s, N
      <4> DEFINE u == SubSeq(s, N + 2, N + 2)
      <4>1. N + 2 \in 1..Len(s)
        BY <1>1, <3>2
      <4>2. u \in Seq(E) /\ Len(u) = 1 /\ u[1] = s[N + 2]
        <5>1. N + 2 \in 1..Len(s) + 1
          BY <1>1, <3>2
        <5>2. (N + 2) - (N + 2) + 1 = 1 /\ N + 2 + 1 - 1 = N + 2 /\ N + 2 <= N + 2 /\ 1 \in 1..1
          BY <1>1
        <5> QED
          BY <1>5, <1>1, <4>1, <5>1, <5>2, SubSeqProperties
      <4> HIDE DEF u
      <4>3. \A i \in 1..1 : u[i] = w[i]
        BY <3>1, <3>2, <4>2
      <4>4. u = w
        BY <3>1, <4>2, <4>3, SeqEqual
      <4> QED
        BY <3>2, <4>4 DEF u
    <3> QED
      BY <1>11, <2>3, <3>3
  <2> QED
    BY <2>2, <2>3
<1>13. DOMAIN s = 1..Len(s)
  BY <1>5, LenProperties
<1>14. ASSUME format = "anthropic", NEW n \in 1..Len(s)
       PROVE  LET o == CHOOSE g : OpenFrom(g, s)
              IN /\ s[n].event = "block_start" => o[n - 1] = {}
                 /\ s[n].event \in {"delta", "block_stop"} => o[n - 1] = {s[n].at}
                 /\ s[n].event \in {"finish", "message_stop"} => o[n - 1] = {}
  <2> HIDE DEF s
  <2>1. Runs(Ledger(E), s, {}, {})
    BY <1>14 DEF s, x, r, zs
  <2>2. PICK L : Trail(Ledger(E), s, {}, {}, L)
    BY <2>1 DEF Runs
  <2>3. n - 1 \in 0..Len(s)
    BY <1>5, <1>1
  <2>4. (CHOOSE g : OpenFrom(g, s))[n - 1] = L[n - 1]
    BY <1>5, <2>2, <2>3, OpenIs, SMTT(30)
  <2>5. <<L[n - 1], s[n], L[n]>> \in Ledger(E)
    BY <2>2 DEF Trail
  <2>6. /\ s[n].event = "block_start" => L[n - 1] = {}
        /\ s[n].event \in {"delta", "block_stop"} => L[n - 1] = {s[n].at}
        /\ s[n].event \in {"finish", "message_stop"} => L[n - 1] = {}
    BY <2>5 DEF Ledger, Allowed
  <2> QED
    BY <2>4, <2>6
<1> HIDE DEF s
<1>15. WellFormed(format, s)
  <2>1. Len(Of(s, D)) = 1
    BY <1>9, <1>z
  <2> QED
    BY <1>10, <1>12, <1>13, <1>14, <2>1 DEF WellFormed, OpenFrom, OpenStep, EndOf
<1> QED
  BY <1>15 DEF s, x, r, zs

-----------------------------------------------------------------------------
(* The two streams: a response, and one that breaks off with an error.     *)

\* Two entries run in two steps;
LEMMA Pair ==
  ASSUME NEW E, NEW a \in E, NEW b \in E
  PROVE  <<a, b>> = <<a>> \o <<b>>
<1> DEFINE v == <<a>>
           p == <<a, b>>
<1>1. v \in Seq(E) /\ Len(v) = 1 /\ v[1] = a /\ Append(v, b) = v \o <<b>>
  <2>1. v \in Seq(E) /\ Len(v) = 1 /\ v[1] = a
    OBVIOUS
  <2> HIDE DEF v
  <2> QED
    BY <2>1, AppendIsConcat
<1>2. p \in Seq(E) /\ Len(p) = 2 /\ p[1] = a /\ p[2] = b
  OBVIOUS
<1> HIDE DEF v, p
<1>3. Append(v, b) \in Seq(E) /\ Len(Append(v, b)) = 2 /\ Append(v, b)[2] = b /\ Append(v, b)[1] = v[1]
  <2>1. Append(v, b) \in Seq(E) /\ Len(Append(v, b)) = Len(v) + 1 /\ Append(v, b)[Len(v) + 1] = b
    BY <1>1, AppendProperties, ZenonT(40)
  <2>2. 1 \in 1..Len(v) /\ \A i \in 1..Len(v) : Append(v, b)[i] = v[i]
    BY <1>1, AppendProperties
  <2> QED
    BY <1>1, <2>1, <2>2
<1>4. \A i \in 1..2 : i = 1 \/ i = 2
  OBVIOUS
<1>5. Append(v, b) = p
  BY <1>1, <1>2, <1>3, <1>4, SeqEqual
<1> QED
  BY <1>1, <1>5 DEF v, p

\* three in three.
LEMMA Triad ==
  ASSUME NEW E, NEW a \in E, NEW b \in E, NEW c \in E
  PROVE  <<a, b, c>> = (<<a>> \o <<b>>) \o <<c>>
<1> DEFINE v == <<a, b>>
           p == <<a, b, c>>
<1>1. v \in Seq(E) /\ Len(v) = 2 /\ v[1] = a /\ v[2] = b /\ Append(v, c) = v \o <<c>>
  <2>1. v \in Seq(E) /\ Len(v) = 2 /\ v[1] = a /\ v[2] = b
    OBVIOUS
  <2> HIDE DEF v
  <2> QED
    BY <2>1, AppendIsConcat
<1>2. p \in Seq(E) /\ Len(p) = 3 /\ p[1] = a /\ p[2] = b /\ p[3] = c
  OBVIOUS
<1> HIDE DEF v, p
<1>3. Append(v, c) \in Seq(E) /\ Len(Append(v, c)) = 3 /\ Append(v, c)[3] = c
      /\ Append(v, c)[1] = v[1] /\ Append(v, c)[2] = v[2]
  <2>1. Append(v, c) \in Seq(E) /\ Len(Append(v, c)) = Len(v) + 1 /\ Append(v, c)[Len(v) + 1] = c
    BY <1>1, AppendProperties, ZenonT(90)
  <2>2. 1 \in 1..Len(v) /\ 2 \in 1..Len(v) /\ \A i \in 1..Len(v) : Append(v, c)[i] = v[i]
    BY <1>1, AppendProperties, SMTT(30)
  <2> QED
    BY <1>1, <2>1, <2>2
<1>4. \A i \in 1..3 : i = 1 \/ i = 2 \/ i = 3
  OBVIOUS
<1>5. Append(v, c) = p
  BY <1>1, <1>2, <1>3, <1>4, SeqEqual
<1>6. v = <<a>> \o <<b>>
  BY Pair DEF v
<1> QED
  BY <1>1, <1>5, <1>6 DEF p

\* Two events at the end, taken one by one.
LEMMA Ends ==
  ASSUME NEW E, NEW p \in Seq(E), NEW a \in E, NEW b \in E
  PROVE  p \o <<a, b>> = ((p \o <<a>>) \o <<b>>) \o <<>>
<1> DEFINE v == <<a>>
           w == <<b>>
<1>1. v \in Seq(E)
  OBVIOUS
<1>2. w \in Seq(E)
  OBVIOUS
<1>3. <<a, b>> = v \o w
  BY Pair
<1> HIDE DEF v, w
<1>4. p \o (v \o w) = (p \o v) \o w
  BY <1>1, <1>2, ConcatAssociative, SMTT(30)
<1>5. (p \o v) \o w \in Seq(E)
  BY <1>1, <1>2, ConcatProperties
<1>6. ((p \o v) \o w) \o <<>> = (p \o v) \o w
  <2> DEFINE u == (p \o v) \o w
  <2> HIDE DEF u
  <2>1. u \in Seq(E)
    BY <1>5 DEF u
  <2>2. u \o <<>> = u
    BY <2>1, ConcatEmptySeq
  <2> QED
    BY <2>2 DEF u
<1> QED
  BY <1>3, <1>4, <1>6 DEF v, w

\* A step that is allowed is in the ledger.
LEMMA LedgerHas ==
  ASSUME NEW E, NEW e \in E
  PROVE  /\ e.event \notin {"block_start", "block_stop", "delta"} => <<{}, e, {}>> \in Ledger(E)
         /\ \A n \in Nat : e.at = n =>
              /\ e.event = "block_start" => <<{}, e, {n}>> \in Ledger(E)
              /\ e.event = "delta" => <<{n}, e, {n}>> \in Ledger(E)
              /\ e.event = "block_stop" => <<{n}, e, {}>> \in Ledger(E)
<1>1. ASSUME NEW a \in SUBSET Nat, NEW b \in SUBSET Nat, Allowed(a, e, b) PROVE <<a, e, b>> \in Ledger(E)
  BY <1>1 DEF Ledger
<1>2. ASSUME e.event \notin {"block_start", "block_stop", "delta"} PROVE Allowed({}, e, {})
  BY <1>2 DEF Allowed
<1>3. ASSUME e.event = "block_start" PROVE Allowed({}, e, {e.at})
  BY <1>3 DEF Allowed
<1>4. ASSUME e.event = "delta" PROVE Allowed({e.at}, e, {e.at})
  BY <1>4 DEF Allowed
<1>5. ASSUME e.event = "block_stop" PROVE Allowed({e.at}, e, {})
  BY <1>5 DEF Allowed
<1>6. {} \in SUBSET Nat /\ \A n \in Nat : {n} \in SUBSET Nat
  OBVIOUS
<1> QED
  BY <1>1, <1>2, <1>3, <1>4, <1>5, <1>6

\* What comes before a stream's end.
Plain(C, Q) ==
  {e \in EventsOf(C, Q) : e.event \in {"message_start", "block_start", "delta", "block_stop", "calls"}}

\* A call's events do not end the response.
LEMMA TriplesPlain ==
  ASSUME NEW I, NEW N, NEW Q, NEW calls \in Seq(CallsOf(I, N, Q))
  PROVE  /\ WriteToolCalls(calls) \in Seq(Plain(CallsOf(I, N, Q), Q))
         /\ Runs(Ledger(EventsOf(CallsOf(I, N, Q), Q)), WriteToolCalls(calls), {}, {})
<1> DEFINE C == CallsOf(I, N, Q)
           E == EventsOf(C, Q)
           P == Plain(C, Q)
           T == Ledger(E)
           t == [i \in DOMAIN calls |-> Triple(calls, i)]
<1>1. Len(calls) \in Nat /\ DOMAIN calls = 1..Len(calls) /\ DOMAIN t = 1..Len(calls)
  BY LenProperties
<1>2. ASSUME NEW i \in 1..Len(calls) PROVE t[i] \in Seq(P) /\ Runs(T, t[i], {}, {})
  <2> DEFINE a == Opens(calls, i)
             b == Fills(calls, i)
             c == Event("block_stop", i, None)
  <2>1. t[i] = <<a, b, c>>
    BY <1>1 DEF Triple, Opens, Fills
  <2>2. a \in E
    BY TripleParts
  <2>3. b \in E
    BY TripleParts
  <2>4. c \in E
    BY TripleParts
  <2>5. a.event = "block_start" /\ b.event = "delta" /\ c.event = "block_stop"
        /\ a.at = i /\ b.at = i /\ c.at = i /\ i \in Nat
    BY <1>1 DEF Opens, Fills, Event
  <2> HIDE DEF a, b, c, E, t
  <2>6. a \in P /\ b \in P /\ c \in P
    BY <2>2, <2>3, <2>4, <2>5 DEF Plain, E
  <2>7. <<a, b, c>> \in Seq(P)
    <3> HIDE DEF P
    <3> QED
      BY <2>6
  <2>8. <<{}, a, {i}>> \in T
    BY <2>2, <2>5, LedgerHas
  <2>9. <<{i}, b, {i}>> \in T
    BY <2>3, <2>5, LedgerHas
  <2>10. <<{i}, c, {}>> \in T
    BY <2>4, <2>5, LedgerHas
  <2> HIDE DEF T, P
  <2>11. Runs(T, <<a>>, {}, {i})
    BY <2>8, RunsOne
  <2>12. Runs(T, <<b>>, {i}, {i})
    BY <2>9, RunsOne
  <2>13. Runs(T, <<c>>, {i}, {})
    BY <2>10, RunsOne
  <2>14. <<a, b, c>> = (<<a>> \o <<b>>) \o <<c>>
    BY <2>2, <2>3, <2>4, Triad
  <2> DEFINE u == <<a>>
             v == <<b>>
             w == <<c>>
             x == u \o v
  <2>15. u \in Seq(E) /\ v \in Seq(E) /\ w \in Seq(E)
    BY <2>2, <2>3, <2>4
  <2> HIDE DEF u, v, w
  <2>16. Runs(T, x, {}, {i}) /\ x \in Seq(E)
    BY <2>11, <2>12, <2>15, RunsConcat, ConcatProperties DEF u, v
  <2> HIDE DEF x
  <2>17. Runs(T, x \o w, {}, {})
    BY <2>13, <2>15, <2>16, RunsConcat DEF w
  <2> QED
    BY <2>1, <2>7, <2>14, <2>17 DEF x, u, v, w
<1>3. WriteToolCalls(calls) = Flatten(t)
  BY DEF WriteToolCalls, Triple
<1>4. t \in [1..Len(calls) -> Seq(P)]
  <2>1. t = [i \in 1..Len(calls) |-> t[i]]
    BY <1>1
  <2> HIDE DEF t, P
  <2> QED
    BY <1>2, <2>1
<1> HIDE DEF t, P, T, E
<1>5. t \in Seq(Seq(P)) /\ Len(t) = Len(calls)
  <2>1. t \in Seq(Seq(P))
    BY <1>1, <1>4, FunSeq
  <2> QED
    BY <1>1, <2>1, LenProperties
<1>6. Flatten(t) \in Seq(P)
  BY <1>5, FlattenType
<1>7. Runs(T, Flatten(t), {}, {})
  BY <1>2, <1>5, RunsFlatten
<1> QED
  BY <1>3, <1>6, <1>7 DEF P, T, E, C

\* A plain body, one finish, one end, and perhaps an error.
LEMMA EndsWell ==
  ASSUME NEW C, NEW Q, NEW p \in Seq(Plain(C, Q)), NEW f \in EventsOf(C, Q), f.event = "finish",
         NEW format \in {"openai", "anthropic"}, NEW z \in EventsOf(C, Q), z.event = EndOf(format),
         NEW w \in Seq(EventsOf(C, Q)), w = <<>> \/ \E e \in EventsOf(C, Q) : w = <<e>> /\ e.event = "error",
         format = "anthropic" => Runs(Ledger(EventsOf(C, Q)), p, {}, {})
  PROVE  WellFormed(format, ((p \o <<f>>) \o <<z>>) \o w)
<1> DEFINE E == EventsOf(C, Q)
           T == Ledger(E)
           q == <<f>>
           v == <<z>>
           x == p \o q
           y == x \o v
<1>1. p \in Seq(E)
  <2>1. Plain(C, Q) \subseteq E
    BY DEF Plain
  <2> QED
    BY <2>1, SeqMono
<1>2. \A i \in 1..Len(p) : p[i].event \notin {EndOf(format), "finish", "error"}
  <2>1. \A i \in 1..Len(p) : p[i] \in Plain(C, Q)
    BY ElementOfSeq
  <2> QED
    BY <2>1 DEF Plain, EndOf
<1>3. q \in Seq(E) /\ v \in Seq(E) /\ w \in Seq(E)
  OBVIOUS
<1>4. ASSUME format = "anthropic" PROVE Runs(T, y \o w, {}, {})
  <2>1. <<{}, f, {}>> \in T
    BY LedgerHas
  <2>2. <<{}, z, {}>> \in T
    BY LedgerHas DEF EndOf
  <2> HIDE DEF E
  <2>3. Runs(T, w, {}, {})
    <3>1. CASE w = <<>>
      BY <3>1, RunsEmpty
    <3>2. CASE w # <<>>
      <4>1. PICK e \in E : w = <<e>> /\ e.event = "error"
        BY <3>2 DEF E
      <4>2. <<{}, e, {}>> \in T
        BY <4>1, LedgerHas
      <4> HIDE DEF T
      <4> QED
        BY <4>1, <4>2, RunsOne
    <3> QED
      BY <3>1, <3>2
  <2> HIDE DEF T
  <2>4. Runs(T, q, {}, {})
    BY <2>1, RunsOne
  <2>5. Runs(T, v, {}, {})
    BY <2>2, RunsOne
  <2>6. Runs(T, p, {}, {})
    BY <1>4 DEF T, E
  <2> HIDE DEF q, v
  <2>7. x \in Seq(E) /\ Runs(T, x, {}, {})
    BY <1>1, <1>3, <2>4, <2>6, RunsConcat, ConcatProperties
  <2> HIDE DEF x
  <2>8. y \in Seq(E) /\ Runs(T, y, {}, {})
    BY <1>3, <2>5, <2>7, RunsConcat, ConcatProperties
  <2> HIDE DEF y
  <2> QED
    BY <1>3, <2>3, <2>8, RunsConcat
<1>5. q = <<>> \/ \E e \in E : q = <<e>> /\ e.event = "finish"
  OBVIOUS
<1>6. w = <<>> \/ (/\ \A i \in 1..Len(p) : p[i].event # "error"
                   /\ \E e \in E : w = <<e>> /\ e.event = "error")
  BY <1>2
<1> HIDE DEF E, q
<1>7. \A i \in 1..Len(p) : p[i].event \notin {EndOf(format), "finish"}
  BY <1>2
<1>8. z \in E
  BY DEF E
<1> QED
  BY <1>1, <1>3, <1>4, <1>5, <1>6, <1>7, <1>8, WellFormedIs DEF T, q

\* A response is well formed, in either format and for any calls.
LEMMA ResponseWell ==
  ASSUME NEW I, NEW N, NEW Q, NEW calls \in Seq(CallsOf(I, N, Q)), NEW text \in Seq(Q),
         NEW format \in {"openai", "anthropic"}
  PROVE  WellFormed(format, Response(format, text, calls))
<1> DEFINE C == CallsOf(I, N, Q)
           E == EventsOf(C, Q)
           P == Plain(C, Q)
           T == Ledger(E)
           d == Event("delta", 0, text)
           f == Event("finish", None, FinishReason(calls))
           L == <<d>>
<1>1. d \in E /\ d \in P /\ d.event = "delta" /\ d.at = 0
  BY DEF Event, EventsOf, Plain
<1>2. f \in E /\ f.event = "finish"
  BY DEF Event, EventsOf, FinishReason
<1>l. L \in Seq(P)
  <2> HIDE DEF P, d
  <2> QED
    BY <1>1
<1>3. WriteDelta(format, text) = L
  BY DEF WriteDelta
<1>n. <<>> \in Seq(E)
  BY EmptySeq
<1>4. CASE format = "openai"
  <2> DEFINE k == Event("calls", None, calls)
             z == Event("done", None, None)
             K == IF calls = <<>> THEN <<>> ELSE <<k>>
             F == <<f, z>>
             p == L \o K
  <2>1. k \in P
    BY DEF Event, EventsOf, Plain
  <2>2. z \in E /\ z.event = EndOf(format)
    BY <1>4 DEF Event, EventsOf, Marks, EndOf
  <2>3. K \in Seq(P)
    <3> HIDE DEF k, P
    <3> QED
      BY <2>1, EmptySeq
  <2> HIDE DEF k, L, d
  <2>4. Response(format, text, calls) = (<<>> \o L) \o (K \o F)
    BY <1>3, <1>4 DEF Response, WriteStart, WriteStop, k
  <2> HIDE DEF K, z, f
  <2>5. P \subseteq E
    BY DEF Plain
  <2>6. Seq(P) \subseteq Seq(E)
    <3> HIDE DEF P, E
    <3> QED
      BY <2>5, SeqMono
  <2>7. L \in Seq(E) /\ K \in Seq(E) /\ F \in Seq(E)
    <3>1. L \in Seq(E) /\ K \in Seq(E)
      BY <1>l, <2>3, <2>6
    <3> HIDE DEF E
    <3> QED
      BY <1>2, <2>2, <3>1
  <2> HIDE DEF P, F
  <2>8. p \in Seq(P)
    BY <1>l, <2>3, ConcatProperties
  <2> HIDE DEF E
  <2>9. <<>> \o L = L
    BY <2>7, ConcatEmptySeq
  <2>10. L \o (K \o F) = p \o F
    <3>1. L \in Seq(E)
      BY <2>7
    <3>2. K \in Seq(E)
      BY <2>7
    <3>3. F \in Seq(E)
      BY <2>7
    <3>4. (L \o K) \o F = L \o (K \o F)
      BY <3>1, <3>2, <3>3, ConcatAssociative, SMTT(30)
    <3> QED
      BY <3>4
  <2> HIDE DEF p
  <2>11. p \in Seq(E)
    BY <2>6, <2>8
  <2>12. p \o F = ((p \o <<f>>) \o <<z>>) \o <<>>
    BY <1>2, <2>2, <2>11, Ends DEF F
  <2>13. WellFormed(format, ((p \o <<f>>) \o <<z>>) \o <<>>)
    BY <1>2, <1>4, <1>n, <2>2, <2>8, EndsWell DEF P, E
  <2> QED
    BY <2>4, <2>9, <2>10, <2>12, <2>13
<1>5. CASE format = "anthropic"
  <2> DEFINE m == Event("message_start", None, None)
             o == Event("block_start", 0, <<>>)
             c == Event("block_stop", 0, None)
             z == Event("message_stop", None, None)
             S == <<m, o>>
             B == <<c>>
             W == WriteToolCalls(calls)
             F == <<f, z>>
             p == (S \o L) \o (B \o W)
  <2>1. m \in E /\ m \in P /\ m.event = "message_start"
    BY DEF Event, EventsOf, Marks, Plain
  <2>2. o \in E /\ o \in P /\ o.event = "block_start" /\ o.at = 0
    BY EmptySeq DEF Event, EventsOf, Plain
  <2>3. c \in E /\ c \in P /\ c.event = "block_stop" /\ c.at = 0
    BY DEF Event, EventsOf, Marks, Plain
  <2>4. z \in E /\ z.event = EndOf(format)
    BY <1>5 DEF Event, EventsOf, Marks, EndOf
  <2>5. Response(format, text, calls) = (S \o L) \o ((B \o W) \o F)
    BY <1>3, <1>5 DEF Response, WriteStart, WriteStop
  <2>6. W \in Seq(P) /\ Runs(T, W, {}, {})
    BY TriplesPlain
  <2>w. P \subseteq E
    BY DEF Plain
  <2> HIDE DEF m, o, c, z, W, f, d, P
  <2>7. S \in Seq(P) /\ B \in Seq(P)
    BY <2>1, <2>2, <2>3
  <2> HIDE DEF E
  <2>8. <<{}, m, {}>> \in T /\ <<{}, o, {0}>> \in T
    <3>1. <<{}, m, {}>> \in T
      BY <2>1, LedgerHas
    <3> DEFINE k == 0
    <3>k. k \in Nat /\ o.at = k
      BY <2>2
    <3> HIDE DEF k
    <3>2. <<{}, o, {k}>> \in T
      BY <2>2, <3>k, LedgerHas
    <3> QED
      BY <3>1, <3>2 DEF k
  <2>9. <<{0}, d, {0}>> \in T /\ <<{0}, c, {}>> \in T
    <3> DEFINE k == 0
    <3>k. k \in Nat /\ d.at = k /\ c.at = k
      BY <1>1, <2>3
    <3> HIDE DEF k
    <3>1. <<{k}, d, {k}>> \in T
      BY <1>1, <3>k, LedgerHas
    <3>2. <<{k}, c, {}>> \in T
      BY <2>3, <3>k, LedgerHas
    <3> QED
      BY <3>1, <3>2 DEF k
  <2> HIDE DEF T
  <2>10. Seq(P) \subseteq Seq(E)
    BY <2>w, SeqMono
  <2>11. Runs(T, S, {}, {0})
    <3>1. S = <<m>> \o <<o>> /\ <<m>> \in Seq(E) /\ <<o>> \in Seq(E)
      BY <2>1, <2>2, Pair
    <3>2. Runs(T, <<m>>, {}, {})
      BY <2>8, RunsOne
    <3>3. Runs(T, <<o>>, {}, {0})
      BY <2>8, RunsOne
    <3> DEFINE u == <<m>>
               v == <<o>>
    <3>u. u \in Seq(E) /\ v \in Seq(E) /\ Runs(T, u, {}, {}) /\ Runs(T, v, {}, {0})
      BY <3>1, <3>2, <3>3
    <3> HIDE DEF u, v
    <3>4. Runs(T, u \o v, {}, {0})
      BY <3>u, RunsConcat
    <3> QED
      BY <3>1, <3>4 DEF u, v
  <2>12. Runs(T, L, {0}, {0})
    BY <2>9, RunsOne
  <2>13. Runs(T, B, {0}, {})
    BY <2>9, RunsOne
  <2>14. F \in Seq(E)
    BY <1>2, <2>4
  <2> HIDE DEF S, L, B, F
  <2>15. S \in Seq(E) /\ L \in Seq(E) /\ B \in Seq(E) /\ W \in Seq(E)
    BY <1>l, <2>6, <2>7, <2>10
  <2> DEFINE x == S \o L
             y == B \o W
  <2>16. x \in Seq(P) /\ x \in Seq(E) /\ Runs(T, x, {}, {0})
    <3>1. x \in Seq(P) /\ x \in Seq(E)
      BY <1>l, <2>7, <2>15, ConcatProperties
    <3>2. Runs(T, x, {}, {0})
      BY <2>11, <2>12, <2>15, RunsConcat
    <3> QED
      BY <3>1, <3>2
  <2>17. y \in Seq(P) /\ y \in Seq(E) /\ Runs(T, y, {0}, {})
    <3>1. y \in Seq(P) /\ y \in Seq(E)
      BY <2>6, <2>7, <2>15, ConcatProperties
    <3>2. Runs(T, y, {0}, {})
      BY <2>6, <2>13, <2>15, RunsConcat
    <3> QED
      BY <3>1, <3>2
  <2> HIDE DEF x, y
  <2>18. x \o y \in Seq(P) /\ x \o y \in Seq(E)
    BY <2>16, <2>17, ConcatProperties
  <2>19. Runs(T, x \o y, {}, {})
    BY <2>16, <2>17, RunsConcat
  <2>20. x \o (y \o F) = (x \o y) \o F
    BY <2>14, <2>16, <2>17, ConcatAssociative, SMTT(30)
  <2> DEFINE r == x \o y
  <2>r. r \in Seq(P) /\ r \in Seq(E) /\ Runs(T, r, {}, {})
    BY <2>18, <2>19
  <2> HIDE DEF r
  <2>21. r \o F = ((r \o <<f>>) \o <<z>>) \o <<>>
    BY <1>2, <2>4, <2>r, Ends DEF F
  <2>22. WellFormed(format, ((r \o <<f>>) \o <<z>>) \o <<>>)
    BY <1>2, <1>5, <1>n, <2>4, <2>r, EndsWell DEF P, E, T
  <2> QED
    BY <2>5, <2>20, <2>21, <2>22 DEF x, y, r
<1> QED
  BY <1>4, <1>5

\* So is a stream that breaks off with an error before anything is written.
LEMMA ErrorWell ==
  ASSUME NEW format \in {"openai", "anthropic"}
  PROVE  WellFormed(format, WriteStart(format) \o WriteStreamError(format))
<1> DEFINE C == CallsOf({}, {}, {})
           E == EventsOf(C, {})
           P == Plain(C, {})
           T == Ledger(E)
           e == Event("error", None, None)
<1>1. e \in E /\ e.event = "error"
  BY DEF Event, EventsOf, Marks
<1>n. <<>> \in Seq(E) /\ <<>> \in Seq(P)
  BY EmptySeq
<1>4. CASE format = "openai"
  <2> DEFINE z == Event("done", None, None)
             F == <<e, z>>
  <2>1. z \in E /\ z.event = EndOf(format)
    BY <1>4 DEF Event, EventsOf, Marks, EndOf
  <2>2. WriteStart(format) \o WriteStreamError(format) = <<>> \o F
    BY <1>4 DEF WriteStart, WriteStreamError
  <2> DEFINE p == <<e>>
             q == <<>>
             v == <<z>>
             w == <<>>
  <2> HIDE DEF e, z
  <2>3. p \in Seq(E) /\ v \in Seq(E) /\ q \in Seq(E) /\ w \in Seq(E) /\ F \in Seq(E)
    <3> HIDE DEF E
    <3> QED
      BY <1>1, <1>n, <2>1
  <2>4. \A i \in 1..Len(p) : p[i].event \notin {EndOf(format), "finish"}
    BY <1>1, <1>4 DEF EndOf
  <2>5. ((p \o q) \o v) \o w = F
    <3>1. F = p \o v
      BY <1>1, <2>1, Pair
    <3> HIDE DEF p, v, F, E
    <3>2. p \o <<>> = p /\ F \o <<>> = F
      BY <2>3, ConcatEmptySeq
    <3> QED
      BY <3>1, <3>2
  <2>6. WellFormed(format, ((p \o q) \o <<z>>) \o w)
    <3> HIDE DEF E, p
    <3> QED
      BY <1>4, <2>1, <2>3, <2>4, WellFormedIs
  <2>7. <<>> \o F = F
    <3> HIDE DEF E, F
    <3> QED
      BY <2>3, ConcatEmptySeq
  <2> QED
    BY <2>2, <2>5, <2>6, <2>7
<1>5. CASE format = "anthropic"
  <2> DEFINE m == Event("message_start", None, None)
             o == Event("block_start", 0, <<>>)
             c == Event("block_stop", 0, None)
             f == Event("finish", None, FinishReason(<<>>))
             z == Event("message_stop", None, None)
             S == <<m, o>>
             B == <<c>>
             F == <<f, z>>
             p == S \o B
             w == <<e>>
  <2>1. m \in E /\ m \in P /\ m.event = "message_start"
    BY DEF Event, EventsOf, Marks, Plain
  <2>2. o \in E /\ o \in P /\ o.event = "block_start" /\ o.at = 0
    BY EmptySeq DEF Event, EventsOf, Plain
  <2>3. c \in E /\ c \in P /\ c.event = "block_stop" /\ c.at = 0
    BY DEF Event, EventsOf, Marks, Plain
  <2>4. z \in E /\ z.event = EndOf(format)
    BY <1>5 DEF Event, EventsOf, Marks, EndOf
  <2>f. f \in E /\ f.event = "finish"
    BY DEF Event, EventsOf, FinishReason
  <2>5. WriteStart(format) \o WriteStreamError(format) = S \o (((B \o WriteToolCalls(<<>>)) \o F) \o w)
    BY <1>5 DEF WriteStart, WriteStreamError, WriteStop
  <2>6. WriteToolCalls(<<>>) = <<>>
    <3> DEFINE t == [i \in DOMAIN <<>> |-> <<Event("block_start", i, <<[<<>>[i] EXCEPT !.input = <<>>]>>),
                                             Event("delta", i, <<>>[i].input), Event("block_stop", i, None)>>]
    <3>1. t = <<>>
      OBVIOUS
    <3> HIDE DEF t
    <3>2. Flatten(t) = <<>>
      BY <3>1, FlattenEmpty
    <3> QED
      BY <3>2 DEF WriteToolCalls, t
  <2>w. P \subseteq E
    BY DEF Plain
  <2> HIDE DEF m, o, c, z, f, e, P, E
  <2>7. S \in Seq(P) /\ B \in Seq(P) /\ w \in Seq(E) /\ F \in Seq(E)
    BY <1>1, <2>1, <2>2, <2>3, <2>4, <2>f
  <2>8. <<{}, m, {}>> \in T /\ <<{}, o, {0}>> \in T /\ <<{0}, c, {}>> \in T
    <3>1. <<{}, m, {}>> \in T
      BY <2>1, LedgerHas
    <3> DEFINE k == 0
    <3>k. k \in Nat /\ o.at = k /\ c.at = k
      BY <2>2, <2>3
    <3> HIDE DEF k
    <3>2. <<{}, o, {k}>> \in T
      BY <2>2, <3>k, LedgerHas
    <3>3. <<{k}, c, {}>> \in T
      BY <2>3, <3>k, LedgerHas
    <3> QED
      BY <3>1, <3>2, <3>3 DEF k
  <2> HIDE DEF T
  <2>10. Seq(P) \subseteq Seq(E)
    BY <2>w, SeqMono
  <2>11. Runs(T, S, {}, {0})
    <3>1. S = <<m>> \o <<o>> /\ <<m>> \in Seq(E) /\ <<o>> \in Seq(E)
      BY <2>1, <2>2, Pair
    <3>2. Runs(T, <<m>>, {}, {})
      BY <2>8, RunsOne
    <3>3. Runs(T, <<o>>, {}, {0})
      BY <2>8, RunsOne
    <3> DEFINE u == <<m>>
               v == <<o>>
    <3>u. u \in Seq(E) /\ v \in Seq(E) /\ Runs(T, u, {}, {}) /\ Runs(T, v, {}, {0})
      BY <3>1, <3>2, <3>3
    <3> HIDE DEF u, v
    <3>4. Runs(T, u \o v, {}, {0})
      BY <3>u, RunsConcat
    <3> QED
      BY <3>1, <3>4 DEF u, v
  <2>13. Runs(T, B, {0}, {})
    BY <2>8, RunsOne
  <2>e. w = <<>> \/ \E x \in E : w = <<x>> /\ x.event = "error"
    BY <1>1
  <2> HIDE DEF S, B, F, w
  <2>15. S \in Seq(E) /\ B \in Seq(E)
    BY <2>7, <2>10
  <2>16. p \in Seq(P) /\ p \in Seq(E) /\ Runs(T, p, {}, {})
    <3>1. p \in Seq(P) /\ p \in Seq(E)
      BY <2>7, <2>15, ConcatProperties
    <3>2. Runs(T, p, {}, {})
      BY <2>11, <2>13, <2>15, RunsConcat
    <3> QED
      BY <3>1, <3>2
  <2>17. B \o <<>> = B
    BY <2>15, ConcatEmptySeq
  <2>18. S \o ((B \o F) \o w) = (p \o F) \o w
    <3>1. S \o (B \o (F \o w)) = (S \o B) \o (F \o w)
      <4>1. F \o w \in Seq(E)
        BY <2>7, ConcatProperties
      <4>2. \A x \in Seq(E) : S \o (B \o x) = (S \o B) \o x
        BY <2>15, ConcatAssociative, SMTT(30)
      <4> QED
        BY <4>1, <4>2
    <3>2. (B \o F) \o w = B \o (F \o w)
      BY <2>7, <2>15, ConcatAssociative
    <3>3. (p \o F) \o w = p \o (F \o w)
      <4> HIDE DEF p
      <4> QED
        BY <2>7, <2>16, ConcatAssociative, SMTT(30)
    <3> QED
      BY <3>1, <3>2, <3>3
  <2> HIDE DEF p
  <2>19. p \o F = (p \o <<f>>) \o <<z>>
    <3>1. p \o F = ((p \o <<f>>) \o <<z>>) \o <<>>
      BY <2>4, <2>f, <2>16, Ends DEF F
    <3> DEFINE a == <<f>>
               b == <<z>>
    <3>2. a \in Seq(E) /\ b \in Seq(E)
      BY <2>4, <2>f
    <3> HIDE DEF a, b
    <3>3. p \o a \in Seq(E)
      BY <2>16, <3>2, ConcatProperties
    <3>4. (p \o a) \o b \in Seq(E)
      <4> DEFINE x == p \o a
      <4> HIDE DEF x
      <4>1. x \o b \in Seq(E)
        BY <3>2, <3>3, ConcatProperties DEF x
      <4> QED
        BY <4>1 DEF x
    <3> DEFINE y == (p \o a) \o b
    <3>5. y \o <<>> = y
      <4> HIDE DEF y
      <4> QED
        BY <3>4, ConcatEmptySeq DEF y
    <3> QED
      BY <3>1, <3>5 DEF y, a, b
  <2>20. WellFormed(format, ((p \o <<f>>) \o <<z>>) \o w)
    BY <1>5, <2>4, <2>7, <2>e, <2>f, <2>16, EndsWell DEF P, E, T
  <2> QED
    BY <2>5, <2>6, <2>17, <2>18, <2>19, <2>20
<1> QED
  BY <1>4, <1>5
=============================================================================
