---------------------------- MODULE TextStreamProofs ----------------------------
EXTENDS TextStream, SequenceTheorems, WellFoundedInduction, TLAPS

-----------------------------------------------------------------------------
(* Joining the parts of a text.                                            *)

\* What comes of appending the parts one after the other.
IsJoin(h, n, parts) == h = [i \in 0..n |-> IF i = 0 THEN <<>> ELSE h[i - 1] \o parts[i]]
Joins(n, parts) == CHOOSE h : IsJoin(h, n, parts)
Join(n, parts) == Joins(n, parts)[n]

\* The join of two runs of parts is the joins of the two, joined.
Spliced(n, m, p, q, r) == Join(n + m, r) = Join(n, p) \o Join(m, q)

\* A set of naturals that is not empty has a least one, and Min is it.
LEMMA LeastOf ==
  ASSUME NEW S, S \subseteq Nat, S # {}
  PROVE  Min(S) \in S /\ \A y \in S : Min(S) <= y
<1>1. PICK x \in S : \A y \in S : ~(<<y, x>> \in OpToRel(<, Nat))
  BY NatLessThanWellFounded, WFMin
<1>2. \A y \in S : x <= y
  <2> SUFFICES ASSUME NEW y \in S PROVE x <= y
    OBVIOUS
  <2>1. ~(y < x)
    BY <1>1 DEF OpToRel
  <2> QED
    BY <2>1
<1> QED
  BY <1>2 DEF Min

\* A join, index by index.
LEMMA JoinAt ==
  ASSUME NEW n \in Nat, NEW parts, NEW h, IsJoin(h, n, parts)
  PROVE  h[0] = <<>> /\ \A i \in 1..n : h[i] = h[i - 1] \o parts[i]
<1> DEFINE E(i) == IF i = 0 THEN <<>> ELSE h[i - 1] \o parts[i]
<1>1. h = [i \in 0..n |-> E(i)]
  BY DEF IsJoin
<1>2. \A i \in 0..n : h[i] = E(i)
  <2> HIDE DEF E
  <2> QED
    BY <1>1
<1>3. 0 \in 0..n /\ \A i \in 1..n : i \in 0..n /\ i # 0
  OBVIOUS
<1> QED
  BY <1>2, <1>3

\* The joins of the first parts are joins of all of them, as far as they go.
LEMMA JoinsAgree ==
  ASSUME NEW n \in Nat, NEW m \in Nat, NEW p, NEW q, NEW h, NEW k, n <= m,
         \A i \in 1..n : p[i] = q[i], IsJoin(h, n, p), IsJoin(k, m, q)
  PROVE  \A i \in 0..n : h[i] = k[i]
<1> DEFINE bad == {i \in 0..n : h[i] # k[i]}
<1> SUFFICES ASSUME bad # {} PROVE FALSE
  OBVIOUS
<1>0. bad \subseteq Nat
  OBVIOUS
<1>1. Min(bad) \in bad /\ \A y \in bad : Min(bad) <= y
  BY <1>0, LeastOf
<1> DEFINE least == Min(bad)
<1>2. least \in 0..n /\ h[least] # k[least]
  BY <1>1
<1>3. h[0] = <<>> /\ k[0] = <<>>
  BY JoinAt
<1>4. least # 0
  BY <1>2, <1>3
<1>5. least - 1 \in 0..n /\ least - 1 \notin bad
  BY <1>1, <1>2, <1>4
<1>6. h[least - 1] = k[least - 1]
  BY <1>5
<1>7. h[least] = h[least - 1] \o p[least] /\ k[least] = k[least - 1] \o q[least]
  <2>1. least \in 1..n /\ least \in 1..m
    BY <1>2, <1>4
  <2> HIDE DEF least
  <2> QED
    BY <2>1, JoinAt
<1>8. p[least] = q[least]
  BY <1>2, <1>4
<1> HIDE DEF least
<1> QED
  BY <1>2, <1>6, <1>7, <1>8

\* There is a join, and it is a text.
LEMMA JoinExists ==
  ASSUME NEW T, NEW n \in Nat, NEW parts, \A i \in 1..n : parts[i] \in Seq(T)
  PROVE  \E h \in [0..n -> Seq(T)] : IsJoin(h, n, parts)
<1> DEFINE Has(m) == \E h \in [0..m -> Seq(T)] : IsJoin(h, m, parts)
           bad == {m \in 0..n : ~Has(m)}
<1> SUFFICES ASSUME bad # {} PROVE FALSE
  OBVIOUS
<1>0. bad \subseteq Nat
  OBVIOUS
<1> DEFINE least == Min(bad)
<1>a. least \in bad /\ \A y \in bad : least <= y
  BY <1>0, LeastOf
<1> HIDE DEF least
<1>1. least \in 0..n /\ ~Has(least)
  BY <1>a
<1>2. Has(0)
  <2> DEFINE h == [i \in 0..0 |-> <<>>]
  <2>1. h \in [0..0 -> Seq(T)]
    BY EmptySeq
  <2>2. IsJoin(h, 0, parts)
    BY DEF IsJoin
  <2> QED
    BY <2>1, <2>2
<1>3. least # 0
  BY <1>1, <1>2
<1>4. least - 1 \in 0..n /\ Has(least - 1)
  <2>1. least - 1 \in 0..n /\ ~(least <= least - 1)
    BY <1>1, <1>3
  <2> QED
    BY <2>1, <1>a
<1>5. PICK h \in [0..(least - 1) -> Seq(T)] : IsJoin(h, least - 1, parts)
  BY <1>4
<1> HIDE DEF Has, bad
<1>b. least \in Nat /\ least - 1 \in Nat /\ least \in 1..n
  BY <1>1, <1>3
<1>c. h[0] = <<>> /\ \A i \in 1..(least - 1) : h[i] = h[i - 1] \o parts[i]
  BY <1>5, <1>b, JoinAt
<1> DEFINE K(i) == IF i = least THEN h[least - 1] \o parts[least] ELSE h[i]
           k == [i \in 0..least |-> K(i)]
<1>6. h[least - 1] \o parts[least] \in Seq(T)
  <2>1. h[least - 1] \in Seq(T) /\ parts[least] \in Seq(T)
    BY <1>b, <1>5
  <2> QED
    BY <2>1, ConcatProperties
<1>d. \A i \in 0..least : k[i] = K(i)
  <2> HIDE DEF K
  <2> QED
    OBVIOUS
<1>e. k[least] = h[least - 1] \o parts[least] /\ \A i \in 0..(least - 1) : k[i] = h[i]
  <2>1. least \in 0..least /\ \A i \in 0..(least - 1) : i \in 0..least /\ i # least
    BY <1>b
  <2> HIDE DEF k
  <2> QED
    BY <2>1, <1>d
<1>7. k \in [0..least -> Seq(T)]
  <2>1. \A i \in 0..least : K(i) \in Seq(T)
    BY <1>b, <1>5, <1>6
  <2> HIDE DEF K
  <2> QED
    BY <2>1
<1>8. IsJoin(k, least, parts)
  <2>1. \A i \in 0..least : k[i] = IF i = 0 THEN <<>> ELSE k[i - 1] \o parts[i]
    <3> HIDE DEF k
    <3> TAKE i \in 0..least
    <3>0. 0 \in 0..(least - 1) /\ least - 1 \in 0..(least - 1)
      BY <1>b
    <3>1. CASE i = 0
      BY <3>0, <3>1, <1>c, <1>e
    <3>2. CASE i = least
      BY <3>0, <3>2, <1>e, <1>3
    <3>3. CASE i # 0 /\ i # least
      <4>1. i \in 1..(least - 1) /\ i \in 0..(least - 1) /\ i - 1 \in 0..(least - 1)
        BY <3>3, <1>b
      <4> QED
        BY <4>1, <3>3, <1>c, <1>e
    <3> QED
      BY <3>1, <3>2, <3>3
  <2>2. k = [i \in 0..least |-> k[i]]
    OBVIOUS
  <2> HIDE DEF k
  <2> QED
    BY <2>1, <2>2 DEF IsJoin
<1> QED
  BY <1>1, <1>7, <1>8 DEF Has

LEMMA JoinsJoin ==
  ASSUME NEW T, NEW n \in Nat, NEW parts, \A i \in 1..n : parts[i] \in Seq(T)
  PROVE  IsJoin(Joins(n, parts), n, parts)
<1>1. \E h : IsJoin(h, n, parts)
  BY JoinExists
<1> QED
  BY <1>1 DEF Joins

\* What Join gives, part by part.
LEMMA JoinFacts ==
  ASSUME NEW T, NEW n \in Nat, NEW parts, \A i \in 1..n : parts[i] \in Seq(T)
  PROVE  /\ Join(n, parts) \in Seq(T)
         /\ Join(0, parts) = <<>>
         /\ n # 0 => Join(n, parts) = Join(n - 1, parts) \o parts[n]
<1>1. PICK h \in [0..n -> Seq(T)] : IsJoin(h, n, parts)
  BY JoinExists
<1>2. ASSUME NEW m \in 0..n PROVE Join(m, parts) = h[m]
  <2>1. m \in Nat /\ m <= n /\ m \in 0..m /\ \A i \in 1..m : parts[i] \in Seq(T)
    OBVIOUS
  <2>2. IsJoin(Joins(m, parts), m, parts)
    BY <2>1, JoinsJoin
  <2>3. \A i \in 0..m : Joins(m, parts)[i] = h[i]
    BY <2>1, <2>2, <1>1, JoinsAgree
  <2> QED
    BY <2>1, <2>3 DEF Join
<1>3. h[0] = <<>> /\ \A i \in 1..n : h[i] = h[i - 1] \o parts[i]
  BY <1>1, JoinAt
<1>4. n \in 0..n /\ 0 \in 0..n /\ (n # 0 => n \in 1..n /\ n - 1 \in 0..n)
  OBVIOUS
<1> QED
  BY <1>1, <1>2, <1>3, <1>4

LEMMA JoinNext ==
  ASSUME NEW T, NEW n \in Nat, n # 0, NEW parts, \A i \in 1..n : parts[i] \in Seq(T)
  PROVE  Join(n, parts) = Join(n - 1, parts) \o parts[n]
BY JoinFacts

\* Equal parts have equal joins.
LEMMA JoinSame ==
  ASSUME NEW T, NEW n \in Nat, NEW p, NEW q,
         \A i \in 1..n : p[i] \in Seq(T), \A i \in 1..n : p[i] = q[i]
  PROVE  Join(n, p) = Join(n, q)
<1>1. IsJoin(Joins(n, p), n, p) /\ IsJoin(Joins(n, q), n, q)
  <2>1. \A i \in 1..n : q[i] \in Seq(T)
    OBVIOUS
  <2> QED
    BY <2>1, JoinsJoin
<1>2. \A i \in 0..n : Joins(n, p)[i] = Joins(n, q)[i]
  <2>1. n <= n
    OBVIOUS
  <2> QED
    BY <1>1, <2>1, JoinsAgree
<1>3. n \in 0..n
  OBVIOUS
<1> QED
  BY <1>2, <1>3 DEF Join

LEMMA JoinSplits ==
  ASSUME NEW T, NEW n \in Nat, NEW m \in Nat, NEW p, NEW q, NEW r,
         \A i \in 1..n : p[i] \in Seq(T), \A i \in 1..m : q[i] \in Seq(T),
         \A i \in 1..n : r[i] = p[i], \A i \in 1..m : r[n + i] = q[i]
  PROVE  Spliced(n, m, p, q, r)
<1> USE DEF Spliced
<1> DEFINE bad == {k \in 0..m : Join(n + k, r) # Join(n, p) \o Join(k, q)}
<1> SUFFICES ASSUME bad # {} PROVE FALSE
  OBVIOUS
<1>0. bad \subseteq Nat
  OBVIOUS
<1> DEFINE least == Min(bad)
<1>1. least \in bad /\ \A y \in bad : least <= y
  BY <1>0, LeastOf
<1> HIDE DEF least
<1>a. Join(n, p) \in Seq(T) /\ \A k \in 0..m : Join(k, q) \in Seq(T)
  <2>1. ASSUME NEW k \in 0..m PROVE Join(k, q) \in Seq(T)
    <3>1. k \in Nat /\ \A i \in 1..k : q[i] \in Seq(T)
      OBVIOUS
    <3> QED
      BY <3>1, JoinFacts
  <2> QED
    BY <2>1, JoinFacts
<1>b. \A i \in 1..(n + m) : r[i] \in Seq(T)
  <2> TAKE i \in 1..(n + m)
  <2>1. CASE i <= n
    BY <2>1
  <2>2. CASE i > n
    <3>1. i - n \in 1..m /\ n + (i - n) = i
      BY <2>2
    <3> QED
      BY <3>1
  <2> QED
    BY <2>1, <2>2
<1>2. least # 0
  <2>1. Join(n, p) = Join(n, r)
    <3>1. \A i \in 1..n : p[i] \in Seq(T)
      OBVIOUS
    <3>2. \A i \in 1..n : p[i] = r[i]
      OBVIOUS
    <3> HIDE DEF bad
    <3> QED
      BY <3>1, <3>2, JoinSame, Zenon
  <2>a. n + 0 = n
    OBVIOUS
  <2>2. Join(0, q) = <<>>
    BY JoinFacts
  <2>3. Join(n, p) \o <<>> = Join(n, p)
    BY <1>a, ConcatEmptySeq
  <2> QED
    BY <2>1, <2>a, <2>2, <2>3, <1>1
<1>3. least - 1 \in 0..m /\ least \in 1..m /\ least - 1 \notin bad
  <2>1. least \in 0..m
    BY <1>1
  <2>2. least - 1 \in 0..m /\ least \in 1..m /\ ~(least <= least - 1)
    BY <2>1, <1>2
  <2> HIDE DEF bad
  <2> QED
    BY <2>2, <1>1
<1>4. Join(n + (least - 1), r) = Join(n, p) \o Join(least - 1, q)
  BY <1>3
<1>5. Join(least, q) = Join(least - 1, q) \o q[least]
  <2>1. \A i \in 1..least : q[i] \in Seq(T)
    BY <1>3
  <2>2. least \in Nat /\ least # 0
    BY <1>3
  <2> QED
    BY <2>1, <2>2, JoinNext
<1>6. Join(n + least, r) = Join(n + (least - 1), r) \o r[n + least]
  <2>1. \A i \in 1..(n + least) : r[i] \in Seq(T)
    BY <1>b, <1>3
  <2>2. n + least \in Nat /\ n + least # 0 /\ (n + least) - 1 = n + (least - 1)
    BY <1>3
  <2> QED
    BY <2>1, <2>2, JoinNext
<1>7. r[n + least] = q[least]
  BY <1>3
<1>8. (Join(n, p) \o Join(least - 1, q)) \o q[least] = Join(n, p) \o (Join(least - 1, q) \o q[least])
  <2> DEFINE a == Join(n, p)
             b == Join(least - 1, q)
             d == q[least]
  <2>1. a \in Seq(T) /\ b \in Seq(T) /\ d \in Seq(T)
    BY <1>a, <1>3
  <2>2. (a \o b) \o d = a \o (b \o d)
    <3> HIDE DEF a, b, d, bad
    <3> QED
      BY ONLY <2>1, ConcatAssociative
  <2> QED
    BY <2>2
<1>9. Join(n + least, r) = Join(n, p) \o Join(least, q)
  BY <1>4, <1>5, <1>6, <1>7, <1>8
<1> QED
  BY <1>1, <1>9

\* Parts of one element each join to the sequence of them.
LEMMA JoinSingles ==
  ASSUME NEW T, NEW s \in Seq(T), NEW parts, \A i \in 1..Len(s) : parts[i] = <<s[i]>>
  PROVE  Join(Len(s), parts) = s
<1> DEFINE bad == {k \in 0..Len(s) : Join(k, parts) # SubSeq(s, 1, k)}
<1> SUFFICES bad = {}
  <2>1. Len(s) \in Nat /\ Len(s) \in 0..Len(s) /\ SubSeq(s, 1, Len(s)) = s
    BY LenProperties, SubSeqFull
  <2> QED
    BY <2>1
<1> SUFFICES ASSUME bad # {} PROVE FALSE
  OBVIOUS
<1> DEFINE least == Min(bad)
<1>0. Len(s) \in Nat
  OBVIOUS
<1>1. least \in bad /\ \A y \in bad : least <= y
  <2>1. bad \subseteq Nat
    BY <1>0
  <2> QED
    BY <2>1, LeastOf
<1> HIDE DEF least
<1>2. \A i \in 1..Len(s) : parts[i] \in Seq(T)
  <2> TAKE i \in 1..Len(s)
  <2>1. s[i] \in T
    BY ElementOfSeq
  <2>2. <<s[i]>> \in Seq(T)
    BY <2>1
  <2> QED
    BY <2>2
<1>3. least # 0
  <2>1. Join(0, parts) = <<>>
    BY <1>0, <1>2, JoinFacts
  <2>2. SubSeq(s, 1, 0) = <<>>
    BY SubSeqEmpty
  <2> QED
    BY <2>1, <2>2, <1>1
<1>4. least - 1 \in 0..Len(s) /\ least \in 1..Len(s) /\ least - 1 \notin bad
  BY <1>0, <1>1, <1>3
<1>5. Join(least, parts) = Join(least - 1, parts) \o parts[least]
  <2>1. \A i \in 1..least : parts[i] \in Seq(T)
    BY <1>0, <1>2, <1>4
  <2>2. least \in Nat /\ least # 0
    BY <1>4
  <2> QED
    BY <2>1, <2>2, JoinNext
<1>6. SubSeq(s, 1, least - 1) \o <<s[least]>> = SubSeq(s, 1, least)
  <2>1. 1 \in 1..Len(s) /\ least \in 1..Len(s)
    BY <1>0, <1>4
  <2> QED
    BY <2>1, SubSeqRecursiveSecond
<1> QED
  BY <1>1, <1>4, <1>5, <1>6

\* Parts that are empty join to nothing.
LEMMA JoinNothing ==
  ASSUME NEW n \in Nat, NEW parts, \A i \in 1..n : parts[i] = <<>>
  PROVE  Join(n, parts) = <<>>
<1> DEFINE bad == {k \in 0..n : Join(k, parts) # <<>>}
<1> SUFFICES ASSUME bad # {} PROVE FALSE
  OBVIOUS
<1>0. bad \subseteq Nat
  OBVIOUS
<1> DEFINE least == Min(bad)
<1>1. least \in bad /\ \A y \in bad : least <= y
  BY <1>0, LeastOf
<1> HIDE DEF least
<1>2. \A i \in 1..n : parts[i] \in Seq({})
  BY EmptySeq
<1>3. least # 0
  BY <1>1, <1>2, JoinFacts
<1>4. least - 1 \in 0..n /\ least \in 1..n /\ least - 1 \notin bad
  BY <1>1, <1>3
<1>5. Join(least, parts) = Join(least - 1, parts) \o parts[least]
  <2>1. \A i \in 1..least : parts[i] \in Seq({})
    BY <1>2, <1>4
  <2>2. least \in Nat /\ least # 0
    BY <1>4
  <2> QED
    BY <2>1, <2>2, JoinNext
<1>6. Join(least - 1, parts) = <<>> /\ parts[least] = <<>>
  BY <1>4
<1>7. Join(least, parts) = <<>>
  <2>1. <<>> \o <<>> = <<>>
    BY EmptySeq, ConcatEmptySeq
  <2> QED
    BY <1>5, <1>6, <2>1
<1> QED
  BY <1>1, <1>7

-----------------------------------------------------------------------------
(* FlattenSeq joins.                                                       *)

LEMMA FlattenJoins ==
  ASSUME NEW T, NEW s \in Seq(Seq(T))
  PROVE  FlattenSeq(s) = Join(Len(s), s)
<1>0. Len(s) \in Nat /\ \A i \in 1..Len(s) : s[i] \in Seq(T)
  BY ElementOfSeq
<1>1. CASE Len(s) = 0
  <2>1. s = <<>>
    BY <1>1, EmptySeq
  <2>2. Join(0, s) = <<>>
    BY <1>0, JoinFacts
  <2> QED
    BY <1>1, <2>1, <2>2 DEF FlattenSeq
<1>2. CASE Len(s) # 0
  <2> DEFINE n == Len(s)
             G(g, i) == IF i = 1 THEN s[i] ELSE g[i - 1] \o s[i]
             Is(g) == g = [i \in 1..n |-> G(g, i)]
  <2>0. n \in Nat /\ n # 0 /\ 1 \in 1..n /\ n \in 1..n /\ \A i \in 1..n : s[i] \in Seq(T)
    BY <1>0, <1>2
  <2>a. FlattenSeq(s) = (CHOOSE g : Is(g))[n]
    BY <1>2 DEF FlattenSeq
  <2> HIDE DEF n
  <2>1. PICK h \in [0..n -> Seq(T)] : IsJoin(h, n, s)
    BY <2>0, JoinExists
  <2>2. h[0] = <<>> /\ \A i \in 1..n : h[i] = h[i - 1] \o s[i]
    BY <2>0, <2>1, JoinAt
  <2>3. h[1] = s[1]
    <3>1. h[1] = h[0] \o s[1]
      <4>1. h[1] = h[1 - 1] \o s[1]
        BY <2>0, <2>2
      <4> QED
        BY <4>1
    <3>2. <<>> \o s[1] = s[1]
      BY <2>0, ConcatEmptySeq
    <3> QED
      BY <2>2, <3>1, <3>2
  <2> DEFINE f == [i \in 1..n |-> h[i]]
  <2>4. Is(f)
    <3>1. \A i \in 1..n : f[i] = h[i]
      OBVIOUS
    <3> HIDE DEF f
    <3>2. \A i \in 1..n : f[i] = G(f, i)
      <4> TAKE i \in 1..n
      <4>1. CASE i = 1
        BY <4>1, <3>1, <2>3
      <4>2. CASE i # 1
        <5>1. i - 1 \in 1..n /\ i \in Nat
          BY <4>2, <2>0
        <5> QED
          BY <5>1, <4>2, <3>1, <2>2
      <4> QED
        BY <4>1, <4>2
    <3>3. f = [i \in 1..n |-> f[i]]
      BY DEF f
    <3> HIDE DEF G
    <3> QED
      BY <3>2, <3>3
  <2>5. ASSUME NEW g, Is(g) PROVE g[n] = h[n]
    <3>1. \A i \in 1..n : g[i] = G(g, i)
      <4> HIDE DEF G
      <4> QED
        BY <2>5
    <3> DEFINE K(i) == IF i = 0 THEN <<>> ELSE g[i]
               k == [i \in 0..n |-> K(i)]
    <3>2. k[0] = <<>> /\ \A i \in 1..n : k[i] = g[i]
      <4>1. \A i \in 0..n : k[i] = K(i)
        <5> HIDE DEF K
        <5> QED
          OBVIOUS
      <4>2. 0 \in 0..n /\ \A i \in 1..n : i \in 0..n /\ i # 0
        BY <2>0
      <4> HIDE DEF k
      <4> QED
        BY <4>1, <4>2
    <3>3. k = [i \in 0..n |-> k[i]]
      OBVIOUS
    <3> HIDE DEF k
    <3>4. IsJoin(k, n, s)
      <4>1. \A i \in 0..n : k[i] = IF i = 0 THEN <<>> ELSE k[i - 1] \o s[i]
        <5> TAKE i \in 0..n
        <5>1. CASE i = 0
          BY <5>1, <3>2
        <5>2. CASE i = 1
          <6>1. <<>> \o s[1] = s[1]
            BY <2>0, ConcatEmptySeq
          <6>2. k[i] = s[1] /\ k[i - 1] = <<>>
            BY <5>2, <2>0, <3>1, <3>2
          <6> QED
            BY <5>2, <6>1, <6>2
        <5>3. CASE i # 0 /\ i # 1
          <6>1. i \in 1..n /\ i - 1 \in 1..n
            BY <5>3, <2>0
          <6> QED
            BY <5>3, <6>1, <3>1, <3>2
        <5> QED
          BY <5>1, <5>2, <5>3
      <4> QED
        BY <4>1, <3>3 DEF IsJoin
    <3>5. k[n] = h[n]
      <4>1. n <= n /\ n \in 0..n
        BY <2>0
      <4> QED
        BY <4>1, <3>4, <2>0, <2>1, JoinsAgree
    <3> QED
      BY <3>2, <3>5, <2>0
  <2>6. Is(CHOOSE g : Is(g))
    <3> HIDE DEF Is, f
    <3> QED
      BY <2>4
  <2>7. FlattenSeq(s) = h[n]
    <3> HIDE DEF Is
    <3> QED
      BY <2>a, <2>5, <2>6
  <2>8. Join(n, s) = h[n]
    <3>1. IsJoin(Joins(n, s), n, s)
      BY <2>0, JoinsJoin
    <3>2. n <= n /\ n \in 0..n
      BY <2>0
    <3>3. Joins(n, s)[n] = h[n]
      BY <3>1, <3>2, <2>0, <2>1, JoinsAgree
    <3> QED
      BY <3>3 DEF Join
  <2> QED
    BY <2>7, <2>8 DEF n
<1> QED
  BY <1>1, <1>2

LEMMA FlattenEmpty == FlattenSeq(<<>>) = <<>>
BY DEF FlattenSeq

LEMMA FlattenType ==
  ASSUME NEW T, NEW s \in Seq(Seq(T))
  PROVE  FlattenSeq(s) \in Seq(T)
<1>1. Len(s) \in Nat /\ \A i \in 1..Len(s) : s[i] \in Seq(T)
  BY ElementOfSeq
<1> QED
  BY <1>1, FlattenJoins, JoinFacts

LEMMA FlattenConcat ==
  ASSUME NEW T, NEW s \in Seq(Seq(T)), NEW t \in Seq(Seq(T))
  PROVE  FlattenSeq(s \o t) = FlattenSeq(s) \o FlattenSeq(t)
<1>0. Len(s) \in Nat /\ Len(t) \in Nat
  OBVIOUS
<1>1. /\ s \o t \in Seq(Seq(T)) /\ Len(s \o t) = Len(s) + Len(t)
      /\ \A i \in 1..(Len(s) + Len(t)) :
           (s \o t)[i] = IF i <= Len(s) THEN s[i] ELSE t[i - Len(s)]
  BY ConcatProperties
<1>2. /\ \A i \in 1..Len(s) : (s \o t)[i] = s[i]
      /\ \A i \in 1..Len(t) : (s \o t)[Len(s) + i] = t[i]
  <2>1. ASSUME NEW i \in 1..Len(s) PROVE (s \o t)[i] = s[i]
    BY <1>0, <1>1
  <2>2. ASSUME NEW i \in 1..Len(t) PROVE (s \o t)[Len(s) + i] = t[i]
    <3>1. /\ Len(s) + i \in 1..(Len(s) + Len(t)) /\ ~(Len(s) + i <= Len(s))
          /\ (Len(s) + i) - Len(s) = i
      BY <1>0
    <3> QED
      BY <1>1, <3>1
  <2> QED
    BY <2>1, <2>2
<1>3. (\A i \in 1..Len(s) : s[i] \in Seq(T)) /\ (\A i \in 1..Len(t) : t[i] \in Seq(T))
  BY ElementOfSeq
<1>4. Join(Len(s) + Len(t), s \o t) = Join(Len(s), s) \o Join(Len(t), t)
  <2> DEFINE r == s \o t
  <2>1. \A i \in 1..Len(s) : r[i] = s[i]
    BY <1>2
  <2>2. \A i \in 1..Len(t) : r[Len(s) + i] = t[i]
    BY <1>2
  <2>3. Spliced(Len(s), Len(t), s, t, r)
    <3> HIDE DEF r
    <3> QED
      BY <1>0, <1>3, <2>1, <2>2, JoinSplits, Zenon
  <2> QED
    BY <2>3 DEF Spliced
<1>5. /\ FlattenSeq(s \o t) = Join(Len(s \o t), s \o t)
      /\ FlattenSeq(s) = Join(Len(s), s) /\ FlattenSeq(t) = Join(Len(t), t)
  BY <1>1, FlattenJoins
<1> QED
  BY <1>1, <1>4, <1>5

LEMMA FlattenAppend ==
  ASSUME NEW T, NEW s \in Seq(Seq(T)), NEW x \in Seq(T)
  PROVE  FlattenSeq(Append(s, x)) = FlattenSeq(s) \o x
<1>1. /\ <<x>> \in Seq(Seq(T)) /\ Append(s, x) = s \o <<x>>
      /\ Len(<<x>>) = 1 /\ <<x>>[1] = x
  OBVIOUS
<1>2. FlattenSeq(<<x>>) = Join(1, <<x>>)
  BY <1>1, FlattenJoins
<1>3. Join(1, <<x>>) = Join(0, <<x>>) \o x /\ Join(0, <<x>>) = <<>>
  <2>1. \A i \in 1..1 : <<x>>[i] \in Seq(T)
    OBVIOUS
  <2>2. 1 \in Nat /\ 1 # 0 /\ 1 - 1 = 0
    OBVIOUS
  <2> DEFINE one == 1
  <2>3. Join(one, <<x>>) = Join(one - 1, <<x>>) \o <<x>>[one] /\ Join(0, <<x>>) = <<>>
    <3> HIDE DEF one
    <3>1. one \in Nat /\ one # 0 /\ \A i \in 1..one : <<x>>[i] \in Seq(T)
      BY <2>1, <2>2 DEF one
    <3> QED
      BY <3>1, JoinFacts
  <2> QED
    BY <2>3
<1>4. FlattenSeq(<<x>>) = x
  BY <1>2, <1>3, ConcatEmptySeq
<1> QED
  BY <1>1, <1>4, FlattenConcat

LEMMA FlattenSingles ==
  ASSUME NEW T, NEW s \in Seq(T)
  PROVE  FlattenSeq([i \in DOMAIN s |-> <<s[i]>>]) = s
<1> DEFINE parts == [i \in DOMAIN s |-> <<s[i]>>]
<1>1. DOMAIN s = 1..Len(s) /\ Len(s) \in Nat /\ \A i \in 1..Len(s) : s[i] \in T
  BY LenProperties, ElementOfSeq
<1>2. parts \in Seq(Seq(T)) /\ Len(parts) = Len(s)
  <2>1. \A i \in 1..Len(s) : <<s[i]>> \in Seq(T)
    BY <1>1
  <2> QED
    BY <1>1, <2>1, IsASeq
<1>3. FlattenSeq(parts) = Join(Len(s), parts)
  BY <1>2, FlattenJoins
<1>4. \A i \in 1..Len(s) : parts[i] = <<s[i]>>
  BY <1>1
<1> HIDE DEF parts
<1> QED
  BY <1>3, <1>4, JoinSingles DEF parts

LEMMA FlattenNothing ==
  ASSUME NEW s, NEW n \in Nat, DOMAIN s = 1..n, s = [i \in 1..n |-> <<>>]
  PROVE  FlattenSeq(s) = <<>>
<1>1. s \in Seq(Seq({})) /\ Len(s) = n
  BY EmptySeq, IsASeq
<1> QED
  BY <1>1, FlattenJoins, JoinNothing
-----------------------------------------------------------------------------
(* Characters: what Complete and Continues look at, byte by byte.          *)

Two(b, k) == b[k] = "lead2" /\ k + 1 <= Len(b) /\ b[k + 1] = "rest"
Three(b, k) == b[k] = "lead3" /\ k + 2 <= Len(b) /\ b[k + 1] = "rest" /\ b[k + 2] = "rest"
Starts(b, k) == Two(b, k) \/ Three(b, k)

CompleteAt(b, i) ==
  \/ b[i] \in Ascii
  \/ Starts(b, i)
  \/ i >= 2 /\ Starts(b, i - 1)
  \/ i >= 3 /\ Three(b, i - 2)

ContinuesAt(b, i) ==
  \/ i >= 2 /\ b[i - 1] \in Leads /\ b[i] = "rest"
  \/ i >= 3 /\ b[i - 2] = "lead3" /\ b[i - 1] = "rest" /\ b[i] = "rest"

LEMMA CompleteCases ==
  ASSUME NEW b \in Seq(Bytes), NEW i \in 1..Len(b)
  PROVE  Complete(b, i) <=> CompleteAt(b, i)
<1> DEFINE W(k) == /\ k >= 1 /\ b[k] \in Leads
                   /\ k + Size(b[k]) - 1 \in i..Len(b)
                   /\ \A j \in (k + 1)..(k + Size(b[k]) - 1) : b[j] = "rest"
<1>0. Len(b) \in Nat /\ i \in Nat /\ i >= 1
  OBVIOUS
<1>1. Complete(b, i) <=> b[i] \in Ascii \/ \E k \in (i - 2)..i : W(k)
  BY DEF Complete
<1>2. ASSUME NEW k \in (i - 2)..i
      PROVE  W(k) <=> k >= 1 /\ ((Two(b, k) /\ i <= k + 1) \/ Three(b, k))
  <2>0. k \in Int /\ k <= i /\ i <= k + 2
    BY <1>0
  <2>1. CASE b[k] = "lead2"
    <3>1. Size(b[k]) = 2 /\ b[k] \in Leads
      BY <2>1 DEF Size, Leads
    <3>2. W(k) <=> k >= 1 /\ k + 1 \in i..Len(b) /\ b[k + 1] = "rest"
      <4>1. k + 2 - 1 = k + 1 /\ \A j : j \in (k + 1)..(k + 1) <=> j = k + 1
        BY <2>0
      <4> QED
        BY <3>1, <4>1, <2>0
    <3> QED
      BY <2>0, <2>1, <3>2, <1>0 DEF Two, Three
  <2>2. CASE b[k] = "lead3"
    <3>1. Size(b[k]) = 3 /\ b[k] \in Leads
      BY <2>2 DEF Size, Leads
    <3>2. W(k) <=> k >= 1 /\ k + 2 \in i..Len(b) /\ b[k + 1] = "rest" /\ b[k + 2] = "rest"
      <4>1. k + 3 - 1 = k + 2 /\ \A j : j \in (k + 1)..(k + 2) <=> j = k + 1 \/ j = k + 2
        BY <2>0
      <4> QED
        BY <3>1, <4>1, <2>0
    <3> QED
      BY <2>0, <2>2, <3>2, <1>0 DEF Two, Three
  <2>3. CASE b[k] \notin Leads
    BY <2>3 DEF Two, Three, Leads
  <2> QED
    BY <2>1, <2>2, <2>3 DEF Leads
<1> HIDE DEF W
<1>3. i \in (i - 2)..i /\ i - 1 \in (i - 2)..i /\ i - 2 \in (i - 2)..i
  BY <1>0
<1>4. \A k : k \in (i - 2)..i <=> k = i \/ k = i - 1 \/ k = i - 2
  BY <1>0
<1>5. /\ W(i) <=> Starts(b, i)
      /\ W(i - 1) <=> i >= 2 /\ Starts(b, i - 1)
      /\ W(i - 2) <=> i >= 3 /\ Three(b, i - 2)
  BY <1>0, <1>2, <1>3 DEF Starts
<1> QED
  BY <1>1, <1>4, <1>5 DEF CompleteAt

LEMMA ContinuesCases ==
  ASSUME NEW b \in Seq(Bytes), NEW i \in 1..Len(b)
  PROVE  Continues(b, i) <=> ContinuesAt(b, i)
<1> DEFINE W(k) == /\ i - k >= 1
                   /\ b[i - k] \in Leads /\ k < Size(b[i - k])
                   /\ \A j \in (i - k + 1)..i : b[j] = "rest"
<1>0. Len(b) \in Nat /\ i \in Nat /\ i >= 1
  OBVIOUS
<1>1. Continues(b, i) <=> W(1) \/ W(2)
  BY DEF Continues
<1>2. W(1) <=> i >= 2 /\ b[i - 1] \in Leads /\ b[i] = "rest"
  <2>1. \A j : j \in (i - 1 + 1)..i <=> j = i
    BY <1>0
  <2>2. b[i - 1] \in Leads => 1 < Size(b[i - 1])
    BY DEF Size
  <2> QED
    BY <1>0, <2>1, <2>2
<1>3. W(2) <=> i >= 3 /\ b[i - 2] = "lead3" /\ b[i - 1] = "rest" /\ b[i] = "rest"
  <2>1. \A j : j \in (i - 2 + 1)..i <=> j = i - 1 \/ j = i
    BY <1>0
  <2>2. b[i - 2] \in Leads /\ 2 < Size(b[i - 2]) <=> b[i - 2] = "lead3"
    BY DEF Size, Leads
  <2> QED
    BY <1>0, <2>1, <2>2
<1> HIDE DEF W
<1> QED
  BY <1>1, <1>2, <1>3 DEF ContinuesAt

\* A character that starts and is all there fits in.
LEMMA LeadFits ==
  ASSUME NEW b \in Seq(Bytes), NEW i \in 1..Len(b), Complete(b, i), b[i] \in Leads
  PROVE  Starts(b, i)
<1>1. CompleteAt(b, i)
  BY CompleteCases
<1>2. b[i] # "rest" /\ b[i] \notin Ascii
  BY DEF Leads, Ascii
<1>3. (i - 1) + 1 = i /\ (i - 2) + 2 = i
  OBVIOUS
<1> QED
  BY <1>1, <1>2, <1>3 DEF CompleteAt, Starts, Two, Three

\* A text of whole characters.
AllComplete(a) == \A i \in 1..Len(a) : Complete(a, i)

LEMMA ConcatAt ==
  ASSUME NEW T, NEW a \in Seq(T), NEW t \in Seq(T)
  PROVE  /\ a \o t \in Seq(T) /\ Len(a \o t) = Len(a) + Len(t) /\ Len(a) \in Nat /\ Len(t) \in Nat
         /\ \A i \in 1..Len(a) : (a \o t)[i] = a[i]
         /\ \A i \in 1..Len(t) : (a \o t)[Len(a) + i] = t[i]
<1>0. Len(a) \in Nat /\ Len(t) \in Nat
  OBVIOUS
<1>1. /\ a \o t \in Seq(T) /\ Len(a \o t) = Len(a) + Len(t)
      /\ \A i \in 1..(Len(a) + Len(t)) : (a \o t)[i] = IF i <= Len(a) THEN a[i] ELSE t[i - Len(a)]
  BY ConcatProperties
<1>2. ASSUME NEW i \in 1..Len(a) PROVE (a \o t)[i] = a[i]
  BY <1>0, <1>1
<1>3. ASSUME NEW i \in 1..Len(t) PROVE (a \o t)[Len(a) + i] = t[i]
  <2>1. /\ Len(a) + i \in 1..(Len(a) + Len(t)) /\ ~(Len(a) + i <= Len(a))
        /\ (Len(a) + i) - Len(a) = i
    BY <1>0
  <2> QED
    BY <1>1, <2>1
<1> QED
  BY <1>0, <1>1, <1>2, <1>3

\* More bytes after it leave a character complete.
LEMMA StaysComplete ==
  ASSUME NEW a \in Seq(Bytes), NEW t \in Seq(Bytes), NEW i \in 1..Len(a), Complete(a, i)
  PROVE  Complete(a \o t, i)
<1> DEFINE b == a \o t
<1>1. /\ b \in Seq(Bytes) /\ Len(b) = Len(a) + Len(t) /\ Len(a) \in Nat /\ Len(t) \in Nat
      /\ \A j \in 1..Len(a) : b[j] = a[j]
  BY ConcatAt
<1>2. i \in 1..Len(b)
  BY <1>1
<1>3. CompleteAt(a, i)
  BY CompleteCases
<1> HIDE DEF b
<1>4. \A k \in 1..Len(a) : (Two(a, k) => Two(b, k)) /\ (Three(a, k) => Three(b, k))
  <2> TAKE k \in 1..Len(a)
  <2>1. ASSUME Two(a, k) PROVE Two(b, k)
    <3>1. k + 1 \in 1..Len(a) /\ k + 1 <= Len(b)
      BY <1>1, <2>1 DEF Two
    <3> QED
      BY <1>1, <2>1, <3>1 DEF Two
  <2>2. ASSUME Three(a, k) PROVE Three(b, k)
    <3>1. k + 1 \in 1..Len(a) /\ k + 2 \in 1..Len(a) /\ k + 2 <= Len(b)
      BY <1>1, <2>2 DEF Three
    <3> QED
      BY <1>1, <2>2, <3>1 DEF Three
  <2> QED
    BY <2>1, <2>2
<1>5. (i >= 2 => i - 1 \in 1..Len(a)) /\ (i >= 3 => i - 2 \in 1..Len(a)) /\ i \in 1..Len(a)
  BY <1>1
<1>6. CompleteAt(b, i)
  BY <1>1, <1>3, <1>4, <1>5 DEF CompleteAt, Starts
<1> QED
  BY <1>1, <1>2, <1>6, CompleteCases DEF b

\* What comes after whole characters is read as if they were not there.
LEMMA CompleteBeyond ==
  ASSUME NEW a \in Seq(Bytes), NEW t \in Seq(Bytes), AllComplete(a), NEW i \in 1..Len(t)
  PROVE  /\ Complete(a \o t, Len(a) + i) <=> Complete(t, i)
         /\ Continues(a \o t, Len(a) + i) <=> Continues(t, i)
<1> DEFINE b == a \o t
           n == Len(a)
<1>1. /\ b \in Seq(Bytes) /\ Len(b) = n + Len(t) /\ n \in Nat /\ Len(t) \in Nat
      /\ \A j \in 1..n : b[j] = a[j]
      /\ \A j \in 1..Len(t) : b[n + j] = t[j]
  BY ConcatAt
<1>2. n >= 1 => b[n] \notin Leads
  <2> SUFFICES ASSUME n >= 1, a[n] \in Leads PROVE FALSE
    BY <1>1
  <2>1. n \in 1..n
    BY <1>1
  <2>2. Starts(a, n)
    BY <2>1, LeadFits DEF AllComplete
  <2> QED
    BY <1>1, <2>2 DEF Starts, Two, Three
<1>3. n >= 2 => b[n - 1] # "lead3"
  <2> SUFFICES ASSUME n >= 2, a[n - 1] = "lead3" PROVE FALSE
    BY <1>1
  <2>1. n - 1 \in 1..n
    BY <1>1
  <2>2. Starts(a, n - 1)
    BY <2>1, LeadFits DEF AllComplete, Leads
  <2> QED
    BY <1>1, <2>2 DEF Starts, Two, Three
<1>a. i \in Nat /\ i >= 1 /\ i <= Len(t) /\ n + i \in 1..Len(b)
  BY <1>1
<1>4. /\ CompleteAt(b, n + i) <=> Complete(b, n + i)
      /\ CompleteAt(t, i) <=> Complete(t, i)
      /\ ContinuesAt(b, n + i) <=> Continues(b, n + i)
      /\ ContinuesAt(t, i) <=> Continues(t, i)
  BY <1>1, <1>a, CompleteCases, ContinuesCases
<1> HIDE DEF b, n
<1>5. \A k \in 1..Len(t) : (Two(b, n + k) <=> Two(t, k)) /\ (Three(b, n + k) <=> Three(t, k))
  <2> TAKE k \in 1..Len(t)
  <2>0. k \in Nat /\ b[n + k] = t[k]
    BY <1>1
  <2>1. Two(b, n + k) <=> Two(t, k)
    <3>1. n + k + 1 <= Len(b) <=> k + 1 <= Len(t)
      BY <1>1, <2>0
    <3>2. k + 1 <= Len(t) => b[n + k + 1] = t[k + 1]
      <4> HAVE k + 1 <= Len(t)
      <4>1. k + 1 \in 1..Len(t) /\ n + (k + 1) = n + k + 1
        BY <1>1, <2>0
      <4> QED
        BY <1>1, <4>1
    <3> QED
      BY <2>0, <3>1, <3>2 DEF Two
  <2>2. Three(b, n + k) <=> Three(t, k)
    <3>1. n + k + 2 <= Len(b) <=> k + 2 <= Len(t)
      BY <1>1, <2>0
    <3>2. k + 2 <= Len(t) => b[n + k + 1] = t[k + 1] /\ b[n + k + 2] = t[k + 2]
      <4> HAVE k + 2 <= Len(t)
      <4>1. /\ k + 1 \in 1..Len(t) /\ n + (k + 1) = n + k + 1
            /\ k + 2 \in 1..Len(t) /\ n + (k + 2) = n + k + 2
        BY <1>1, <2>0
      <4>2. b[n + (k + 1)] = t[k + 1] /\ b[n + (k + 2)] = t[k + 2]
        BY <1>1, <4>1
      <4> QED
        BY <4>1, <4>2
    <3> QED
      BY <2>0, <3>1, <3>2 DEF Three
  <2> QED
    BY <2>1, <2>2
<1>6. ~Starts(b, n) \/ n = 0
  BY <1>1, <1>2 DEF Starts, Two, Three, Leads
<1>7. ~Three(b, n - 1) \/ n < 2
  BY <1>1, <1>3 DEF Three
<1>8. CASE i = 1
  <2>1. n + i - 1 = n /\ n + i - 2 = n - 1
    BY <1>8, <1>1
  <2>2. b[n + i] = t[i] /\ Starts(b, n + i) <=> Starts(t, i)
    BY <1>5, <1>1 DEF Starts
  <2>3. CompleteAt(b, n + i) <=> CompleteAt(t, i)
    BY <1>1, <1>5, <1>6, <1>7, <1>8, <2>1 DEF CompleteAt, Starts
  <2>4. ContinuesAt(b, n + i) <=> ContinuesAt(t, i)
    BY <1>1, <1>2, <1>3, <1>8, <2>1 DEF ContinuesAt
  <2> QED
    BY <1>4, <2>3, <2>4 DEF b, n
<1>9. CASE i = 2
  <2>1. n + i - 1 = n + 1 /\ n + i - 2 = n /\ i - 1 = 1 /\ 1 \in 1..Len(t)
    BY <1>9, <1>1, <1>a
  <2>2. ~Three(b, n) \/ n = 0
    BY <1>6 DEF Starts
  <2>3. CompleteAt(b, n + i) <=> CompleteAt(t, i)
    BY <1>1, <1>5, <1>9, <2>1, <2>2 DEF CompleteAt, Starts
  <2>4. n >= 1 => b[n] # "lead3"
    BY <1>2 DEF Leads
  <2>5. ContinuesAt(b, n + i) <=> ContinuesAt(t, i)
    BY <1>1, <1>9, <2>1, <2>4 DEF ContinuesAt
  <2> QED
    BY <1>4, <2>3, <2>5 DEF b, n
<1>10. CASE i >= 3
  <2>1. /\ n + i - 1 = n + (i - 1) /\ n + i - 2 = n + (i - 2)
        /\ i - 1 \in 1..Len(t) /\ i - 2 \in 1..Len(t) /\ n + i >= 3 /\ n + i >= 2 /\ i >= 2
    BY <1>10, <1>1, <1>a
  <2>2. CompleteAt(b, n + i) <=> CompleteAt(t, i)
    BY <1>1, <1>5, <1>10, <2>1 DEF CompleteAt, Starts
  <2>3. b[n + i] = t[i] /\ b[n + i - 1] = t[i - 1] /\ b[n + i - 2] = t[i - 2]
    BY <1>1, <2>1
  <2>4. ContinuesAt(b, n + i) <=> ContinuesAt(t, i)
    BY <1>1, <1>a, <1>10, <2>1, <2>3 DEF ContinuesAt
  <2> QED
    BY <1>4, <2>2, <2>4 DEF b, n
<1> QED
  BY <1>a, <1>8, <1>9, <1>10

LEMMA CompleteJoined ==
  ASSUME NEW a \in Seq(Bytes), NEW t \in Seq(Bytes), AllComplete(a), AllComplete(t)
  PROVE  AllComplete(a \o t)
<1> DEFINE b == a \o t
<1>1. Len(b) = Len(a) + Len(t) /\ Len(a) \in Nat /\ Len(t) \in Nat
  BY ConcatAt
<1> HIDE DEF b
<1> SUFFICES ASSUME NEW i \in 1..Len(b) PROVE Complete(b, i)
  BY DEF AllComplete, b
<1>2. CASE i <= Len(a)
  <2>1. i \in 1..Len(a)
    BY <1>1, <1>2
  <2> QED
    BY <2>1, StaysComplete DEF AllComplete, b
<1>3. CASE i > Len(a)
  <2> DEFINE j == i - Len(a)
  <2>1. j \in 1..Len(t) /\ Len(a) + j = i
    BY <1>1, <1>3
  <2>2. Complete(a \o t, Len(a) + j)
    <3> HIDE DEF j
    <3> QED
      BY <2>1, CompleteBeyond DEF AllComplete
  <2> QED
    BY <2>1, <2>2 DEF b
<1> QED
  BY <1>1, <1>2, <1>3

\* valid_up_to: the characters before it are whole, the one it stops at is not.
LEMMA ValidUpToFacts ==
  ASSUME NEW b \in Seq(Bytes)
  PROVE  /\ ValidUpTo(b) \in 0..Len(b)
         /\ \A i \in 1..ValidUpTo(b) : Complete(b, i)
         /\ ValidUpTo(b) < Len(b) => ~Complete(b, ValidUpTo(b) + 1)
<1> DEFINE bad == {i \in DOMAIN b : ~Complete(b, i)} \cup {Len(b) + 1}
           v == ValidUpTo(b)
<1>0. Len(b) \in Nat /\ DOMAIN b = 1..Len(b)
  OBVIOUS
<1>1. Min(bad) \in bad /\ \A y \in bad : Min(bad) <= y
  <2>1. bad \subseteq Nat /\ bad # {}
    BY <1>0
  <2> HIDE DEF bad
  <2> QED
    BY <2>1, LeastOf
<1>2. v = Min(bad) - 1
  BY DEF ValidUpTo
<1>3. Min(bad) \in 1..(Len(b) + 1) /\ Len(b) + 1 \in bad
  BY <1>0, <1>1
<1>4. v \in 0..Len(b) /\ v + 1 = Min(bad)
  <2> HIDE DEF bad, v
  <2> QED
    BY <1>0, <1>2, <1>3
<1>5. ASSUME NEW i \in 1..v PROVE Complete(b, i)
  <2> HIDE DEF v
  <2>1. i \in DOMAIN b /\ ~(Min(bad) <= i)
    <3> HIDE DEF bad
    <3> QED
      BY <1>0, <1>4
  <2>2. i \notin bad
    BY <1>1, <2>1
  <2> QED
    BY <2>1, <2>2
<1>6. ASSUME v < Len(b) PROVE ~Complete(b, v + 1)
  <2> HIDE DEF v
  <2>1. v + 1 \in bad /\ v + 1 # Len(b) + 1
    <3> HIDE DEF bad
    <3> QED
      BY <1>0, <1>1, <1>4, <1>6
  <2> QED
    BY <2>1
<1> QED
  BY <1>4, <1>5, <1>6

\* An index that is as valid_up_to says is the one.
LEMMA ValidUpToIs ==
  ASSUME NEW b \in Seq(Bytes), NEW v \in 0..Len(b), \A i \in 1..v : Complete(b, i),
         v < Len(b) => ~Complete(b, v + 1)
  PROVE  ValidUpTo(b) = v
<1> DEFINE w == ValidUpTo(b)
<1>0. Len(b) \in Nat
  OBVIOUS
<1>1. /\ w \in 0..Len(b) /\ \A i \in 1..w : Complete(b, i)
      /\ w < Len(b) => ~Complete(b, w + 1)
  BY ValidUpToFacts
<1> HIDE DEF w
<1>2. ~(w < v)
  <2> SUFFICES ASSUME w < v PROVE FALSE
    OBVIOUS
  <2>1. w + 1 \in 1..v /\ w < Len(b)
    BY <1>0, <1>1
  <2> QED
    BY <1>1, <2>1
<1>3. ~(v < w)
  <2> SUFFICES ASSUME v < w PROVE FALSE
    OBVIOUS
  <2>1. v + 1 \in 1..w /\ v < Len(b)
    BY <1>0, <1>1
  <2> QED
    BY <1>1, <2>1
<1>4. w = v
  BY <1>0, <1>1, <1>2, <1>3
<1> QED
  BY <1>4 DEF w

\* The bytes up to there are a text of whole characters by themselves.
LEMMA ValidIsComplete ==
  ASSUME NEW b \in Seq(Bytes)
  PROVE  /\ SubSeq(b, 1, ValidUpTo(b)) \in Seq(Bytes) /\ AllComplete(SubSeq(b, 1, ValidUpTo(b)))
         /\ SubSeq(b, ValidUpTo(b) + 1, Len(b)) \in Seq(Bytes)
         /\ SubSeq(b, 1, ValidUpTo(b)) \o SubSeq(b, ValidUpTo(b) + 1, Len(b)) = b
<1> DEFINE v == ValidUpTo(b)
           a == SubSeq(b, 1, v)
<1>0. Len(b) \in Nat
  OBVIOUS
<1>1. /\ v \in 0..Len(b) /\ \A i \in 1..v : Complete(b, i)
      /\ v < Len(b) => ~Complete(b, v + 1)
  BY ValidUpToFacts
<1> HIDE DEF v
<1>2. /\ a \in Seq(Bytes) /\ Len(a) = v /\ SubSeq(b, v + 1, Len(b)) \in Seq(Bytes)
      /\ \A i \in 1..v : a[i] = b[i]
  <2>1. (\A i \in 1..v : b[i] \in Bytes) /\ \A i \in (v + 1)..Len(b) : b[i] \in Bytes
    BY <1>0, <1>1
  <2>2. /\ a \in Seq(Bytes) /\ Len(a) = IF 1 <= v THEN v - 1 + 1 ELSE 0
        /\ \A i \in 1..(v - 1 + 1) : a[i] = b[1 + i - 1]
    BY <1>1, <2>1, SubSeqProperties
  <2>3. SubSeq(b, v + 1, Len(b)) \in Seq(Bytes)
    BY <1>0, <1>1, <2>1, SubSeqProperties
  <2>4. Len(a) = v
    BY <1>1, <2>2
  <2>5. \A i \in 1..v : a[i] = b[i]
    <3> TAKE i \in 1..v
    <3>1. i \in 1..(v - 1 + 1) /\ 1 + i - 1 = i
      BY <1>1
    <3> HIDE DEF a
    <3> QED
      BY <2>2, <3>1
  <2> QED
    BY <2>2, <2>3, <2>4, <2>5
<1>3. a \o SubSeq(b, v + 1, Len(b)) = b
  <2>1. 1 \in 1..(Len(b) + 1) /\ v \in (1 - 1)..Len(b) /\ Len(b) \in v..Len(b)
    BY <1>0, <1>1
  <2>2. a \o SubSeq(b, v + 1, Len(b)) = SubSeq(b, 1, Len(b))
    BY <2>1, ConcatAdjacentSubSeq
  <2> QED
    BY <2>2, SubSeqFull
<1> HIDE DEF a
<1>4. ASSUME NEW i \in 1..v PROVE Complete(a, i)
  <2>0. i \in Nat /\ i >= 1 /\ i <= v /\ v <= Len(b) /\ v \in Nat /\ i \in 1..Len(b) /\ i \in 1..Len(a)
    BY <1>0, <1>1, <1>2
  <2>1. CompleteAt(b, i)
    BY <1>1, <2>0, CompleteCases
  <2>2. \A k \in 1..v : (Two(b, k) => Two(a, k)) /\ (Three(b, k) => Three(a, k))
    <3> TAKE k \in 1..v
    <3>0. k \in Nat /\ k \in 1..Len(b) /\ Complete(b, k) /\ a[k] = b[k]
      BY <1>0, <1>1, <1>2
    <3>1. k = v => ~Starts(b, k)
      <4> SUFFICES ASSUME k = v, Starts(b, k) PROVE FALSE
        OBVIOUS
      <4>1. v + 1 \in 1..Len(b) /\ b[v + 1] = "rest" /\ v + 1 <= Len(b)
        BY <2>0 DEF Starts, Two, Three
      <4>2. CompleteAt(b, v + 1)
        <5>1. v + 1 >= 2 /\ v + 1 - 1 = v
          BY <2>0
        <5> QED
          BY <5>1 DEF CompleteAt
      <4>3. Complete(b, v + 1)
        BY <4>1, <4>2, CompleteCases
      <4> QED
        BY <1>1, <4>1, <4>3, <2>0
    <3>2. k = v - 1 => ~Three(b, k)
      <4> SUFFICES ASSUME k = v - 1, Three(b, k) PROVE FALSE
        OBVIOUS
      <4>1. v + 1 \in 1..Len(b) /\ v + 1 = k + 2 /\ v + 1 <= Len(b)
        BY <2>0, <3>0 DEF Three
      <4>2. CompleteAt(b, v + 1)
        <5>1. v + 1 >= 3 /\ v + 1 - 2 = k
          BY <2>0, <3>0, <4>1
        <5>2. Three(b, v + 1 - 2)
          <6> DEFINE u == v + 1 - 2
          <6>1. u = k
            BY <5>1
          <6> QED
            BY <6>1
        <5> QED
          BY <5>1, <5>2, <2>0 DEF CompleteAt
      <4>3. Complete(b, v + 1)
        BY <4>1, <4>2, CompleteCases
      <4> QED
        BY <1>1, <4>1, <4>3, <2>0
    <3>3. Two(b, k) => Two(a, k)
      <4> HAVE Two(b, k)
      <4>1. k # v
        BY <3>1 DEF Starts
      <4>2. k + 1 \in 1..v
        BY <2>0, <3>0, <4>1
      <4> QED
        BY <1>2, <2>0, <3>0, <4>2 DEF Two
    <3>4. Three(b, k) => Three(a, k)
      <4> HAVE Three(b, k)
      <4>1. k # v /\ k # v - 1
        BY <3>1, <3>2 DEF Starts
      <4>2. k + 1 \in 1..v /\ k + 2 \in 1..v
        BY <2>0, <3>0, <4>1
      <4> QED
        BY <1>2, <2>0, <3>0, <4>2 DEF Three
    <3> QED
      BY <3>3, <3>4
  <2>3. (i >= 2 => i - 1 \in 1..v) /\ (i >= 3 => i - 2 \in 1..v)
    BY <2>0
  <2>4. CompleteAt(a, i)
    BY <1>2, <2>1, <2>2, <2>3 DEF CompleteAt, Starts
  <2> QED
    BY <1>2, <2>0, <2>4, CompleteCases
<1> QED
  BY <1>2, <1>3, <1>4 DEF AllComplete, a, v

-----------------------------------------------------------------------------
(* Lossy decoding, and bytes that are broken.                              *)

TextBytes == Bytes \cup {"?"}
Pieces(b) == [i \in 1..Len(b) |-> Decoded(b, i)]

LEMMA PiecesType ==
  ASSUME NEW b \in Seq(Bytes)
  PROVE  \A i \in 1..Len(b) : Pieces(b)[i] \in Seq(TextBytes) /\ Pieces(b)[i] = Decoded(b, i)
<1> TAKE i \in 1..Len(b)
<1>1. Pieces(b)[i] = Decoded(b, i)
  <2> DEFINE D(j) == Decoded(b, j)
  <2>1. Pieces(b) = [j \in 1..Len(b) |-> D(j)]
    BY DEF Pieces
  <2> HIDE DEF D
  <2>2. Pieces(b)[i] = D(i)
    BY <2>1
  <2> QED
    BY <2>2 DEF D
<1>2. b[i] \in TextBytes /\ "?" \in TextBytes
  BY ElementOfSeq DEF TextBytes
<1>3. <<b[i]>> \in Seq(TextBytes) /\ <<"?">> \in Seq(TextBytes) /\ <<>> \in Seq(TextBytes)
  BY <1>2
<1>4. Decoded(b, i) \in Seq(TextBytes)
  BY <1>3 DEF Decoded
<1> QED
  BY <1>1, <1>4

LEMMA LossyJoins ==
  ASSUME NEW b \in Seq(Bytes)
  PROVE  Lossy(b) = Join(Len(b), Pieces(b)) /\ Lossy(b) \in Seq(TextBytes)
<1> DEFINE n == Len(b)
           G(g, i) == IF i = 0 THEN <<>> ELSE g[i - 1] \o Decoded(b, i)
           Is(g) == g = [i \in 0..n |-> G(g, i)]
<1>0. n \in Nat
  OBVIOUS
<1>1. Lossy(b) = (CHOOSE g : Is(g))[n]
  BY DEF Lossy
<1>2. \A i \in 1..n : Pieces(b)[i] \in Seq(TextBytes) /\ Pieces(b)[i] = Decoded(b, i)
  BY PiecesType
<1> HIDE DEF n
<1>3. ASSUME NEW g PROVE Is(g) <=> IsJoin(g, n, Pieces(b))
  <2> DEFINE H(i) == IF i = 0 THEN <<>> ELSE g[i - 1] \o Pieces(b)[i]
  <2>1. ASSUME NEW i \in 0..n PROVE G(g, i) = H(i)
    <3>1. CASE i = 0
      BY <3>1
    <3>2. CASE i # 0
      <4>1. i \in 1..n
        BY <3>2, <1>0
      <4> QED
        BY <3>2, <4>1, <1>2
    <3> QED
      BY <3>1, <3>2
  <2> HIDE DEF G
  <2>2. [i \in 0..n |-> G(g, i)] = [i \in 0..n |-> H(i)]
    <3> HIDE DEF H
    <3> QED
      BY <2>1
  <2> QED
    BY <2>2 DEF IsJoin
<1> HIDE DEF Is
<1>4. IsJoin(Joins(n, Pieces(b)), n, Pieces(b))
  BY <1>0, <1>2, JoinsJoin
<1>5. IsJoin((CHOOSE g : Is(g)), n, Pieces(b))
  <2>1. Is(CHOOSE g : Is(g))
    BY <1>3, <1>4
  <2> QED
    BY <1>3, <2>1
<1>6. (CHOOSE g : Is(g))[n] = Joins(n, Pieces(b))[n]
  <2>1. n <= n /\ n \in 0..n
    BY <1>0
  <2> QED
    BY <1>0, <1>4, <1>5, <2>1, JoinsAgree
<1>7. Join(n, Pieces(b)) \in Seq(TextBytes)
  BY <1>0, <1>2, JoinFacts
<1> QED
  BY <1>1, <1>6, <1>7 DEF Join, n

\* Whole characters come through, whatever follows them.
LEMMA LossyBeyond ==
  ASSUME NEW a \in Seq(Bytes), NEW t \in Seq(Bytes), AllComplete(a)
  PROVE  Lossy(a \o t) = a \o Lossy(t)
<1> DEFINE b == a \o t
           n == Len(a)
           m == Len(t)
           p == [i \in 1..n |-> <<a[i]>>]
<1>1. /\ b \in Seq(Bytes) /\ Len(b) = n + m /\ n \in Nat /\ m \in Nat
      /\ \A i \in 1..n : b[i] = a[i]
      /\ \A i \in 1..m : b[n + i] = t[i]
  BY ConcatAt
<1>2. ASSUME NEW i \in 1..n PROVE Pieces(b)[i] = p[i] /\ p[i] = <<a[i]>>
  <2>1. Complete(b, i)
    BY StaysComplete DEF AllComplete
  <2>2. i \in 1..Len(b)
    BY <1>1
  <2>3. Decoded(b, i) = <<a[i]>>
    <3>1. b[i] = a[i]
      BY <1>1
    <3> HIDE DEF b
    <3> QED
      BY <2>1, <3>1 DEF Decoded
  <2>4. Pieces(b)[i] = Decoded(b, i)
    BY <1>1, <2>2, PiecesType
  <2> QED
    BY <2>3, <2>4
<1>3. ASSUME NEW i \in 1..m PROVE Pieces(b)[n + i] = Pieces(t)[i]
  <2>1. /\ Complete(b, n + i) <=> Complete(t, i)
        /\ Continues(b, n + i) <=> Continues(t, i)
    BY CompleteBeyond
  <2>2. n + i \in 1..Len(b) /\ b[n + i] = t[i]
    BY <1>1
  <2>3. Decoded(b, n + i) = Decoded(t, i)
    <3> HIDE DEF b, n
    <3> QED
      BY <2>1, <2>2 DEF Decoded
  <2>4. Pieces(b)[n + i] = Decoded(b, n + i)
    <3> HIDE DEF b, n
    <3> QED
      BY <1>1, <2>2, PiecesType
  <2>5. Pieces(t)[i] = Decoded(t, i)
    BY PiecesType
  <2> QED
    BY <2>3, <2>4, <2>5
<1>4. \A i \in 1..n : p[i] \in Seq(TextBytes)
  <2> TAKE i \in 1..n
  <2>1. a[i] \in TextBytes
    BY ElementOfSeq DEF TextBytes
  <2>2. <<a[i]>> \in Seq(TextBytes)
    BY <2>1
  <2> QED
    BY <1>2, <2>2
<1>5. \A i \in 1..m : Pieces(t)[i] \in Seq(TextBytes)
  BY PiecesType
<1>6. Join(n, p) = a
  <2>1. \A i \in 1..Len(a) : p[i] = <<a[i]>>
    BY <1>2
  <2> HIDE DEF p
  <2> QED
    BY <2>1, JoinSingles DEF n
<1>7. Lossy(t) = Join(m, Pieces(t)) /\ Lossy(b) = Join(n + m, Pieces(b))
  BY <1>1, LossyJoins
<1>8. Spliced(n, m, p, Pieces(t), Pieces(b))
  <2>1. \A i \in 1..n : Pieces(b)[i] = p[i]
    BY <1>2
  <2>2. \A i \in 1..m : Pieces(b)[n + i] = Pieces(t)[i]
    BY <1>3
  <2> HIDE DEF b, n, m, p
  <2> QED
    BY <1>1, <1>4, <1>5, <2>1, <2>2, JoinSplits, Zenon
<1> QED
  BY <1>6, <1>7, <1>8 DEF Spliced

LEMMA LossyComplete ==
  ASSUME NEW a \in Seq(Bytes), AllComplete(a)
  PROVE  Lossy(a) = a
<1>1. <<>> \in Seq(Bytes) /\ a \o <<>> = a
  BY EmptySeq, ConcatEmptySeq
<1>2. Lossy(<<>>) = <<>>
  <2>1. Lossy(<<>>) = Join(0, Pieces(<<>>))
    <3>1. Len(<<>>) = 0
      BY EmptySeq
    <3> QED
      BY <1>1, <3>1, LossyJoins
  <2>2. \A i \in 1..0 : Pieces(<<>>)[i] = <<>>
    OBVIOUS
  <2>3. Join(0, Pieces(<<>>)) = <<>>
    BY <2>2, JoinNothing
  <2> QED
    BY <2>1, <2>3
<1> QED
  BY <1>1, <1>2, LossyBeyond

\* Bytes that begin in the middle of a character come out with a replacement
\* first.
LEMMA LossyStart ==
  ASSUME NEW t \in Seq(Bytes), t # <<>>, ~Complete(t, 1)
  PROVE  Lossy(t) # <<>> /\ Head(Lossy(t)) = "?"
<1> DEFINE n == Len(t)
           P == Pieces(t)
           q == [i \in 1..(n - 1) |-> P[1 + i]]
<1>1. n \in Nat /\ n # 0 /\ 1 \in 1..n /\ n - 1 \in Nat /\ 1 + (n - 1) = n
  BY EmptySeq
<1>2. P[1] = <<"?">>
  <2>1. ~ContinuesAt(t, 1)
    BY DEF ContinuesAt
  <2>2. ~Continues(t, 1)
    BY <1>1, <2>1, ContinuesCases
  <2>3. Decoded(t, 1) = <<"?">>
    BY <2>2 DEF Decoded
  <2> QED
    BY <1>1, <2>3, PiecesType
<1>3. \A i \in 1..n : P[i] \in Seq(TextBytes)
  BY PiecesType
<1>4. Lossy(t) = Join(n, P)
  BY LossyJoins
<1> HIDE DEF n, P
<1>5. \A i \in 1..(n - 1) : q[i] = P[1 + i] /\ q[i] \in Seq(TextBytes)
  <2> TAKE i \in 1..(n - 1)
  <2>1. q[i] = P[1 + i] /\ 1 + i \in 1..n
    BY <1>1
  <2> QED
    BY <1>3, <2>1
<1> HIDE DEF q
<1>6. Spliced(1, n - 1, P, q, P)
  <2>1. \A i \in 1..1 : P[i] \in Seq(TextBytes)
    BY <1>1, <1>3
  <2>2. \A i \in 1..1 : P[i] = P[i]
    OBVIOUS
  <2>3. \A i \in 1..(n - 1) : P[1 + i] = q[i]
    BY <1>5
  <2>4. 1 \in Nat /\ \A i \in 1..(n - 1) : q[i] \in Seq(TextBytes)
    BY <1>5
  <2> QED
    BY <1>1, <2>1, <2>2, <2>3, <2>4, JoinSplits, Zenon
<1>7. Join(1, P) = <<"?">>
  <2> DEFINE one == 1
  <2>1. one \in Nat /\ one # 0 /\ \A i \in 1..one : P[i] \in Seq(TextBytes)
    BY <1>1, <1>3
  <2>2. Join(one, P) = Join(one - 1, P) \o P[one] /\ Join(0, P) = <<>>
    <3> HIDE DEF one
    <3> QED
      BY <2>1, JoinFacts
  <2>3. <<>> \o <<"?">> = <<"?">>
    <3>1. <<"?">> \in Seq({"?"})
      OBVIOUS
    <3> QED
      BY <3>1, ConcatEmptySeq
  <2> QED
    BY <2>2, <2>3, <1>2
<1>8. Join(n - 1, q) \in Seq(TextBytes)
  BY <1>1, <1>5, JoinFacts
<1>9. Lossy(t) = <<"?">> \o Join(n - 1, q)
  BY <1>1, <1>4, <1>6, <1>7 DEF Spliced
<1>10. \A x \in Seq(TextBytes) : <<"?">> \o x # <<>> /\ Head(<<"?">> \o x) = "?"
  OBVIOUS
<1> QED
  BY <1>8, <1>9, <1>10

LEMMA BrokenCases ==
  ASSUME NEW b \in Seq(Bytes)
  PROVE  Broken(b) <=> /\ ValidUpTo(b) < Len(b)
                       /\ \/ b[ValidUpTo(b) + 1] \notin Leads
                          \/ \E j \in (ValidUpTo(b) + 2)..Len(b) : ~Continues(b, j)
<1> DEFINE v == ValidUpTo(b)
<1>1. v \in 0..Len(b) /\ Len(b) \in Nat
  BY ValidUpToFacts
<1>2. Short(b) <=> /\ v + 1 <= Len(b) /\ b[v + 1] \in Leads
                   /\ \A j \in (v + 1 + 1)..Len(b) : Continues(b, j)
  BY DEF Short
<1> HIDE DEF v
<1>3. v + 1 + 1 = v + 2 /\ (v + 1 <= Len(b) <=> v < Len(b))
  BY <1>1
<1>4. Broken(b) <=> v < Len(b) /\ ~Short(b)
  BY DEF Broken, v
<1>5. Short(b) <=> /\ v < Len(b) /\ b[v + 1] \in Leads
                   /\ \A j \in (v + 2)..Len(b) : Continues(b, j)
  BY <1>2, <1>3
<1>6. Broken(b) <=> v < Len(b) /\ (b[v + 1] \notin Leads \/ \E j \in (v + 2)..Len(b) : ~Continues(b, j))
  BY <1>4, <1>5
<1> QED
  BY <1>6 DEF v

\* More bytes after them leave bytes broken.
LEMMA BrokenStays ==
  ASSUME NEW b \in Seq(Bytes), NEW t \in Seq(Bytes), Broken(b)
  PROVE  Broken(b \o t)
<1> DEFINE c == b \o t
           v == ValidUpTo(b)
           i == v + 1
<1>1. /\ c \in Seq(Bytes) /\ Len(c) = Len(b) + Len(t) /\ Len(b) \in Nat /\ Len(t) \in Nat
      /\ \A j \in 1..Len(b) : c[j] = b[j]
  BY ConcatAt
<1>2. /\ v \in 0..Len(b) /\ \A j \in 1..v : Complete(b, j)
      /\ v < Len(b) => ~Complete(b, v + 1)
  BY ValidUpToFacts
<1>3. v < Len(b) /\ (b[v + 1] \notin Leads \/ \E j \in (v + 2)..Len(b) : ~Continues(b, j))
  BY BrokenCases
<1>a. \A j \in 1..v : Complete(c, j)
  <2> TAKE j \in 1..v
  <2>1. j \in 1..Len(b) /\ Complete(b, j)
    <3> HIDE DEF v
    <3> QED
      BY <1>1, <1>2
  <2> HIDE DEF v
  <2> QED
    BY <2>1, StaysComplete
<1> HIDE DEF c, v
<1>4. /\ v \in Nat /\ i \in 1..Len(b) /\ i \in Nat /\ i >= 1 /\ i \in 1..Len(c) /\ v < Len(c)
      /\ v + 2 = i + 1 /\ v \in 0..Len(c)
  BY <1>1, <1>2, <1>3
<1>b. ~Complete(b, i) /\ \A j \in 1..(i - 1) : Complete(b, j) /\ j \in 1..Len(b)
  BY <1>1, <1>2, <1>3
<1>c. b[i] \notin Leads \/ \E j \in (i + 1)..Len(b) : ~Continues(b, j)
  BY <1>3, <1>4
<1> HIDE DEF i
<1>5. ~CompleteAt(b, i)
  BY <1>4, <1>b, CompleteCases
<1>6. ASSUME NEW j \in (i + 1)..Len(b), ~Continues(b, j)
      PROVE  ~Continues(c, j) /\ ~ContinuesAt(b, j)
  <2>1. j \in 1..Len(b) /\ j \in 1..Len(c) /\ j \in Nat
    BY <1>1, <1>4
  <2>2. ~ContinuesAt(b, j)
    BY <1>6, <2>1, ContinuesCases
  <2>3. c[j] = b[j] /\ (j >= 2 => c[j - 1] = b[j - 1]) /\ (j >= 3 => c[j - 2] = b[j - 2])
    <3>1. (j >= 2 => j - 1 \in 1..Len(b)) /\ (j >= 3 => j - 2 \in 1..Len(b))
      BY <1>1, <2>1
    <3> QED
      BY <1>1, <2>1, <3>1
  <2>4. ~ContinuesAt(c, j)
    BY <2>2, <2>3 DEF ContinuesAt
  <2> QED
    BY <1>1, <2>1, <2>2, <2>4, ContinuesCases
<1>7. ~Starts(c, i)
  <2> SUFFICES ASSUME Starts(c, i) PROVE FALSE
    OBVIOUS
  <2>1. c[i] = b[i] /\ c[i + 1] = "rest" /\ b[i] \in Leads
    BY <1>1, <1>4 DEF Starts, Two, Three, Leads
  <2>2. PICK j \in (i + 1)..Len(b) : ~Continues(b, j)
    BY <1>c, <2>1
  <2>3. i + 1 \in 1..Len(b) /\ i + 1 <= Len(b) /\ b[i + 1] = "rest"
    <3>1. i + 1 \in 1..Len(b) /\ i + 1 <= Len(b)
      BY <1>1, <1>4
    <3> QED
      BY <1>1, <2>1, <3>1
  <2>4. b[i] = "lead3"
    BY <1>5, <2>1, <2>3 DEF CompleteAt, Starts, Two, Leads
  <2>5. c[i + 2] = "rest"
    BY <2>1, <2>4 DEF Starts, Two, Three
  <2>6. i + 2 > Len(b)
    <3> SUFFICES ASSUME i + 2 <= Len(b) PROVE FALSE
      BY <1>1, <1>4
    <3>1. i + 2 \in 1..Len(b)
      BY <1>1, <1>4
    <3>2. b[i + 2] = "rest"
      BY <1>1, <2>5, <3>1
    <3> QED
      BY <1>5, <2>3, <2>4, <3>2 DEF CompleteAt, Starts, Three
  <2>7. j = i + 1
    BY <1>1, <1>4, <2>6
  <2>8. ContinuesAt(b, i + 1)
    <3> DEFINE u == i + 1
    <3>1. u >= 2 /\ u - 1 = i
      BY <1>4
    <3>2. b[u - 1] \in Leads /\ b[u] = "rest"
      BY <2>1, <2>3, <3>1
    <3>3. ContinuesAt(b, u)
      <4> HIDE DEF u
      <4> QED
        BY <3>1, <3>2 DEF ContinuesAt
    <3> QED
      BY <3>3
  <2> QED
    BY <1>6, <2>2, <2>7, <2>8
<1>8. i >= 2 => ~Starts(c, i - 1)
  <2> SUFFICES ASSUME i >= 2, Starts(c, i - 1) PROVE FALSE
    OBVIOUS
  <2>1. i - 1 \in 1..(i - 1) /\ i - 1 \in 1..Len(b)
    BY <1>4
  <2>2. c[i - 1] = b[i - 1] /\ b[i - 1] \in Leads
    BY <1>1, <2>1 DEF Starts, Two, Three, Leads
  <2>3. Starts(b, i - 1)
    BY <1>b, <2>1, <2>2, LeadFits
  <2> QED
    BY <1>5, <2>3 DEF CompleteAt
<1>9. i >= 3 => ~Three(c, i - 2)
  <2> SUFFICES ASSUME i >= 3, Three(c, i - 2) PROVE FALSE
    OBVIOUS
  <2>1. i - 2 \in 1..(i - 1) /\ i - 2 \in 1..Len(b)
    BY <1>4
  <2>2. c[i - 2] = b[i - 2] /\ b[i - 2] \in Leads /\ b[i - 2] = "lead3"
    BY <1>1, <2>1 DEF Three, Leads
  <2>3. Starts(b, i - 2)
    BY <1>b, <2>1, <2>2, LeadFits
  <2>4. Three(b, i - 2)
    BY <2>2, <2>3 DEF Starts, Two
  <2> QED
    BY <1>5, <2>4 DEF CompleteAt
<1>10. ~Complete(c, i)
  <2>1. c[i] \notin Ascii
    BY <1>1, <1>4, <1>5 DEF CompleteAt
  <2>2. ~CompleteAt(c, i)
    BY <1>7, <1>8, <1>9, <2>1 DEF CompleteAt
  <2> QED
    BY <1>1, <1>4, <2>2, CompleteCases
<1>11. ValidUpTo(c) = v
  BY <1>1, <1>4, <1>a, <1>10, ValidUpToIs DEF i
<1>12. c[i] \notin Leads \/ \E j \in (i + 1)..Len(c) : ~Continues(c, j)
  <2>1. CASE b[i] \notin Leads
    BY <1>1, <1>4, <2>1
  <2>2. CASE \E j \in (i + 1)..Len(b) : ~Continues(b, j)
    <3>1. PICK j \in (i + 1)..Len(b) : ~Continues(b, j)
      BY <2>2
    <3>2. j \in (i + 1)..Len(c)
      BY <1>1, <1>4
    <3> QED
      BY <1>6, <3>1, <3>2
  <2> QED
    BY <1>c, <2>1, <2>2
<1>13. /\ ValidUpTo(c) < Len(c)
       /\ c[ValidUpTo(c) + 1] \notin Leads \/ \E j \in (ValidUpTo(c) + 2)..Len(c) : ~Continues(c, j)
  BY <1>4, <1>11, <1>12 DEF i
<1> QED
  BY <1>1, <1>13, BrokenCases DEF c

\* Bytes are as broken as what comes after the whole characters among them.
LEMMA BrokenBeyond ==
  ASSUME NEW a \in Seq(Bytes), NEW t \in Seq(Bytes), AllComplete(a), Broken(t)
  PROVE  Broken(a \o t)
<1> DEFINE c == a \o t
           n == Len(a)
           v == ValidUpTo(t)
<1>1. /\ c \in Seq(Bytes) /\ Len(c) = n + Len(t) /\ n \in Nat /\ Len(t) \in Nat
      /\ \A j \in 1..Len(t) : c[n + j] = t[j]
  BY ConcatAt
<1>2. /\ v \in 0..Len(t) /\ \A j \in 1..v : Complete(t, j)
      /\ v < Len(t) => ~Complete(t, v + 1)
  BY ValidUpToFacts
<1>3. v < Len(t) /\ (t[v + 1] \notin Leads \/ \E j \in (v + 2)..Len(t) : ~Continues(t, j))
  BY BrokenCases
<1>a. \A j \in 1..n : Complete(c, j)
  BY StaysComplete DEF AllComplete
<1>b. \A j \in 1..Len(t) : /\ Complete(c, n + j) <=> Complete(t, j)
                           /\ Continues(c, n + j) <=> Continues(t, j)
  BY CompleteBeyond
<1> HIDE DEF c, n, v
<1>4. v \in Nat /\ v + 1 \in 1..Len(t) /\ n + v \in 0..Len(c) /\ n + v < Len(c) /\ n + (v + 1) = n + v + 1
  BY <1>1, <1>2, <1>3
<1>5. \A j \in 1..(n + v) : Complete(c, j)
  <2> TAKE j \in 1..(n + v)
  <2>1. CASE j <= n
    BY <1>1, <1>a, <2>1
  <2>2. CASE j > n
    <3>1. j - n \in 1..v /\ j - n \in 1..Len(t) /\ n + (j - n) = j
      BY <1>1, <1>4, <2>2
    <3>2. Complete(c, n + (j - n))
      BY <1>2, <1>b, <3>1
    <3> QED
      BY <3>1, <3>2
  <2> QED
    BY <1>1, <1>4, <2>1, <2>2
<1>6. ~Complete(c, n + v + 1)
  <2>1. ~Complete(c, n + (v + 1))
    BY <1>2, <1>3, <1>4, <1>b
  <2> QED
    BY <1>4, <2>1
<1>7. ValidUpTo(c) = n + v
  <2> DEFINE w == n + v
  <2>1. w \in 0..Len(c) /\ (\A j \in 1..w : Complete(c, j)) /\ ~Complete(c, w + 1)
    BY <1>4, <1>5, <1>6
  <2>2. ValidUpTo(c) = w
    <3> HIDE DEF w
    <3> QED
      BY <1>1, <2>1, ValidUpToIs
  <2> QED
    BY <2>2
<1>8. c[n + v + 1] \notin Leads \/ \E j \in (n + v + 2)..Len(c) : ~Continues(c, j)
  <2>1. CASE t[v + 1] \notin Leads
    <3>1. c[n + (v + 1)] = t[v + 1]
      BY <1>1, <1>4
    <3> QED
      BY <1>4, <2>1, <3>1
  <2>2. CASE \E j \in (v + 2)..Len(t) : ~Continues(t, j)
    <3>1. PICK j \in (v + 2)..Len(t) : ~Continues(t, j)
      BY <2>2
    <3>2. j \in 1..Len(t) /\ n + j \in (n + v + 2)..Len(c)
      BY <1>1, <1>4
    <3>3. ~Continues(c, n + j)
      BY <1>b, <3>1, <3>2
    <3> QED
      BY <3>2, <3>3
  <2> QED
    BY <1>3, <2>1, <2>2
<1>9. /\ ValidUpTo(c) < Len(c)
      /\ c[ValidUpTo(c) + 1] \notin Leads \/ \E j \in (ValidUpTo(c) + 2)..Len(c) : ~Continues(c, j)
  BY <1>4, <1>7, <1>8
<1> QED
  BY <1>1, <1>9, BrokenCases DEF c

-----------------------------------------------------------------------------
(* The decoders.                                                           *)

Decoders == [pending : Seq(Bytes), atStart : BOOLEAN, text : Seq(TextBytes)]

\* What a decoder holds back does not begin with a character that is all there.
HoldsBack(d) == d.pending = <<>> \/ ~Complete(d.pending, 1)

\* What was sent of the bytes a decoder read: the whole characters, and it holds
\* the rest; SentencePiece takes the leading space away.
ToldAs(tk, bytes, d, sent, raw) ==
  /\ AllComplete(raw) /\ HoldsBack(d)
  /\ bytes = raw \o d.pending
  /\ IF tk = "spm" THEN sent = Unspaced(raw) /\ (d.atStart <=> raw = <<>>) ELSE sent = raw
ToldSoFar(tk, bytes, d, sent) == \E raw \in Seq(Bytes) : ToldAs(tk, bytes, d, sent, raw)

LEMMA FreshTold ==
  ASSUME NEW tk
  PROVE  FreshDecoder \in Decoders /\ ToldSoFar(tk, <<>>, FreshDecoder, <<>>)
<1>1. <<>> \in Seq(Bytes) /\ <<>> \in Seq(TextBytes) /\ AllComplete(<<>>)
  BY EmptySeq DEF AllComplete
<1>2. <<>> \o <<>> = <<>>
  BY <1>1, ConcatEmptySeq
<1>3. Unspaced(<<>>) = <<>>
  BY DEF Unspaced
<1> QED
  BY <1>1, <1>2, <1>3 DEF FreshDecoder, Decoders, ToldSoFar, ToldAs, HoldsBack

\* What becomes of the bytes held and the new ones when whole characters are
\* given out.
Gives(d, e, bytes) ==
  /\ e.text \in Seq(Bytes) /\ AllComplete(e.text)
  /\ e.pending \in Seq(Bytes) /\ HoldsBack(e)
  /\ d.pending \o bytes = e.text \o e.pending

LEMMA SplitsValid ==
  ASSUME NEW all \in Seq(Bytes), NEW a, NEW t, a = SubSeq(all, 1, ValidUpTo(all)),
         t = SubSeq(all, ValidUpTo(all) + 1, Len(all))
  PROVE  /\ a \in Seq(Bytes) /\ AllComplete(a) /\ t \in Seq(Bytes) /\ a \o t = all
         /\ t = <<>> \/ ~Complete(t, 1)
<1>1. a \in Seq(Bytes) /\ AllComplete(a) /\ t \in Seq(Bytes) /\ a \o t = all
  BY ValidIsComplete
<1> DEFINE v == ValidUpTo(all)
<1>2. v \in 0..Len(all) /\ (v < Len(all) => ~Complete(all, v + 1)) /\ Len(all) \in Nat
  BY ValidUpToFacts
<1>3. Len(a) = v
  <2> HIDE DEF v
  <2>1. \A i \in 1..v : all[i] \in Bytes
    BY <1>2
  <2>2. Len(SubSeq(all, 1, v)) = IF 1 <= v THEN v - 1 + 1 ELSE 0
    BY <1>2, <2>1, SubSeqProperties
  <2> QED
    BY <1>2, <2>2 DEF v
<1>4. ASSUME t # <<>> PROVE ~Complete(t, 1)
  <2>1. Len(t) \in Nat /\ Len(t) # 0 /\ 1 \in 1..Len(t)
    BY <1>1, <1>4, EmptySeq
  <2>2. Len(all) = Len(a) + Len(t)
    BY <1>1, ConcatAt
  <2>3. v < Len(all)
    <3> HIDE DEF v
    <3> QED
      BY ONLY <1>2, <1>3, <2>1, <2>2
  <2>4. Complete(a \o t, Len(a) + 1) <=> Complete(t, 1)
    BY ONLY <1>1, <2>1, CompleteBeyond
  <2>5. Complete(all, Len(a) + 1) <=> Complete(t, 1)
    BY <1>1, <2>4
  <2> HIDE DEF v
  <2> QED
    BY <1>2, <1>3, <2>3, <2>5
<1> QED
  BY <1>1, <1>4

LEMMA BytesAreText ==
  ASSUME NEW b \in Seq(Bytes)
  PROVE  b \in Seq(TextBytes)
BY SeqMonotonic DEF TextBytes

LEMMA BpeGives ==
  ASSUME NEW d \in Decoders, NEW bytes \in Seq(Bytes)
  PROVE  /\ PushBpe(d, bytes) \in Decoders /\ Gives(d, PushBpe(d, bytes), bytes)
         /\ PushBpe(d, bytes).atStart = d.atStart
<1> DEFINE all == d.pending \o bytes
           a == SubSeq(all, 1, ValidUpTo(all))
           t == SubSeq(all, ValidUpTo(all) + 1, Len(all))
           e == [d EXCEPT !.pending = t, !.text = a]
<1>1. all \in Seq(Bytes)
  BY ConcatAt DEF Decoders
<1>2. PushBpe(d, bytes) = e
  BY DEF PushBpe
<1>3. /\ a \in Seq(Bytes) /\ AllComplete(a) /\ t \in Seq(Bytes) /\ a \o t = all
      /\ t = <<>> \/ ~Complete(t, 1)
  <2> HIDE DEF all
  <2> QED
    BY <1>1, SplitsValid
<1>4. a \in Seq(TextBytes)
  <2> HIDE DEF a
  <2> QED
    BY <1>3, BytesAreText
<1> HIDE DEF a, t
<1>5. e \in Decoders /\ e.pending = t /\ e.text = a /\ e.atStart = d.atStart
  BY <1>3, <1>4 DEF Decoders
<1>6. Gives(d, e, bytes)
  <2> HIDE DEF e
  <2> QED
    BY <1>3, <1>5 DEF Gives, HoldsBack
<1> QED
  BY <1>2, <1>5, <1>6

LEMMA FlushedGives ==
  ASSUME NEW d \in Decoders, NEW bytes \in Seq(Bytes)
  PROVE  /\ Flushed(d, bytes) \in Decoders /\ Flushed(d, bytes).atStart = d.atStart
         /\ ~Broken(d.pending \o bytes) => Gives(d, Flushed(d, bytes), bytes)
<1> DEFINE all == d.pending \o bytes
           e == [d EXCEPT !.pending = <<>>, !.text = <<"?">>]
<1>1. ASSUME ~(ValidUpTo(all) = 0 /\ Broken(all))
      PROVE  Flushed(d, bytes) = PushBpe(d, bytes)
  BY <1>1 DEF Flushed, PushBpe
<1>2. ASSUME ValidUpTo(all) = 0 /\ Broken(all)
      PROVE  Flushed(d, bytes) = e
  BY <1>2 DEF Flushed
<1>3. e \in Decoders /\ e.atStart = d.atStart
  <2>1. <<>> \in Seq(Bytes) /\ <<"?">> \in Seq(TextBytes)
    BY EmptySeq DEF TextBytes
  <2> QED
    BY <2>1 DEF Decoders
<1> HIDE DEF e
<1>4. CASE ~(ValidUpTo(all) = 0 /\ Broken(all))
  BY <1>1, <1>4, BpeGives
<1>5. CASE ValidUpTo(all) = 0 /\ Broken(all)
  BY <1>2, <1>3, <1>5
<1> QED
  BY <1>4, <1>5

LEMMA UnspacedType ==
  ASSUME NEW T, NEW s \in Seq(T)
  PROVE  Unspaced(s) \in Seq(T)
BY HeadTailProperties DEF Unspaced

\* Only the first text can lose its space.
LEMMA UnspacedConcat ==
  ASSUME NEW T, NEW s \in Seq(T), NEW t \in Seq(T), s # <<>>
  PROVE  Unspaced(s \o t) = Unspaced(s) \o t
<1>1. s \o t # <<>> /\ Head(s \o t) = Head(s) /\ Tail(s \o t) = Tail(s) \o t
  OBVIOUS
<1> QED
  BY <1>1 DEF Unspaced

LEMMA PushType ==
  ASSUME NEW tk \in Tokenizers, NEW token \in DOMAIN TokenBytes[tk], NEW d \in Decoders
  PROVE  Push(tk, d, token) \in Decoders
<1> DEFINE bytes == TokenBytes[tk][token]
<1>1. bytes \in Seq(Bytes)
  BY TokenBytesAssumption
<1> HIDE DEF bytes
<1>2. Flushed(d, bytes) \in Decoders /\ PushBpe(d, bytes) \in Decoders
  BY <1>1, FlushedGives, BpeGives
<1>3. PushByte(d, bytes) \in Decoders
  <2>1. [d EXCEPT !.text = <<>>] \in Decoders
    <3>1. <<>> \in Seq(TextBytes)
      BY EmptySeq
    <3> QED
      BY <3>1 DEF Decoders
  <2> QED
    BY <1>2, <2>1 DEF PushByte
<1>4. PushSpm(d, bytes) \in Decoders
  <2> DEFINE e == Flushed(d, bytes)
             u == Unspaced(e.text)
  <2>1. e \in Decoders /\ u \in Seq(TextBytes)
    <3>1. e.text \in Seq(TextBytes)
      BY <1>2 DEF Decoders
    <3> QED
      BY <1>2, <3>1, UnspacedType
  <2>2. PushSpm(d, bytes) = e \/ PushSpm(d, bytes) = [e EXCEPT !.text = u, !.atStart = FALSE]
    BY DEF PushSpm
  <2> HIDE DEF e, u
  <2>3. [e EXCEPT !.text = u, !.atStart = FALSE] \in Decoders
    BY <2>1 DEF Decoders
  <2> QED
    BY <2>1, <2>2, <2>3
<1> QED
  BY <1>2, <1>3, <1>4 DEF Push, Tokenizers, bytes

\* What is given out joins the whole characters that were sent.
GoesOn(bytes, raw, g) ==
  /\ raw \o g.text \in Seq(Bytes) /\ AllComplete(raw \o g.text)
  /\ bytes = (raw \o g.text) \o g.pending

LEMMA GivesMore ==
  ASSUME NEW tk, NEW d \in Decoders, NEW bytes, NEW sent, NEW raw \in Seq(Bytes),
         ToldAs(tk, bytes, d, sent, raw), NEW new \in Seq(Bytes), NEW g, Gives(d, g, new)
  PROVE  GoesOn(bytes \o new, raw, g)
<1> DEFINE p == d.pending
           x == g.text
           y == g.pending
<1>1. /\ p \in Seq(Bytes) /\ x \in Seq(Bytes) /\ y \in Seq(Bytes) /\ AllComplete(x)
      /\ raw \in Seq(Bytes) /\ new \in Seq(Bytes) /\ AllComplete(raw)
  BY DEF Gives, Decoders, ToldAs
<1>a. bytes = raw \o p /\ p \o new = x \o y
  BY DEF Gives, ToldAs
<1> HIDE DEF p, x, y
<1>2. raw \o x \in Seq(Bytes) /\ AllComplete(raw \o x)
  BY <1>1, CompleteJoined, ConcatAt
<1>b. raw \in Seq(Bytes) /\ p \in Seq(Bytes) /\ new \in Seq(Bytes)
  BY <1>1
<1>c. raw \in Seq(Bytes) /\ x \in Seq(Bytes) /\ y \in Seq(Bytes)
  BY <1>1
<1>3. (raw \o p) \o new = raw \o (p \o new)
  BY ONLY <1>b, ConcatAssociative
<1>4. (raw \o x) \o y = raw \o (x \o y)
  BY ONLY <1>c, ConcatAssociative
<1>5. bytes \o new = (raw \o x) \o y
  BY <1>a, <1>3, <1>4
<1> QED
  BY <1>2, <1>5 DEF GoesOn, x, y

\* A token: unless the bytes are broken, or whatever they are with byte-level
\* BPE, what was sent goes on to be the whole characters.
THEOREM PushTells ==
  ASSUME NEW tk \in Tokenizers, NEW token \in DOMAIN TokenBytes[tk], NEW d \in Decoders,
         NEW bytes, NEW sent, ToldSoFar(tk, bytes, d, sent),
         tk = "bpe" \/ ~Broken(bytes \o TokenBytes[tk][token])
  PROVE  ToldSoFar(tk, bytes \o TokenBytes[tk][token], Push(tk, d, token),
                   sent \o Push(tk, d, token).text)
<1> DEFINE new == TokenBytes[tk][token]
           e == Push(tk, d, token)
<1>1. new \in Seq(Bytes)
  BY TokenBytesAssumption
<1>2. PICK raw \in Seq(Bytes) : ToldAs(tk, bytes, d, sent, raw)
  BY DEF ToldSoFar
<1>3. d.pending \in Seq(Bytes) /\ d.atStart \in BOOLEAN /\ AllComplete(raw) /\ bytes = raw \o d.pending
  BY <1>2 DEF Decoders, ToldAs
<1>4. Push(tk, d, token) = CASE tk = "byte" -> PushByte(d, new) [] tk = "spm" -> PushSpm(d, new)
                             [] tk = "bpe" -> PushBpe(d, new)
  BY DEF Push
<1>5. tk # "bpe" => ~Broken(d.pending \o new)
  <2> SUFFICES ASSUME tk # "bpe", Broken(d.pending \o new) PROVE FALSE
    OBVIOUS
  <2> DEFINE p == d.pending
  <2>1. p \in Seq(Bytes) /\ p \o new \in Seq(Bytes)
    BY <1>1, <1>3, ConcatAt
  <2>2. bytes \o new = (raw \o p) \o new
    BY <1>3
  <2> HIDE DEF new, p
  <2>3. (raw \o p) \o new = raw \o (p \o new)
    BY ONLY <1>1, <2>1, raw \in Seq(Bytes), ConcatAssociative
  <2>4. Broken(raw \o (p \o new))
    BY <1>3, <2>1, BrokenBeyond DEF p
  <2> QED
    BY <2>2, <2>3, <2>4 DEF new
<1> HIDE DEF new
<1>6. ASSUME NEW g, Gives(d, g, new), tk # "spm", e = g
      PROVE  ToldSoFar(tk, bytes \o new, e, sent \o e.text)
  <2>1. sent = raw
    BY <1>2, <1>6 DEF ToldAs
  <2>2. /\ raw \o g.text \in Seq(Bytes) /\ AllComplete(raw \o g.text)
        /\ bytes \o new = (raw \o g.text) \o g.pending
    <3>1. GoesOn(bytes \o new, raw, g)
      BY <1>1, <1>2, <1>6, GivesMore
    <3> QED
      BY <3>1 DEF GoesOn
  <2>3. HoldsBack(g)
    BY <1>6 DEF Gives
  <2> DEFINE next == raw \o g.text
  <2>4. ToldAs(tk, bytes \o new, g, next, next)
    BY <1>6, <2>2, <2>3 DEF ToldAs
  <2>5. next \in Seq(Bytes)
    BY <2>2
  <2> QED
    BY <1>6, <2>1, <2>4, <2>5 DEF ToldSoFar
<1>7. CASE tk = "bpe"
  <2>1. e = PushBpe(d, new)
    BY <1>4, <1>7
  <2>2. Gives(d, PushBpe(d, new), new)
    BY <1>1, BpeGives
  <2> QED
    BY <1>6, <1>7, <2>1, <2>2 DEF new
<1>8. CASE tk = "byte"
  <2>1. e = PushByte(d, new)
    BY <1>4, <1>8
  <2>2. CASE new = <<>>
    <3>1. e = [d EXCEPT !.text = <<>>]
      BY <2>1, <2>2 DEF PushByte
    <3>2. e.pending = d.pending /\ e.atStart = d.atStart /\ e.text = <<>>
      BY <3>1 DEF Decoders
    <3>3. sent = raw /\ bytes \in Seq(Bytes)
      BY <1>2, <1>3, <1>8, ConcatAt DEF ToldAs
    <3>4. bytes \o <<>> = bytes /\ raw \o <<>> = raw
      BY <3>3, ConcatEmptySeq
    <3>5. ToldAs(tk, bytes, e, raw, raw)
      BY <1>2, <1>8, <3>2 DEF ToldAs, HoldsBack
    <3> QED
      BY <2>2, <3>2, <3>3, <3>4, <3>5 DEF ToldSoFar, new
  <2>3. CASE new # <<>>
    <3>1. e = Flushed(d, new)
      BY <2>1, <2>3 DEF PushByte
    <3>2. Gives(d, Flushed(d, new), new)
      BY <1>1, <1>5, <1>8, FlushedGives
    <3> QED
      BY <1>6, <1>8, <3>1, <3>2 DEF new
  <2> QED
    BY <2>2, <2>3
<1>9. CASE tk = "spm"
  <2> DEFINE g == Flushed(d, new)
             next == raw \o g.text
  <2>1. Gives(d, g, new) /\ g \in Decoders /\ g.atStart = d.atStart
    BY <1>1, <1>5, <1>9, FlushedGives
  <2>2. /\ next \in Seq(Bytes) /\ AllComplete(next)
        /\ bytes \o new = next \o g.pending /\ HoldsBack(g) /\ g.text \in Seq(Bytes)
    <3> HIDE DEF g
    <3>1. HoldsBack(g) /\ g.text \in Seq(Bytes)
      BY <2>1 DEF Gives
    <3>2. GoesOn(bytes \o new, raw, g)
      BY <1>1, <1>2, <2>1, GivesMore
    <3> QED
      BY <3>1, <3>2 DEF GoesOn
  <2>3. sent = Unspaced(raw) /\ (d.atStart <=> raw = <<>>)
    BY <1>2, <1>9 DEF ToldAs
  <2>4. e = IF ~d.atStart \/ g.text \in {<<>>, <<"?">>} THEN g
            ELSE [g EXCEPT !.text = Unspaced(@), !.atStart = FALSE]
    BY <1>4, <1>9 DEF PushSpm
  <2> HIDE DEF g, e
  <2>a. ASSUME HoldsBack(e), e.pending = g.pending, sent \o e.text = Unspaced(next),
               e.atStart <=> next = <<>>
        PROVE  ToldSoFar(tk, bytes \o new, e, sent \o e.text)
    <3> HIDE DEF next
    <3> QED
      BY <1>9, <2>2, <2>a DEF ToldSoFar, ToldAs
  <2>5. CASE ~d.atStart
    <3>1. e = g /\ raw # <<>>
      BY <2>3, <2>4, <2>5
    <3>2. Unspaced(next) = sent \o g.text
      BY <2>2, <2>3, <3>1, UnspacedConcat
    <3>3. next # <<>>
      BY <2>2, <3>1, ConcatEqualIffEmpty
    <3>4. ~e.atStart
      BY <2>1, <2>5, <3>1
    <3> QED
      BY <2>2, <2>a, <3>1, <3>2, <3>3, <3>4 DEF e, new
  <2>6. CASE d.atStart /\ g.text = <<>>
    <3>1. e = g /\ raw = <<>> /\ e.atStart
      BY <2>1, <2>3, <2>4, <2>6
    <3>2. next = <<>> /\ <<>> \o <<>> = <<>> /\ Unspaced(<<>>) = <<>>
      <4>1. <<>> \in Seq(Bytes)
        BY EmptySeq
      <4>2. <<>> \o <<>> = <<>>
        BY <4>1, ConcatEmptySeq
      <4> QED
        BY <4>2, <3>1, <2>6 DEF Unspaced
    <3>3. sent \o e.text = Unspaced(next)
      BY <2>3, <2>6, <3>1, <3>2
    <3> QED
      BY <2>2, <2>a, <3>1, <3>2, <3>3 DEF e, new
  <2>7. CASE d.atStart /\ g.text # <<>>
    <3>1. g.text # <<"?">>
      <4> SUFFICES ASSUME g.text = <<"?">> PROVE FALSE
        OBVIOUS
      <4>1. g.text[1] \in Bytes
        BY <2>2
      <4>2. g.text[1] = "?"
        OBVIOUS
      <4> QED
        BY <4>1, <4>2 DEF Bytes, Ascii, Leads
    <3>2. e = [g EXCEPT !.text = Unspaced(g.text), !.atStart = FALSE] /\ raw = <<>>
      BY <2>3, <2>4, <2>7, <3>1
    <3>3. e.pending = g.pending /\ e.text = Unspaced(g.text) /\ ~e.atStart
      BY <2>1, <3>2 DEF Decoders
    <3>4. next = g.text /\ Unspaced(raw) = <<>> /\ <<>> \o Unspaced(g.text) = Unspaced(g.text)
      <4>1. <<>> \o g.text = g.text
        BY <2>2, ConcatEmptySeq
      <4>2. Unspaced(g.text) \in Seq(Bytes)
        BY <2>2, UnspacedType
      <4>3. <<>> \o Unspaced(g.text) = Unspaced(g.text)
        BY <4>2, ConcatEmptySeq
      <4> QED
        BY <3>2, <4>1, <4>3 DEF Unspaced
    <3>5. sent \o e.text = Unspaced(next)
      BY <2>3, <3>3, <3>4
    <3>6. HoldsBack(e)
      BY <2>2, <3>3 DEF HoldsBack
    <3> QED
      BY <2>7, <2>a, <3>3, <3>4, <3>5, <3>6 DEF e, new
  <2> QED
    BY <1>3, <2>5, <2>6, <2>7
<1> QED
  BY <1>7, <1>8, <1>9 DEF Tokenizers

\* The end: what is left comes out, and with what was sent it is the reply.
THEOREM FinishTells ==
  ASSUME NEW tk \in Tokenizers, NEW d \in Decoders, NEW bytes, NEW sent, ToldSoFar(tk, bytes, d, sent)
  PROVE  /\ bytes \in Seq(Bytes) /\ sent \in Seq(TextBytes) /\ Finish(d) \in Seq(TextBytes)
         /\ sent \o Finish(d) = IF tk = "spm" THEN Unspaced(Lossy(bytes)) ELSE Lossy(bytes)
<1>1. PICK raw \in Seq(Bytes) : ToldAs(tk, bytes, d, sent, raw)
  BY DEF ToldSoFar
<1> DEFINE p == d.pending
           rest == Lossy(p)
<1>2. p \in Seq(Bytes) /\ AllComplete(raw) /\ bytes = raw \o p /\ (p = <<>> \/ ~Complete(p, 1))
  BY <1>1 DEF Decoders, ToldAs, HoldsBack
<1> HIDE DEF p
<1>3. Lossy(bytes) = raw \o rest /\ rest \in Seq(TextBytes) /\ raw \in Seq(TextBytes) /\ bytes \in Seq(Bytes)
  BY <1>2, LossyBeyond, LossyJoins, BytesAreText, ConcatAt
<1>4. Finish(d) = rest
  BY DEF Finish, p
<1>5. CASE tk # "spm"
  <2>1. sent = raw
    BY <1>1, <1>5 DEF ToldAs
  <2> QED
    BY <1>3, <1>4, <1>5, <2>1
<1>6. CASE tk = "spm"
  <2>1. sent = Unspaced(raw)
    BY <1>1, <1>6 DEF ToldAs
  <2>2. sent \in Seq(TextBytes)
    BY <1>3, <2>1, UnspacedType
  <2>3. CASE raw # <<>>
    <3>1. Unspaced(raw \o rest) = Unspaced(raw) \o rest
      <4> HIDE DEF rest
      <4> QED
        BY <1>3, <2>3, UnspacedConcat
    <3> QED
      BY <1>3, <1>4, <1>6, <2>1, <2>2, <3>1
  <2>4. CASE raw = <<>>
    <3>1. Unspaced(rest) = rest
      <4>1. CASE p = <<>>
        <5>1. AllComplete(p)
          BY <4>1, EmptySeq DEF AllComplete
        <5>2. rest = <<>>
          BY <1>2, <4>1, <5>1, LossyComplete
        <5> QED
          BY <5>2 DEF Unspaced
      <4>2. CASE p # <<>>
        <5>1. rest # <<>> /\ Head(rest) = "?"
          BY <1>2, <4>2, LossyStart
        <5> HIDE DEF rest
        <5> QED
          BY <5>1 DEF Unspaced
      <4> QED
        BY <4>1, <4>2
    <3>2. <<>> \o rest = rest
      BY <1>3, ConcatEmptySeq
    <3>3. sent = <<>>
      BY <2>1, <2>4 DEF Unspaced
    <3> QED
      BY <1>3, <1>4, <1>6, <2>2, <2>4, <3>1, <3>2, <3>3
  <2> QED
    BY <2>3, <2>4
<1> QED
  BY <1>5, <1>6
=============================================================================
