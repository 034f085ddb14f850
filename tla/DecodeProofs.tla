---------------------------- MODULE DecodeProofs ----------------------------
(***************************************************************************)
(* Proofs about Decode for every model (Choice), vocabulary, set of        *)
(* sessions and prompts, layer layout, window and budget: whatever is      *)
(* guessed, kept, rolled back, batched, cached or fails, the caches agree  *)
(* with the context between rounds, the prompt cache is exact and bounded, *)
(* the caller gets what was generated, and generation implements plain     *)
(* decoding.  The inductive invariant Inv is about every session by its    *)
(* status (Sound): while it prefills, its cache holds some proper prefix   *)
(* of the prompt in every layer, and while it decodes, all of the context  *)
(* but its last token; without that a pass reads other tokens than plain   *)
(* decoding.  A draft's cache holds some proper prefix (DraftOK), which    *)
(* during a round it does only up to the guesses (GuessOK).  Every kind of *)
(* round is first shown to be of one form (Round: each active session gets *)
(* some tokens and goes on or ends), and all that follows is proved of it. *)
(***************************************************************************)
EXTENDS Decode, SequenceTheorems, FiniteSetTheorems, WellFoundedInduction, TLAPS

-----------------------------------------------------------------------------
(* Sums.                                                                   *)

\* A set of naturals that is not empty has a least one.
LEMMA HasLeast ==
  ASSUME NEW T, T \subseteq Nat, T # {}
  PROVE  \E x \in T : \A y \in T : x <= y
<1>1. PICK x \in T : \A y \in T : ~(<<y, x>> \in OpToRel(<, Nat))
  BY NatLessThanWellFounded, WFMin
<1>2. \A y \in T : x <= y
  <2> SUFFICES ASSUME NEW y \in T PROVE x <= y
    OBVIOUS
  <2>1. ~(y < x)
    BY <1>1 DEF OpToRel
  <2> QED
    BY <2>1
<1> QED
  BY <1>2

\* A set of subsets of a finite set has a smallest one.
LEMMA Smallest ==
  ASSUME NEW S, IsFiniteSet(S), NEW B \in SUBSET (SUBSET S), B # {}
  PROVE  \E s \in B : \A t \in B : t \subseteq s => t = s
<1> DEFINE T == {Cardinality(s) : s \in B}
<1>1. \A s \in B : IsFiniteSet(s) /\ Cardinality(s) \in Nat
  BY FS_Subset, FS_CardinalityType
<1>2. T \subseteq Nat /\ T # {}
  BY <1>1
<1>3. PICK n \in T : \A m \in T : n <= m
  BY <1>2, HasLeast
<1>4. PICK s \in B : n = Cardinality(s)
  OBVIOUS
<1>5. ASSUME NEW t \in B, t \subseteq s PROVE t = s
  <2>1. Cardinality(t) <= Cardinality(s) /\ (Cardinality(s) = Cardinality(t) => s = t)
    BY <1>1, <1>5, FS_Subset
  <2>2. Cardinality(s) <= Cardinality(t)
    BY <1>3, <1>4
  <2> QED
    BY <1>1, <2>1, <2>2
<1> QED
  BY <1>5

\* The element of s that a sum takes first.
One(s) == CHOOSE x \in s : TRUE

\* A set that is not empty has the element it is summed from first.
LEMMA OneIn == ASSUME NEW s, s # {} PROVE One(s) \in s
  BY DEF One

\* g gives the sum of f over every subset of D (AddsTo: of at most n elements).
Adds(f, D, g) ==
  g = [s \in SUBSET D |-> IF s = {} THEN 0 ELSE f[One(s)] + g[s \ {One(s)}]]
AddsTo(f, D, g, n) ==
  \A s \in SUBSET D : Cardinality(s) <= n =>
    g[s] = IF s = {} THEN 0 ELSE f[One(s)] + g[s \ {One(s)}]
SumOf(f, D) == CHOOSE g : Adds(f, D, g)

\* Total is the fold of the community modules, spelled out.
LEMMA TotalIs ==
  ASSUME NEW f
  PROVE  Total(f) = SumOf(f, DOMAIN f)[DOMAIN f]
  BY DEF Total, FoldFunction, FoldFunctionOnSet, MapThenFoldSet, SumOf, Adds, One

\* The sums over the subsets of up to n elements exist: the recursion has a solution.
LEMMA SumUpTo ==
  ASSUME NEW f, NEW D, IsFiniteSet(D), NEW n \in Nat
  PROVE  \E g : DOMAIN g = SUBSET D /\ AddsTo(f, D, g, n)
<1> DEFINE Bad == {m \in Nat : ~ \E g : DOMAIN g = SUBSET D /\ AddsTo(f, D, g, m)}
<1>0. \A s \in SUBSET D : IsFiniteSet(s) /\ Cardinality(s) \in Nat
                          /\ (Cardinality(s) = 0 <=> s = {})
  BY FS_Subset, FS_CardinalityType, FS_EmptySet
<1>1. 0 \notin Bad
  <2> DEFINE g == [s \in SUBSET D |-> 0]
  <2>1. DOMAIN g = SUBSET D /\ AddsTo(f, D, g, 0)
    BY <1>0 DEF AddsTo
  <2> QED
    BY <2>1
<1>2. ASSUME NEW m \in Nat, m \notin Bad PROVE m + 1 \notin Bad
  <2>1. PICK h : DOMAIN h = SUBSET D /\ AddsTo(f, D, h, m)
    BY <1>2
  <2> DEFINE g == [s \in SUBSET D |-> IF Cardinality(s) <= m THEN h[s]
                                      ELSE f[One(s)] + h[s \ {One(s)}]]
  <2>2. AddsTo(f, D, g, m + 1)
    <3> SUFFICES ASSUME NEW s \in SUBSET D, Cardinality(s) <= m + 1
                 PROVE  g[s] = IF s = {} THEN 0 ELSE f[One(s)] + g[s \ {One(s)}]
      BY DEF AddsTo
    <3>1. CASE s = {}
      BY <1>0, <2>1, <3>1 DEF AddsTo
    <3>2. CASE s # {}
      <4> DEFINE t == s \ {One(s)}
      <4>1. t \in SUBSET D /\ Cardinality(t) <= m
        BY <1>0, <3>2, OneIn, FS_RemoveElement
      <4>2. g[t] = h[t]
        BY <4>1
      <4>3. g[s] = f[One(s)] + h[t]
        BY <2>1, <3>2 DEF AddsTo
      <4> QED
        BY <3>2, <4>2, <4>3
    <3> QED
      BY <3>1, <3>2
  <2>3. DOMAIN g = SUBSET D
    OBVIOUS
  <2> HIDE DEF g
  <2> QED
    BY <2>2, <2>3
<1>3. Bad = {}
  <2> SUFFICES ASSUME Bad # {} PROVE FALSE
    OBVIOUS
  <2>1. Bad \subseteq Nat
    OBVIOUS
  <2> HIDE DEF Bad
  <2>2. PICK b \in Bad : \A m \in Bad : b <= m
    BY <2>1, HasLeast
  <2>3. b - 1 \in Nat /\ b - 1 \notin Bad /\ (b - 1) + 1 = b
    BY <1>1, <2>1, <2>2
  <2> QED
    BY <1>2, <2>3
<1> QED
  BY <1>3

\* A sum is its first element and the sum over the rest.
LEMMA SumIs ==
  ASSUME NEW f, NEW D, IsFiniteSet(D), NEW s \in SUBSET D
  PROVE  SumOf(f, D)[s] = IF s = {} THEN 0 ELSE f[One(s)] + SumOf(f, D)[s \ {One(s)}]
<1>1. Cardinality(D) \in Nat /\ \A t \in SUBSET D : Cardinality(t) <= Cardinality(D)
  BY FS_CardinalityType, FS_Subset
<1>2. PICK g : DOMAIN g = SUBSET D /\ AddsTo(f, D, g, Cardinality(D))
  BY <1>1, SumUpTo
<1> DEFINE h == [t \in SUBSET D |-> g[t]]
<1>3. Adds(f, D, h)
  <2> SUFFICES ASSUME NEW t \in SUBSET D
               PROVE  h[t] = IF t = {} THEN 0 ELSE f[One(t)] + h[t \ {One(t)}]
    BY DEF Adds
  <2> QED
    BY <1>1, <1>2 DEF AddsTo
<1> HIDE DEF h
<1>4. Adds(f, D, SumOf(f, D))
  BY <1>3 DEF SumOf
<1> QED
  BY <1>4 DEF Adds

\* A sum depends on the values it sums and on nothing else.
LEMMA SumSame ==
  ASSUME NEW f, NEW D, IsFiniteSet(D), NEW h, NEW E, IsFiniteSet(E),
         NEW s, s \in SUBSET D, s \in SUBSET E, \A x \in s : f[x] = h[x]
  PROVE  SumOf(f, D)[s] = SumOf(h, E)[s]
<1> DEFINE Bad == {t \in SUBSET s : SumOf(f, D)[t] # SumOf(h, E)[t]}
<1>1. Bad = {}
  <2> SUFFICES ASSUME Bad # {} PROVE FALSE
    OBVIOUS
  <2>1. Bad \in SUBSET (SUBSET s) /\ IsFiniteSet(s)
    BY FS_Subset
  <2>2. PICK t \in Bad : \A u \in Bad : u \subseteq t => u = t
    <3> HIDE DEF Bad
    <3> QED
      BY <2>1, Smallest
  <2>3. t \in SUBSET D /\ t \in SUBSET E /\ t \in SUBSET s
    OBVIOUS
  <2>4. /\ SumOf(f, D)[t] = IF t = {} THEN 0 ELSE f[One(t)] + SumOf(f, D)[t \ {One(t)}]
        /\ SumOf(h, E)[t] = IF t = {} THEN 0 ELSE h[One(t)] + SumOf(h, E)[t \ {One(t)}]
    <3> HIDE DEF Bad
    <3>1. SumOf(f, D)[t] = IF t = {} THEN 0 ELSE f[One(t)] + SumOf(f, D)[t \ {One(t)}]
      <4>1. t \in SUBSET D /\ IsFiniteSet(D)
        BY <2>3
      <4> QED
        BY ONLY <4>1, SumIs
    <3>2. SumOf(h, E)[t] = IF t = {} THEN 0 ELSE h[One(t)] + SumOf(h, E)[t \ {One(t)}]
      BY <2>3, SumIs
    <3> QED
      BY <3>1, <3>2
  <2>5. t # {}
    BY <2>4
  <2>6. One(t) \in t /\ f[One(t)] = h[One(t)]
    BY <2>3, <2>5, OneIn
  <2>7. t \ {One(t)} \notin Bad
    BY <2>2, <2>6
  <2> QED
    BY <2>3, <2>4, <2>5, <2>6, <2>7
<1> QED
  BY <1>1

\* The sum of f over s.
Sum(f, s) == SumOf(f, s)[s]

\* Total sums a function over its whole domain.
LEMMA SumTotal ==
  ASSUME NEW f
  PROVE  Total(f) = Sum(f, DOMAIN f)
  BY TotalIs DEF Sum

\* A sum depends on the values it sums and on nothing else.
LEMMA SumFrame ==
  ASSUME NEW s, IsFiniteSet(s), NEW f, NEW h, \A x \in s : f[x] = h[x]
  PROVE  Sum(f, s) = Sum(h, s)
  BY SumSame DEF Sum

\* The sum over nothing.
LEMMA SumNone == ASSUME NEW f PROVE Sum(f, {}) = 0
  BY FS_EmptySet, SumIs DEF Sum

\* A sum taken apart at its first element.
LEMMA SumFirst ==
  ASSUME NEW s, IsFiniteSet(s), NEW f, s # {}
  PROVE  Sum(f, s) = f[One(s)] + Sum(f, s \ {One(s)})
<1> DEFINE t == s \ {One(s)}
<1>1. Sum(f, s) = f[One(s)] + SumOf(f, s)[t]
  BY SumIs DEF Sum
<1>2. IsFiniteSet(t) /\ t \in SUBSET s /\ t \in SUBSET t
  BY FS_Subset
<1>3. SumOf(f, s)[t] = SumOf(f, t)[t]
  BY <1>2, SumSame
<1> QED
  BY <1>1, <1>3 DEF Sum

\* A sum of naturals is one.
LEMMA SumNat ==
  ASSUME NEW s, IsFiniteSet(s), NEW f, \A x \in s : f[x] \in Nat
  PROVE  Sum(f, s) \in Nat
<1> DEFINE Bad == {t \in SUBSET s : Sum(f, t) \notin Nat}
<1>1. Bad = {}
  <2> SUFFICES ASSUME Bad # {} PROVE FALSE
    OBVIOUS
  <2>1. PICK t \in Bad : \A u \in Bad : u \subseteq t => u = t
    <3>1. Bad \in SUBSET (SUBSET s)
      OBVIOUS
    <3> HIDE DEF Bad
    <3> QED
      BY <3>1, Smallest
  <2>2. IsFiniteSet(t) /\ t \in SUBSET s
    BY FS_Subset
  <2>3. t # {}
    BY SumNone
  <2>4. One(t) \in t /\ Sum(f, t) = f[One(t)] + Sum(f, t \ {One(t)})
    BY <2>2, <2>3, OneIn, SumFirst
  <2>5. t \ {One(t)} \notin Bad
    BY <2>1, <2>4
  <2>6. Sum(f, t \ {One(t)}) \in Nat
    BY <2>2, <2>5
  <2> QED
    BY <2>1, <2>2, <2>4, <2>6
<1> QED
  BY <1>1

\* Any element may be taken first.
LEMMA SumAny ==
  ASSUME NEW s, IsFiniteSet(s), NEW f, \A x \in s : f[x] \in Nat, NEW y \in s
  PROVE  Sum(f, s) = f[y] + Sum(f, s \ {y})
<1> DEFINE Bad == {t \in SUBSET s : \E x \in t : Sum(f, t) # f[x] + Sum(f, t \ {x})}
<1>1. Bad = {}
  <2> SUFFICES ASSUME Bad # {} PROVE FALSE
    OBVIOUS
  <2>1. PICK t \in Bad : \A u \in Bad : u \subseteq t => u = t
    <3>1. Bad \in SUBSET (SUBSET s)
      OBVIOUS
    <3> HIDE DEF Bad
    <3> QED
      BY <3>1, Smallest
  <2>2. PICK x \in t : Sum(f, t) # f[x] + Sum(f, t \ {x})
    BY <2>1
  <2>3. \A u \in SUBSET t : IsFiniteSet(u) /\ Sum(f, u) \in Nat
    BY FS_Subset, SumNat
  <2> DEFINE c == One(t)
  <2>4. c \in t /\ Sum(f, t) = f[c] + Sum(f, t \ {c})
    BY <2>2, <2>3, OneIn, SumFirst
  <2>5. c # x
    BY <2>2, <2>4
  <2> HIDE DEF c
  <2>6. t \ {c} \notin Bad /\ t \ {x} \notin Bad
    BY <2>1, <2>2, <2>4
  <2>7. x \in t \ {c} /\ c \in t \ {x} /\ t \ {c} \in SUBSET s /\ t \ {x} \in SUBSET s
    BY <2>2, <2>4, <2>5
  <2>8. /\ Sum(f, t \ {c}) = f[x] + Sum(f, (t \ {c}) \ {x})
        /\ Sum(f, t \ {x}) = f[c] + Sum(f, (t \ {x}) \ {c})
    BY <2>6, <2>7
  <2>9. (t \ {c}) \ {x} = (t \ {x}) \ {c}
    OBVIOUS
  <2>10. f[x] \in Nat /\ f[c] \in Nat /\ Sum(f, (t \ {x}) \ {c}) \in Nat
    BY <2>3, <2>4
  <2> HIDE DEF Bad
  <2>11. /\ Sum(f, t) = f[c] + (f[x] + Sum(f, (t \ {x}) \ {c}))
         /\ f[x] + Sum(f, t \ {x}) = f[x] + (f[c] + Sum(f, (t \ {x}) \ {c}))
    BY <2>4, <2>8, <2>9
  <2> QED
    BY <2>2, <2>10, <2>11
<1> QED
  BY <1>1

\* The sum over two parts.
LEMMA SumParts ==
  ASSUME NEW s, IsFiniteSet(s), NEW f, \A x \in s : f[x] \in Nat, NEW p \in SUBSET s
  PROVE  Sum(f, s) = Sum(f, p) + Sum(f, s \ p)
<1> DEFINE Bad == {t \in SUBSET p : Sum(f, s) # Sum(f, t) + Sum(f, s \ t)}
<1>0. \A u \in SUBSET s : IsFiniteSet(u) /\ Sum(f, u) \in Nat
  BY FS_Subset, SumNat
<1>1. Bad = {}
  <2> SUFFICES ASSUME Bad # {} PROVE FALSE
    OBVIOUS
  <2>0. IsFiniteSet(p)
    BY FS_Subset
  <2>1. PICK t \in Bad : \A u \in Bad : u \subseteq t => u = t
    <3>1. Bad \in SUBSET (SUBSET p)
      OBVIOUS
    <3> HIDE DEF Bad
    <3> QED
      BY <2>0, <3>1, Smallest
  <2>2. t # {}
    <3>1. Sum(f, {}) = 0 /\ s \ {} = s /\ Sum(f, s) \in Nat
      BY <1>0, SumNone
    <3> QED
      BY <3>1
  <2>3. PICK x \in t : TRUE
    BY <2>2
  <2> DEFINE u == t \ {x}
  <2>4. u \in SUBSET p /\ u \notin Bad /\ x \in s \ u /\ (s \ u) \ {x} = s \ t
    BY <2>1, <2>3
  <2>5. Sum(f, s) = Sum(f, u) + Sum(f, s \ u)
    BY <2>4
  <2>6. Sum(f, s \ u) = f[x] + Sum(f, s \ t)
    BY <1>0, <2>4, SumAny
  <2>7. Sum(f, t) = f[x] + Sum(f, u)
    BY <1>0, <2>1, <2>3, SumAny
  <2>8. Sum(f, u) \in Nat /\ Sum(f, s \ t) \in Nat /\ f[x] \in Nat
    BY <1>0, <2>1, <2>3, <2>4
  <2>9. Sum(f, s) # Sum(f, t) + Sum(f, s \ t)
    BY <2>1
  <2> HIDE DEF u, Bad
  <2> QED
    BY <2>5, <2>6, <2>7, <2>8, <2>9
<1> QED
  BY <1>1

\* The sum over an image that names nothing twice.
LEMMA SumImage ==
  ASSUME NEW s, IsFiniteSet(s), NEW q, NEW f, NEW h,
         \A i, j \in s : q[i] = q[j] => i = j,
         \A i \in s : h[i] = f[q[i]] /\ f[q[i]] \in Nat
  PROVE  IsFiniteSet({q[i] : i \in s}) /\ Sum(h, s) = Sum(f, {q[i] : i \in s})
<1> DEFINE Im(t) == {q[i] : i \in t}
           Bad == {t \in SUBSET s : ~(IsFiniteSet(Im(t)) /\ Sum(h, t) = Sum(f, Im(t)))}
<1>1. Bad = {}
  <2> SUFFICES ASSUME Bad # {} PROVE FALSE
    OBVIOUS
  <2>1. PICK t \in Bad : \A u \in Bad : u \subseteq t => u = t
    <3>1. Bad \in SUBSET (SUBSET s)
      OBVIOUS
    <3> HIDE DEF Bad
    <3> QED
      BY <3>1, Smallest
  <2>2. t # {}
    <3>1. Im({}) = {} /\ IsFiniteSet({}) /\ Sum(h, {}) = 0 /\ Sum(f, {}) = 0
      BY SumNone, FS_EmptySet
    <3> QED
      BY <3>1
  <2>3. PICK x \in t : TRUE
    BY <2>2
  <2> DEFINE u == t \ {x}
  <2>4. u \in SUBSET s /\ u \notin Bad /\ t \in SUBSET s /\ x \in s
    BY <2>1, <2>3
  <2>5. IsFiniteSet(Im(u)) /\ Sum(h, u) = Sum(f, Im(u))
    BY <2>4
  <2>6. Im(t) = Im(u) \cup {q[x]}
    BY <2>3
  <2>7. IsFiniteSet(Im(t))
    <3>1. PICK B, e : B = Im(u) /\ e = q[x]
      OBVIOUS
    <3>2. IsFiniteSet(B) /\ Im(t) = B \cup {e}
      BY <2>5, <2>6, <3>1
    <3>3. IsFiniteSet(B \cup {e})
      BY ONLY <3>2, FS_AddElement
    <3> QED
      BY <3>2, <3>3
  <2>8. q[x] \in Im(t) /\ Im(t) \ {q[x]} = Im(u)
    BY <2>3, <2>4, <2>6
  <2>9. Sum(h, t) = h[x] + Sum(h, u)
    <3>1. IsFiniteSet(t) /\ \A i \in t : h[i] \in Nat
      BY <2>4, FS_Subset
    <3> QED
      BY <2>3, <3>1, SumAny
  <2>10. Sum(f, Im(t)) = f[q[x]] + Sum(f, Im(u))
    <3>1. \A y \in Im(t) : f[y] \in Nat
      BY <2>4
    <3> HIDE DEF Im, u
    <3>2. Sum(f, Im(t)) = f[q[x]] + Sum(f, Im(t) \ {q[x]})
      BY <2>7, <2>8, <3>1, SumAny
    <3> QED
      BY <2>8, <3>2
  <2>11. Sum(h, t) = Sum(f, Im(t))
    BY <2>4, <2>5, <2>9, <2>10
  <2> QED
    BY <2>1, <2>7, <2>11
<1> QED
  BY <1>1

-----------------------------------------------------------------------------
(* The prompt cache.                                                       *)

\* What retain leaves of a queue that names nobody twice (lru.retain).
LEMMA CutOut ==
  ASSUME NEW S, NEW s \in Seq(S), IsInjective(s), NEW x
  PROVE  /\ Without(s, x) \in Seq(S)
         /\ IsInjective(Without(s, x))
         /\ Range(Without(s, x)) = Range(s) \ {x}
         /\ Len(Without(s, x)) = IF x \in Range(s) THEN Len(s) - 1 ELSE Len(s)
<1>1. CASE x \notin Range(s)
  <2>1. Without(s, x) = s
    BY <1>1 DEF Without
  <2> QED
    BY <1>1, <2>1
<1>2. CASE x \in Range(s)
  <2>1. \E j \in DOMAIN s : s[j] = x
    BY <1>2 DEF Range
  <2> DEFINE i == CHOOSE j \in DOMAIN s : s[j] = x
  <2>2. i \in DOMAIN s /\ s[i] = x
    BY <2>1
  <2> HIDE DEF i
  <2>3. DOMAIN s = 1..Len(s) /\ Len(s) \in Nat /\ \A j \in 1..Len(s) : s[j] \in S
    BY LenProperties, ElementOfSeq
  <2> DEFINE front == SubSeq(s, 1, i - 1)
             back == SubSeq(s, i + 1, Len(s))
  <2>4. /\ front \in Seq(S) /\ Len(front) = i - 1
        /\ \A j \in 1..(i - 1) : front[j] = s[j]
    BY <2>2, <2>3, SubSeqProperties
  <2>5. /\ back \in Seq(S) /\ Len(back) = Len(s) - i
        /\ \A j \in 1..(Len(s) - i) : back[j] = s[j + i]
    BY <2>2, <2>3, SubSeqProperties
  <2> DEFINE q == front \o back
  <2>6. Without(s, x) = q
    BY <1>2 DEF Without, i
  <2> HIDE DEF front, back
  <2>7. /\ q \in Seq(S) /\ Len(q) = Len(s) - 1
        /\ \A j \in 1..(Len(s) - 1) : q[j] = IF j < i THEN s[j] ELSE s[j + 1]
    <3>1. /\ q \in Seq(S) /\ Len(q) = Len(front) + Len(back)
          /\ \A j \in 1..Len(front) + Len(back) :
               q[j] = IF j <= Len(front) THEN front[j] ELSE back[j - Len(front)]
      BY <2>4, <2>5, ConcatProperties
    <3>2. Len(front) + Len(back) = Len(s) - 1
      BY <2>2, <2>3, <2>4, <2>5
    <3>3. ASSUME NEW j \in 1..(Len(s) - 1)
          PROVE  q[j] = IF j < i THEN s[j] ELSE s[j + 1]
      <4>1. CASE j < i
        BY <2>2, <2>3, <2>4, <3>1, <3>2, <4>1
      <4>2. CASE ~(j < i)
        <5>1. q[j] = back[j - (i - 1)]
          BY <2>2, <2>3, <2>4, <3>1, <3>2, <4>2
        <5>2. j - (i - 1) \in 1..(Len(s) - i)
          BY <2>2, <2>3, <4>2
        <5>3. back[j - (i - 1)] = s[(j - (i - 1)) + i]
          BY <2>5, <5>2
        <5>4. (j - (i - 1)) + i = j + 1
          BY <2>2, <2>3
        <5> QED
          BY <4>2, <5>1, <5>3, <5>4
      <4> QED
        BY <4>1, <4>2
    <3> QED
      BY <3>1, <3>2, <3>3
  <2>8. DOMAIN q = 1..(Len(s) - 1)
    BY <2>7, LenProperties
  <2> HIDE DEF q
  <2>9. IsInjective(q)
    <3> SUFFICES ASSUME NEW a \in 1..(Len(s) - 1), NEW b \in 1..(Len(s) - 1), q[a] = q[b]
                 PROVE  a = b
      BY <2>8 DEF IsInjective
    <3> DEFINE A == IF a < i THEN a ELSE a + 1
               B == IF b < i THEN b ELSE b + 1
    <3>1. A \in DOMAIN s /\ B \in DOMAIN s
      BY <2>2, <2>3
    <3>2. s[A] = s[B]
      BY <2>7
    <3>3. A = B
      BY <3>1, <3>2 DEF IsInjective
    <3> QED
      BY <2>2, <2>3, <3>3
  <2>10. Range(q) = Range(s) \ {x}
    <3>1. ASSUME NEW y \in Range(q) PROVE y \in Range(s) \ {x}
      <4>1. PICK a \in 1..(Len(s) - 1) : q[a] = y
        BY <2>8 DEF Range
      <4> DEFINE A == IF a < i THEN a ELSE a + 1
      <4>2. A \in DOMAIN s /\ A # i /\ s[A] = y
        BY <2>2, <2>3, <2>7, <4>1
      <4>3. s[A] # s[i]
        BY <2>2, <4>2 DEF IsInjective
      <4> QED
        BY <2>2, <4>2, <4>3 DEF Range
    <3>2. ASSUME NEW y \in Range(s) \ {x} PROVE y \in Range(q)
      <4>1. PICK a \in 1..Len(s) : s[a] = y
        BY <2>3 DEF Range
      <4>2. a # i
        BY <2>2, <4>1
      <4>3. CASE a < i
        <5>1. a \in 1..(Len(s) - 1) /\ q[a] = s[a]
          BY <2>2, <2>3, <2>7, <4>3
        <5> QED
          BY <2>8, <4>1, <5>1 DEF Range
      <4>4. CASE a > i
        <5>1. a - 1 \in 1..(Len(s) - 1) /\ q[a - 1] = s[(a - 1) + 1] /\ (a - 1) + 1 = a
          BY <2>2, <2>3, <2>7, <4>4
        <5> QED
          BY <2>8, <4>1, <5>1 DEF Range
      <4> QED
        BY <2>2, <2>3, <4>2, <4>3, <4>4
    <3> QED
      BY <3>1, <3>2
  <2> QED
    BY <1>2, <2>6, <2>7, <2>9, <2>10
<1> QED
  BY <1>1, <1>2

\* What each entry of the prompt cache takes.
Sizes(f) == [q \in DOMAIN f |-> Size(f[q])]

\* The prompt cache is exact, and its count and order are those of its entries.
StoreOK ==
  /\ recency \in Seq(Seq(Token)) /\ IsInjective(recency) /\ Range(recency) = DOMAIN cached
  /\ cached \in [DOMAIN cached -> Cache]
  /\ \A q \in DOMAIN cached : Holds(cached[q], q)
  /\ limits \in CacheLimits
  /\ held = Total(Sizes(cached))
  /\ held <= limits.bytes /\ Len(recency) <= limits.entries

\* There are finitely many layers, and a first one.
LEMMA LayerFinite == IsFiniteSet(Layer) /\ 1 \in Layer /\ Layer \subseteq Nat
  BY DecodeAssumption, FS_Interval DEF Layer

\* A cache takes a number of bytes (SeqState::resident_bytes).
LEMMA SizeNat == ASSUME NEW c \in Cache PROVE Size(c) \in Nat
<1> DEFINE f == [l \in Layer |-> IF l \in Linear THEN 1 ELSE Len(c[l])]
<1>1. \A l \in Layer : f[l] \in Nat
  BY LenProperties DEF Cache
<1>2. Size(c) = Sum(f, Layer)
  BY SumTotal DEF Size
<1> HIDE DEF f
<1> QED
  BY <1>1, <1>2, LayerFinite, SumNat

\* An injective list of n names n.
LEMMA RangeFinite ==
  ASSUME NEW S, NEW s \in Seq(S)
  PROVE  IsFiniteSet(Range(s)) /\ Range(s) = {s[i] : i \in 1..Len(s)}
<1>1. DOMAIN s = 1..Len(s) /\ Len(s) \in Nat
  BY LenProperties
<1>2. IsFiniteSet(1..Len(s))
  BY <1>1, FS_Interval
<1>3. Range(s) = {s[i] : i \in 1..Len(s)}
  BY <1>1 DEF Range
<1>4. s \in Surjection(1..Len(s), Range(s))
  BY <1>1, <1>3, LenProperties DEF Surjection
<1> QED
  BY <1>2, <1>3, <1>4, FS_Surjection

\* One more at the end of a list.
LEMMA Renewed ==
  ASSUME NEW S, NEW s \in Seq(S), IsInjective(s), NEW x \in S
  PROVE  /\ Append(Without(s, x), x) \in Seq(S) /\ IsInjective(Append(Without(s, x), x))
         /\ Range(Append(Without(s, x), x)) = Range(s) \cup {x}
         /\ Len(Append(Without(s, x), x)) = IF x \in Range(s) THEN Len(s) ELSE Len(s) + 1
<1>1. PICK q \in Seq(S) : q = Without(s, x)
  BY CutOut
<1>2. /\ IsInjective(q) /\ Range(q) = Range(s) \ {x}
      /\ Len(q) = IF x \in Range(s) THEN Len(s) - 1 ELSE Len(s)
  BY <1>1, CutOut
<1>3. Len(q) \in Nat /\ DOMAIN q = 1..Len(q) /\ Len(s) \in Nat
  BY LenProperties
<1>4. PICK r : r = Append(q, x)
  OBVIOUS
<1>5. /\ r \in Seq(S) /\ Len(r) = Len(q) + 1 /\ r[Len(q) + 1] = x
      /\ \A i \in 1..Len(q) : r[i] = q[i]
  BY <1>4, AppendProperties
<1>6. DOMAIN r = 1..(Len(q) + 1)
  BY <1>5, LenProperties
<1>7. \A i \in 1..Len(q) : r[i] # x
  BY <1>2, <1>3, <1>5 DEF Range
<1>8. IsInjective(r)
  <2> SUFFICES ASSUME NEW i \in DOMAIN r, NEW j \in DOMAIN r, r[i] = r[j] PROVE i = j
    BY DEF IsInjective
  <2>1. CASE i = Len(q) + 1 \/ j = Len(q) + 1
    BY <1>3, <1>5, <1>6, <1>7, <2>1
  <2>2. CASE i \in 1..Len(q) /\ j \in 1..Len(q)
    <3>1. q[i] = q[j]
      BY <1>5, <2>2
    <3> QED
      BY <1>2, <1>3, <2>2, <3>1 DEF IsInjective
  <2> QED
    BY <1>3, <1>6, <2>1, <2>2
<1>9. Range(r) = Range(q) \cup {x}
  <2>1. \A i \in DOMAIN r : r[i] \in Range(q) \cup {x}
    BY <1>3, <1>5, <1>6 DEF Range
  <2>2. \A i \in DOMAIN q : q[i] \in Range(r)
    BY <1>3, <1>5, <1>6 DEF Range
  <2>3. x \in Range(r)
    BY <1>3, <1>5, <1>6 DEF Range
  <2> QED
    BY <2>1, <2>2, <2>3 DEF Range
<1>10. Range(r) = Range(s) \cup {x}
  BY <1>2, <1>9
<1> QED
  BY <1>1, <1>2, <1>3, <1>4, <1>5, <1>8, <1>10

\* What is left of a list when its first n are gone.
LEMMA Rest ==
  ASSUME NEW S, NEW s \in Seq(S), IsInjective(s), NEW n \in 0..Len(s)
  PROVE  /\ SubSeq(s, n + 1, Len(s)) \in Seq(S) /\ IsInjective(SubSeq(s, n + 1, Len(s)))
         /\ Range(SubSeq(s, n + 1, Len(s))) = {s[i] : i \in (n + 1)..Len(s)}
         /\ Len(SubSeq(s, n + 1, Len(s))) = Len(s) - n
<1>1. Len(s) \in Nat /\ DOMAIN s = 1..Len(s) /\ \A i \in 1..Len(s) : s[i] \in S
  BY LenProperties, ElementOfSeq
<1>2. PICK r : r = SubSeq(s, n + 1, Len(s))
  OBVIOUS
<1>b. Len(s) \in Nat
  BY <1>1
<1>a. n + 1 \in Int /\ \A i \in (n + 1)..Len(s) : s[i] \in S
  BY <1>1
<1>3. /\ r \in Seq(S) /\ Len(r) = IF n + 1 <= Len(s) THEN Len(s) - (n + 1) + 1 ELSE 0
      /\ \A i \in 1..(Len(s) - (n + 1) + 1) : r[i] = s[(n + 1) + i - 1]
  BY <1>1, <1>2, <1>a, SubSeqProperties
<1>4. Len(r) = Len(s) - n /\ \A i \in 1..(Len(s) - n) : r[i] = s[n + i]
  <2>1. Len(r) = Len(s) - n
    <3>1. CASE n + 1 <= Len(s)
      BY <1>1, <1>3, <3>1
    <3>2. CASE ~(n + 1 <= Len(s))
      <4>1. n = Len(s)
        BY <1>b, <3>2
      <4>2. Len(r) = 0
        BY <1>3, <3>2, Zenon
      <4> QED
        BY <1>1, <4>1, <4>2
    <3> QED
      BY <3>1, <3>2
  <2>2. \A i \in 1..(Len(s) - n) : i \in 1..(Len(s) - (n + 1) + 1) /\ (n + 1) + i - 1 = n + i
    BY <1>1
  <2> QED
    BY <1>3, <2>1, <2>2
<1>5. DOMAIN r = 1..(Len(s) - n)
  BY <1>3, <1>4, LenProperties
<1>6. IsInjective(r)
  <2> SUFFICES ASSUME NEW i \in DOMAIN r, NEW j \in DOMAIN r, r[i] = r[j] PROVE i = j
    BY DEF IsInjective
  <2>1. n + i \in 1..Len(s) /\ n + j \in 1..Len(s)
    BY <1>1, <1>5
  <2>2. s[n + i] = s[n + j]
    BY <1>4, <1>5
  <2>3. n + i = n + j
    BY <1>1, <2>1, <2>2 DEF IsInjective
  <2> QED
    BY <1>1, <1>5, <2>3
<1>7. Range(r) = {s[i] : i \in (n + 1)..Len(s)}
  <2>1. ASSUME NEW i \in DOMAIN r PROVE r[i] \in {s[j] : j \in (n + 1)..Len(s)}
    <3>1. n + i \in (n + 1)..Len(s) /\ r[i] = s[n + i]
      BY <1>1, <1>4, <1>5
    <3> QED
      BY <3>1
  <2>2. ASSUME NEW j \in (n + 1)..Len(s) PROVE s[j] \in Range(r)
    <3>1. j - n \in 1..(Len(s) - n) /\ n + (j - n) = j
      BY <1>1
    <3>2. r[j - n] = s[j]
      BY <1>4, <3>1
    <3> QED
      BY <1>5, <3>1, <3>2 DEF Range
  <2> QED
    BY <2>1, <2>2 DEF Range
<1> QED
  BY <1>2, <1>3, <1>4, <1>6, <1>7

\* h are the values of f for the first n of a list, rest is what comes after them.
Begins(h, f, s, n) == DOMAIN h = 1..n /\ \A i \in 1..n : h[i] = f[s[i]]
Leaves(rest, s, n) == rest = {s[i] : i \in (n + 1)..Len(s)}
AllNat(f, s) == \A i \in 1..Len(s) : f[s[i]] \in Nat

\* What is left when the first n of a list are taken off the sum over all of it.
LEMMA SumRest ==
  ASSUME NEW S, NEW s \in Seq(S), IsInjective(s), NEW n \in 0..Len(s),
         NEW f, AllNat(f, s), NEW h, Begins(h, f, s, n), NEW rest, Leaves(rest, s, n)
  PROVE  /\ Sum(f, Range(s)) - Total(h) = Sum(f, rest)
         /\ Sum(f, rest) \in Nat /\ IsFiniteSet(rest) /\ Total(h) \in Nat
<1> USE DEF Begins, Leaves, AllNat
<1> DEFINE first == {s[i] : i \in 1..n}
<1>1. Len(s) \in Nat /\ DOMAIN s = 1..Len(s)
  BY LenProperties
<1>2. IsFiniteSet(Range(s)) /\ Range(s) = {s[i] : i \in 1..Len(s)}
  BY RangeFinite
<1>3. \A x \in Range(s) : f[x] \in Nat
  BY <1>2
<1>4. first \in SUBSET Range(s) /\ rest \in SUBSET Range(s)
  BY <1>1, <1>2
<1>5. Range(s) \ first = rest
  <2>1. ASSUME NEW i \in 1..Len(s), s[i] \notin first PROVE s[i] \in rest
    <3>1. i \notin 1..n
      BY <2>1
    <3>2. i \in (n + 1)..Len(s)
      BY <1>1, <3>1
    <3> QED
      BY <3>2
  <2>2. ASSUME NEW i \in (n + 1)..Len(s) PROVE s[i] \notin first
    <3> SUFFICES ASSUME NEW j \in 1..n, s[i] = s[j] PROVE FALSE
      OBVIOUS
    <3>1. i \in 1..Len(s) /\ j \in 1..Len(s) /\ i # j
      BY <1>1
    <3> QED
      BY <1>1, <3>1 DEF IsInjective
  <2> QED
    BY <1>2, <1>4, <2>1, <2>2
<1>6. Total(h) = Sum(f, first)
  <2>1. IsFiniteSet(1..n) /\ \A i \in 1..n : i \in 1..Len(s)
    BY <1>1, FS_Interval
  <2>2. \A i, j \in 1..n : s[i] = s[j] => i = j
    BY <1>1, <2>1 DEF IsInjective
  <2>3. Sum(h, 1..n) = Sum(f, first)
    <3>1. PICK I : I = 1..n
      OBVIOUS
    <3>2. /\ IsFiniteSet(I) /\ \A i, j \in I : s[i] = s[j] => i = j
          /\ \A i \in I : h[i] = f[s[i]] /\ f[s[i]] \in Nat
      BY <2>1, <2>2, <3>1
    <3>3. Sum(h, I) = Sum(f, {s[i] : i \in I})
      BY ONLY <3>2, SumImage
    <3> QED
      BY <3>1, <3>3
  <2> QED
    BY <2>3, SumTotal
<1> HIDE DEF first
<1>7. Sum(f, Range(s)) = Sum(f, first) + Sum(f, rest)
  BY <1>2, <1>3, <1>4, <1>5, SumParts
<1>8. IsFiniteSet(rest) /\ IsFiniteSet(first)
  BY <1>2, <1>4, FS_Subset
<1>9. Sum(f, first) \in Nat /\ Sum(f, rest) \in Nat
  BY <1>3, <1>4, <1>8, SumNat
<1>10. Sum(f, Range(s)) - Total(h) = Sum(f, rest)
  BY <1>6, <1>7, <1>9
<1> QED
  BY <1>6, <1>8, <1>9, <1>10

\* Without a beginning of the list, the whole of it if need be, the rest keeps a bound
\* on its length and one on its sum.
LEMMA Trimmed ==
  ASSUME NEW S, NEW s \in Seq(S), IsInjective(s),
         NEW f, \A x \in Range(s) : f[x] \in Nat,
         NEW E \in Nat, NEW B \in Nat,
         NEW left, \A m \in 0..Len(s) : left[m] = Sum(f, {s[i] : i \in (m + 1)..Len(s)}),
         NEW n \in 0..Len(s), n = Len(s) \/ (Len(s) - n <= E /\ left[n] <= B)
  PROVE  Len(s) - n <= E /\ left[n] <= B
<1>1. Len(s) \in Nat
  BY LenProperties
<1>6. CASE n = Len(s)
  <2>a. \A i : i \notin (n + 1)..Len(s)
    BY <1>1, <1>6
  <2>1. {s[i] : i \in (n + 1)..Len(s)} = {}
    BY <2>a, Zenon
  <2>2. left[n] = 0
    BY <2>1, SumNone
  <2> QED
    BY <1>1, <1>6, <2>2
<1>7. CASE n # Len(s)
  BY <1>7
<1> QED
  BY <1>6, <1>7

\* What the entries take when P is put in with the cache c.
LEMMA PutIn ==
  ASSUME StoreOK, NEW P \in Seq(Token), NEW c \in Cache,
         NEW sz, \A q \in DOMAIN cached \cup {P} :
                    sz[q] = Size(IF q = P THEN c ELSE cached[q])
  PROVE  /\ Replaced(P) + Size(c) = Sum(sz, DOMAIN cached \cup {P})
         /\ Replaced(P) \in Nat /\ Size(c) \in Nat
         /\ \A q \in DOMAIN cached \cup {P} : sz[q] \in Nat
<1> DEFINE D == DOMAIN cached
           old == Sizes(cached)
<1>1. IsFiniteSet(D) /\ IsFiniteSet(D \cup {P})
  <2>1. IsFiniteSet(D)
    BY RangeFinite DEF StoreOK
  <2> QED
    BY <2>1, FS_AddElement
<1>2. \A q \in D : cached[q] \in Cache
  BY DEF StoreOK
<1>3. \A q \in D : old[q] = Size(cached[q]) /\ old[q] \in Nat
  BY <1>2, SizeNat DEF Sizes
<1>4. \A q \in D \cup {P} : sz[q] \in Nat
  <2>1. \A q \in D \cup {P} : (IF q = P THEN c ELSE cached[q]) \in Cache
    BY <1>2
  <2> QED
    BY <2>1, SizeNat
<1>5. sz[P] = Size(c) /\ Size(c) \in Nat
  BY SizeNat
<1>6. held = Sum(old, D)
  <2>1. DOMAIN old = D /\ held = Total(old)
    BY DEF StoreOK, Sizes
  <2> HIDE DEF old, D
  <2> QED
    BY <2>1, SumTotal
<1>7. \A q \in D \ {P} : sz[q] = old[q]
  BY <1>3
<1> HIDE DEF old
<1>8. Sum(sz, D \cup {P}) = sz[P] + Sum(sz, (D \cup {P}) \ {P})
  BY <1>1, <1>4, SumAny
<1>9. (D \cup {P}) \ {P} = D \ {P} /\ IsFiniteSet(D \ {P})
  BY <1>1, FS_Subset
<1>10. Sum(sz, D \ {P}) = Sum(old, D \ {P})
  BY <1>7, <1>9, SumFrame
<1>11. Sum(old, D \ {P}) \in Nat
  BY <1>3, <1>9, SumNat
<1>12. Replaced(P) = Sum(old, D \ {P})
  <2>1. CASE P \in D
    <3>1. Sum(old, D) = old[P] + Sum(old, D \ {P})
      BY <1>1, <1>3, <2>1, SumAny
    <3>2. Size(cached[P]) = old[P] /\ old[P] \in Nat
      BY <1>3, <2>1
    <3> QED
      BY <1>6, <1>11, <2>1, <3>1, <3>2 DEF Replaced
  <2>2. CASE P \notin D
    <3>1. D \ {P} = D
      BY <2>2
    <3> QED
      BY <1>6, <2>2, <3>1 DEF Replaced
  <2> QED
    BY <2>1, <2>2
<1>13. Replaced(P) + Size(c) = Sum(sz, D \cup {P})
  <2>1. PICK u \in Nat, v \in Nat : u = Sum(old, D \ {P}) /\ v = Size(c)
    BY <1>5, <1>11
  <2>2. Replaced(P) = u
    BY <1>12, <2>1
  <2>3. Sum(sz, D \cup {P}) = v + u
    BY <1>5, <1>8, <1>9, <1>10, <2>1
  <2> QED
    BY <2>1, <2>2, <2>3
<1> QED
  BY <1>4, <1>5, <1>11, <1>12, <1>13

\* PromptCache::insert keeps the prompt cache exact and bounded.
LEMMA InsertKeeps ==
  ASSUME StoreOK, NEW P \in Seq(Token), NEW c \in Cache, Holds(c, P), Insert(P, c)
  PROVE  StoreOK'
<1>0. CASE Size(c) > limits.bytes
  <2>1. UNCHANGED <<cached, recency, held, limits>>
    BY <1>0 DEF Insert, store
  <2> QED
    BY <2>1 DEF StoreOK
<1>1. CASE ~(Size(c) > limits.bytes)
  <2>1. PICK order : order = Append(Without(recency, P), P)
    OBVIOUS
  <2>2. PICK D : D = DOMAIN cached
    OBVIOUS
  <2>3. PICK at : at = [q \in D \cup {P} |-> IF q = P THEN c ELSE cached[q]]
    OBVIOUS
  <2>4. PICK sz : sz = [q \in D \cup {P} |-> Size(at[q])]
    OBVIOUS
  <2>5. PICK left : left = [m \in 0..Len(order) |->
            Replaced(P) + Size(c)
               - Total([i \in 1..m |-> Size(IF order[i] = P THEN c ELSE cached[order[i]])])]
    OBVIOUS
  <2>6. PICK fits : fits = {m \in 0..Len(order) : m = Len(order) \/
                      (Len(order) - m <= limits.entries /\ left[m] <= limits.bytes)}
    OBVIOUS
  <2>7. PICK n : n = CHOOSE x \in fits : \A y \in fits : x <= y
    OBVIOUS
  <2>8. /\ order \in Seq(Seq(Token)) /\ IsInjective(order)
        /\ Range(order) = D \cup {P}
    BY <2>1, <2>2, Renewed DEF StoreOK
  <2>9. Len(order) \in Nat /\ DOMAIN order = 1..Len(order)
    BY <2>8, LenProperties
  <2>10. \A i \in 1..Len(order) : order[i] \in D \cup {P}
    BY <2>8, <2>9 DEF Range
  <2>11. \A q \in D \cup {P} : at[q] \in Cache /\ Holds(at[q], q)
    <3>1. \A q \in D : cached[q] \in Cache /\ Holds(cached[q], q)
      BY <2>2 DEF StoreOK
    <3> QED
      BY <2>3, <3>1
  <2>12. /\ Replaced(P) + Size(c) = Sum(sz, Range(order))
         /\ Replaced(P) \in Nat /\ Size(c) \in Nat
         /\ \A q \in Range(order) : sz[q] \in Nat
    <3>1. \A q \in D \cup {P} : sz[q] = Size(IF q = P THEN c ELSE cached[q])
      BY <2>3, <2>4
    <3> QED
      BY <2>2, <2>8, <3>1, PutIn
  <2>a. PICK total : total = Replaced(P) + Size(c)
    OBVIOUS
  <2>b. total = Sum(sz, Range(order))
    BY <2>12, <2>a
  <2>13. ASSUME NEW m \in 0..Len(order)
         PROVE  left[m] = Sum(sz, {order[i] : i \in (m + 1)..Len(order)})
    <3>1. PICK h : h = [i \in 1..m |-> Size(IF order[i] = P THEN c ELSE cached[order[i]])]
      OBVIOUS
    <3>2. DOMAIN h = 1..m
      BY <3>1
    <3>3. \A i \in 1..m : h[i] = sz[order[i]]
      <4> SUFFICES ASSUME NEW i \in 1..m PROVE h[i] = sz[order[i]]
        OBVIOUS
      <4>1. order[i] \in D \cup {P}
        BY <2>9, <2>10
      <4> QED
        BY <2>3, <2>4, <3>1, <4>1
    <3>5. \A i \in 1..Len(order) : sz[order[i]] \in Nat
      BY <2>8, <2>10, <2>12
    <3>6. PICK rst : rst = {order[i] : i \in (m + 1)..Len(order)}
      OBVIOUS
    <3>7. Sum(sz, Range(order)) - Total(h) = Sum(sz, rst) /\ Total(h) \in Nat
      <4>1. order \in Seq(Seq(Token)) /\ IsInjective(order)
        BY <2>8
      <4>2. Begins(h, sz, order, m) /\ Leaves(rst, order, m) /\ AllNat(sz, order)
        BY <3>2, <3>3, <3>5, <3>6 DEF Begins, Leaves, AllNat
      <4> QED
        BY <4>1, <4>2, SumRest
    <3>4. left[m] = total - Total(h)
      <4> DEFINE H == [i \in 1..m |-> Size(IF order[i] = P THEN c ELSE cached[order[i]])]
      <4>1. left[m] = Replaced(P) + Size(c) - Total(H)
        BY <2>5
      <4>2. H = h
        BY <3>1
      <4> HIDE DEF H
      <4> QED
        BY <2>a, <2>12, <3>7, <4>1, <4>2
    <3> QED
      BY <2>b, <3>4, <3>6, <3>7
  <2>14. limits \in [entries : Nat \ {0}, bytes : Nat]
    BY DecodeAssumption DEF StoreOK
  <2>15. limits.bytes \in Nat /\ limits.entries \in Nat
    BY <2>14
  <2>16. n \in 0..Len(order) /\ Len(order) - n <= limits.entries /\ left[n] <= limits.bytes
    <3>1. fits \subseteq Nat /\ Len(order) \in fits
      BY <2>6, <2>9
    <3>2. \E x \in fits : \A y \in fits : x <= y
      BY <3>1, HasLeast
    <3>3. n \in fits
      BY <2>7, <3>2
    <3>4. /\ n \in 0..Len(order)
          /\ n = Len(order) \/ (Len(order) - n <= limits.entries /\ left[n] <= limits.bytes)
      BY <2>6, <3>3
    <3>5. \A m \in 0..Len(order) : left[m] = Sum(sz, {order[i] : i \in (m + 1)..Len(order)})
      BY <2>13
    <3> QED
      BY <2>8, <2>12, <2>15, <3>4, <3>5, Trimmed
  <2>17. PICK rest : rest = {order[i] : i \in (n + 1)..Len(order)}
    OBVIOUS
  <2>18. /\ recency' = SubSeq(order, n + 1, Len(order))
         /\ cached' = [q \in rest |-> IF q = P THEN c ELSE cached[q]]
         /\ held' = left[n] /\ limits' = limits
    <3> DEFINE ord == Append(Without(recency, P), P)
               At(q) == IF q = P THEN c ELSE cached[q]
               Left(m) == Replaced(P) + Size(c) - Total([i \in 1..m |-> Size(At(ord[i]))])
               fit == {m \in 0..Len(ord) : m = Len(ord) \/
                          (Len(ord) - m <= limits.entries /\ Left(m) <= limits.bytes)}
               k == CHOOSE x \in fit : \A y \in fit : x <= y
    <3>1. /\ recency' = SubSeq(ord, k + 1, Len(ord))
          /\ cached' = [q \in {ord[i] : i \in (k + 1)..Len(ord)} |-> At(q)]
          /\ held' = Left(k) /\ limits' = limits
      BY <1>1 DEF Insert
    <3>2. ord = order
      BY <2>1
    <3>3. ASSUME NEW m \in 0..Len(order) PROVE Left(m) = left[m]
      BY <2>5, <3>2
    <3> HIDE DEF Left, ord
    <3>4. fit = fits
      BY <2>6, <3>2, <3>3
    <3> HIDE DEF fit
    <3>5. k = n
      BY <2>7, <3>4
    <3> HIDE DEF k
    <3> QED
      BY <2>16, <2>17, <3>1, <3>2, <3>3, <3>5
  <2>19. /\ recency' \in Seq(Seq(Token)) /\ IsInjective(recency')
         /\ Range(recency') = rest /\ Len(recency') = Len(order) - n
    BY <2>8, <2>16, <2>17, <2>18, Rest
  <2>20. rest \subseteq D \cup {P} /\ DOMAIN cached' = rest /\ IsFiniteSet(rest)
    <3>1. ASSUME NEW i \in (n + 1)..Len(order) PROVE order[i] \in D \cup {P}
      BY <2>9, <2>10, <2>16
    <3>2. IsFiniteSet(rest)
      BY <2>19, RangeFinite
    <3> QED
      BY <2>17, <2>18, <3>1, <3>2
  <2>21. \A q \in rest : cached'[q] = at[q]
    BY <2>3, <2>18, <2>20
  <2>22. held' = Total(Sizes(cached'))
    <3>1. PICK g : g = Sizes(cached')
      OBVIOUS
    <3>2. DOMAIN g = rest /\ \A q \in rest : g[q] = sz[q]
      BY <2>4, <2>20, <2>21, <3>1 DEF Sizes
    <3>3. Sum(g, rest) = Sum(sz, rest)
      BY <2>20, <3>2, SumFrame
    <3>4. held' = Sum(sz, rest)
      BY <2>13, <2>16, <2>17, <2>18
    <3> QED
      BY <3>1, <3>2, <3>3, <3>4, SumTotal
  <2>23. cached' \in [DOMAIN cached' -> Cache] /\ \A q \in DOMAIN cached' : Holds(cached'[q], q)
    BY <2>11, <2>18, <2>20, <2>21
  <2>24. limits' \in CacheLimits /\ held' <= limits'.bytes /\ Len(recency') <= limits'.entries
    BY <2>16, <2>18, <2>19 DEF StoreOK
  <2> QED
    BY <2>19, <2>20, <2>22, <2>23, <2>24 DEF StoreOK, Holds, Sizes
<1> QED
  BY <1>0, <1>1

-----------------------------------------------------------------------------
(* Beginnings and ends of sequences.                                       *)

\* The first n elements of q, and the others.
Pre(q, n) == SubSeq(q, 1, n)
From(q, n) == SubSeq(q, n + 1, Len(q))

\* A beginning of a sequence.
LEMMA PreIs ==
  ASSUME NEW S, NEW q \in Seq(S), NEW n \in 0..Len(q)
  PROVE  Pre(q, n) \in Seq(S) /\ Len(Pre(q, n)) = n /\ \A i \in 1..n : Pre(q, n)[i] = q[i]
<1>1. Len(q) \in Nat /\ n \in Nat
  BY LenProperties
<1>2. \A i \in 1..n : q[i] \in S
  BY <1>1, ElementOfSeq
<1>3. PICK r : r = Pre(q, n)
  OBVIOUS
<1>4. /\ r \in Seq(S) /\ Len(r) = IF 1 <= n THEN n - 1 + 1 ELSE 0
      /\ \A i \in 1..(n - 1 + 1) : r[i] = q[1 + i - 1]
  BY <1>1, <1>2, <1>3, SubSeqProperties DEF Pre
<1>5. Len(r) = n
  <2>1. Len(r) = IF 1 <= n THEN n - 1 + 1 ELSE 0
    BY <1>4
  <2> QED
    BY <1>1, <2>1
<1>6. \A i \in 1..n : r[i] = q[i]
  <2>1. \A i \in 1..n : i \in 1..(n - 1 + 1) /\ 1 + i - 1 = i
    BY <1>1
  <2> QED
    BY <1>4, <2>1
<1> QED
  BY <1>3, <1>4, <1>5, <1>6

\* What comes after it.
LEMMA FromIs ==
  ASSUME NEW S, NEW q \in Seq(S), NEW n \in 0..Len(q)
  PROVE  /\ From(q, n) \in Seq(S) /\ Len(From(q, n)) = Len(q) - n
         /\ \A i \in 1..(Len(q) - n) : From(q, n)[i] = q[n + i]
<1>1. Len(q) \in Nat /\ n \in Nat /\ n + 1 \in Int
  BY LenProperties
<1>2. \A i \in (n + 1)..Len(q) : q[i] \in S
  <2>1. \A i \in (n + 1)..Len(q) : i \in 1..Len(q)
    BY <1>1
  <2> QED
    BY <2>1, ElementOfSeq
<1>3. PICK r : r = From(q, n)
  OBVIOUS
<1>4. /\ r \in Seq(S) /\ Len(r) = IF n + 1 <= Len(q) THEN Len(q) - (n + 1) + 1 ELSE 0
      /\ \A i \in 1..(Len(q) - (n + 1) + 1) : r[i] = q[(n + 1) + i - 1]
  BY <1>1, <1>2, <1>3, SubSeqProperties DEF From
<1>5. Len(r) = Len(q) - n
  <2>1. Len(r) = IF n + 1 <= Len(q) THEN Len(q) - (n + 1) + 1 ELSE 0
    BY <1>4
  <2> QED
    BY <1>1, <2>1
<1>6. \A i \in 1..(Len(q) - n) : r[i] = q[n + i]
  <2>1. \A i \in 1..(Len(q) - n) : i \in 1..(Len(q) - (n + 1) + 1) /\ (n + 1) + i - 1 = n + i
    BY <1>1
  <2> QED
    BY <1>4, <2>1
<1> QED
  BY <1>3, <1>4, <1>5, <1>6

\* One sequence after another.
LEMMA CatIs ==
  ASSUME NEW S, NEW q \in Seq(S), NEW r \in Seq(S)
  PROVE  /\ q \o r \in Seq(S) /\ Len(q \o r) = Len(q) + Len(r)
         /\ \A i \in 1..Len(q) : (q \o r)[i] = q[i]
         /\ \A i \in 1..Len(r) : (q \o r)[Len(q) + i] = r[i]
<1>1. Len(q) \in Nat /\ Len(r) \in Nat
  BY LenProperties
<1>2. PICK t : t = q \o r
  OBVIOUS
<1>3. /\ t \in Seq(S) /\ Len(t) = Len(q) + Len(r)
      /\ \A i \in 1..(Len(q) + Len(r)) : t[i] = IF i <= Len(q) THEN q[i] ELSE r[i - Len(q)]
  BY <1>2, ConcatProperties
<1>4. \A i \in 1..Len(q) : t[i] = q[i]
  <2>1. \A i \in 1..Len(q) : i \in 1..(Len(q) + Len(r)) /\ i <= Len(q)
    BY <1>1
  <2> QED
    BY <1>3, <2>1
<1>5. \A i \in 1..Len(r) : t[Len(q) + i] = r[i]
  <2>1. \A i \in 1..Len(r) : /\ Len(q) + i \in 1..(Len(q) + Len(r)) /\ ~(Len(q) + i <= Len(q))
                             /\ (Len(q) + i) - Len(q) = i
    BY <1>1
  <2> QED
    BY <1>3, <2>1
<1> QED
  BY <1>2, <1>3, <1>4, <1>5

\* Sequences that agree on their first n elements have the same beginning.
LEMMA PreSame ==
  ASSUME NEW S, NEW q \in Seq(S), NEW r \in Seq(S), NEW n \in 0..Len(q), n <= Len(r),
         \A i \in 1..n : q[i] = r[i]
  PROVE  Pre(q, n) = Pre(r, n)
<1>1. Len(q) \in Nat /\ Len(r) \in Nat
  BY LenProperties
<1>2. n \in 0..Len(r)
  BY <1>1
<1>3. /\ Pre(q, n) \in Seq(S) /\ Len(Pre(q, n)) = n /\ \A i \in 1..n : Pre(q, n)[i] = q[i]
      /\ Pre(r, n) \in Seq(S) /\ Len(Pre(r, n)) = n /\ \A i \in 1..n : Pre(r, n)[i] = r[i]
  BY <1>2, PreIs
<1> QED
  BY <1>3, SeqEqual

\* The whole sequence is a beginning of it.
LEMMA PreFull == ASSUME NEW S, NEW q \in Seq(S) PROVE Pre(q, Len(q)) = q
  BY SubSeqFull DEF Pre

\* The shortest beginning is empty.
LEMMA PreNone == ASSUME NEW q PROVE Pre(q, 0) = <<>>
  BY SubSeqEmpty DEF Pre

\* A beginning does not change when something is put behind the sequence.
LEMMA PreCat ==
  ASSUME NEW S, NEW q \in Seq(S), NEW r \in Seq(S), NEW n \in 0..Len(q)
  PROVE  Pre(q \o r, n) = Pre(q, n)
<1>1. /\ q \o r \in Seq(S) /\ Len(q \o r) = Len(q) + Len(r)
      /\ \A i \in 1..Len(q) : (q \o r)[i] = q[i]
  BY CatIs
<1>2. Len(q) \in Nat /\ Len(r) \in Nat
  BY LenProperties
<1>3. n <= Len(q \o r) /\ \A i \in 1..n : q[i] = (q \o r)[i]
  BY <1>1, <1>2
<1>4. Pre(q, n) = Pre(q \o r, n)
  BY <1>1, <1>3, PreSame
<1> QED
  BY <1>4

\* A beginning of a beginning is one.
LEMMA PrePre ==
  ASSUME NEW S, NEW q \in Seq(S), NEW m \in 0..Len(q), NEW n \in 0..m
  PROVE  Pre(Pre(q, m), n) = Pre(q, n)
<1>1. Len(q) \in Nat
  BY LenProperties
<1>2. Pre(q, m) \in Seq(S) /\ Len(Pre(q, m)) = m /\ \A i \in 1..m : Pre(q, m)[i] = q[i]
  BY PreIs
<1>3. n \in 0..Len(q) /\ n <= m /\ \A i \in 1..n : i \in 1..m
  BY <1>1
<1>4. Pre(q, n) = Pre(Pre(q, m), n)
  BY <1>2, <1>3, PreSame
<1> QED
  BY <1>4

\* A beginning and what comes after it are the whole.
LEMMA PreTail ==
  ASSUME NEW S, NEW q \in Seq(S), NEW n \in 0..Len(q)
  PROVE  Pre(q, n) \o SubSeq(q, n + 1, Len(q)) = q
<1>1. Len(q) \in Nat
  BY LenProperties
<1>2. 1 \in 1..(Len(q) + 1) /\ n \in (1 - 1)..Len(q) /\ Len(q) \in n..Len(q)
  BY <1>1
<1>3. SubSeq(q, 1, n) \o SubSeq(q, n + 1, Len(q)) = SubSeq(q, 1, Len(q))
  BY <1>2, ConcatAdjacentSubSeq
<1> QED
  BY <1>3, SubSeqFull DEF Pre

\* All but the last element is a beginning.
LEMMA FrontIs ==
  ASSUME NEW S, NEW q \in Seq(S), q # <<>>
  PROVE  /\ Front(q) = Pre(q, Len(q) - 1) /\ Len(q) - 1 \in 0..Len(q) /\ Len(q) \in Nat \ {0}
         /\ Front(q) \in Seq(S) /\ Len(Front(q)) = Len(q) - 1
<1>1. Len(q) \in Nat \ {0}
  BY EmptySeq
<1>2. Len(q) - 1 \in 0..Len(q)
  BY <1>1
<1>3. Front(q) = Pre(q, Len(q) - 1)
  BY DEF Front, Pre
<1>4. Pre(q, Len(q) - 1) \in Seq(S) /\ Len(Pre(q, Len(q) - 1)) = Len(q) - 1
  BY <1>2, PreIs
<1> QED
  BY <1>1, <1>2, <1>3, <1>4

\* What is put behind a sequence comes after any beginning of it.
LEMMA FromCat ==
  ASSUME NEW S, NEW q \in Seq(S), NEW r \in Seq(S), NEW n \in 0..Len(q)
  PROVE  From(q \o r, n) = From(q, n) \o r
<1>1. PICK t : t = q \o r
  OBVIOUS
<1>2. /\ t \in Seq(S) /\ Len(t) = Len(q) + Len(r)
      /\ \A i \in 1..Len(q) : t[i] = q[i]
      /\ \A i \in 1..Len(r) : t[Len(q) + i] = r[i]
  BY <1>1, CatIs
<1>3. Len(q) \in Nat /\ Len(r) \in Nat /\ n \in 0..Len(t)
  <2>1. Len(q) \in Nat /\ Len(r) \in Nat
    BY LenProperties
  <2> QED
    BY <1>2, <2>1
<1>4. PICK a : a = From(t, n)
  OBVIOUS
<1>5. /\ a \in Seq(S) /\ Len(a) = Len(t) - n
      /\ \A i \in 1..(Len(t) - n) : a[i] = t[n + i]
  BY <1>2, <1>3, <1>4, FromIs
<1>6. PICK b : b = From(q, n)
  OBVIOUS
<1>7. /\ b \in Seq(S) /\ Len(b) = Len(q) - n
      /\ \A i \in 1..(Len(q) - n) : b[i] = q[n + i]
  BY <1>6, FromIs
<1>8. PICK c : c = b \o r
  OBVIOUS
<1>9. /\ c \in Seq(S) /\ Len(c) = Len(b) + Len(r)
      /\ \A i \in 1..Len(b) : c[i] = b[i]
      /\ \A i \in 1..Len(r) : c[Len(b) + i] = r[i]
  <2>1. b \in Seq(S)
    BY <1>7
  <2> QED
    BY <1>8, <2>1, CatIs
<1>10. Len(a) = Len(c)
  BY <1>2, <1>3, <1>5, <1>7, <1>9
<1>11. ASSUME NEW i \in 1..Len(a) PROVE a[i] = c[i]
  <2>1. CASE i <= Len(q) - n
    <3>1. i \in 1..Len(b) /\ i \in 1..(Len(q) - n) /\ n + i \in 1..Len(q) /\ i \in 1..(Len(t) - n)
      BY <1>2, <1>3, <1>5, <1>7, <2>1
    <3> QED
      BY <1>2, <1>5, <1>7, <1>9, <3>1
  <2>2. CASE ~(i <= Len(q) - n)
    <3>1. PICK j : j = i - (Len(q) - n)
      OBVIOUS
    <3>2. j \in 1..Len(r) /\ i \in 1..(Len(t) - n) /\ n + i = Len(q) + j /\ i = Len(b) + j
      BY <1>2, <1>3, <1>5, <1>7, <2>2, <3>1
    <3>3. a[i] = t[n + i] /\ t[Len(q) + j] = r[j] /\ c[Len(b) + j] = r[j]
      BY <1>2, <1>5, <1>9, <3>2
    <3> QED
      BY <3>2, <3>3
  <2> QED
    BY <2>1, <2>2
<1>12. a = c
  BY <1>5, <1>9, <1>10, <1>11, SeqEqual
<1> QED
  BY <1>1, <1>4, <1>6, <1>8, <1>12

\* A beginning, and a beginning of what comes after it, are one.
LEMMA PreFrom ==
  ASSUME NEW S, NEW q \in Seq(S), NEW n \in 0..Len(q), NEW j \in 0..(Len(q) - n)
  PROVE  Pre(q, n) \o Pre(From(q, n), j) = Pre(q, n + j)
<1>1. Len(q) \in Nat
  BY LenProperties
<1>2. PICK a : a = Pre(q, n)
  OBVIOUS
<1>3. a \in Seq(S) /\ Len(a) = n /\ \A i \in 1..n : a[i] = q[i]
  BY <1>2, PreIs
<1>4. PICK f : f = From(q, n)
  OBVIOUS
<1>5. /\ f \in Seq(S) /\ Len(f) = Len(q) - n
      /\ \A i \in 1..(Len(q) - n) : f[i] = q[n + i]
  BY <1>4, FromIs
<1>6. PICK b : b = Pre(f, j)
  OBVIOUS
<1>7. b \in Seq(S) /\ Len(b) = j /\ \A i \in 1..j : b[i] = f[i]
  BY <1>5, <1>6, PreIs
<1>8. PICK c : c = a \o b
  OBVIOUS
<1>9. /\ c \in Seq(S) /\ Len(c) = Len(a) + Len(b)
      /\ \A i \in 1..Len(a) : c[i] = a[i]
      /\ \A i \in 1..Len(b) : c[Len(a) + i] = b[i]
  <2>1. a \in Seq(S) /\ b \in Seq(S)
    BY <1>3, <1>7
  <2> QED
    BY <1>8, <2>1, CatIs
<1>10. n + j \in 0..Len(q)
  BY <1>1
<1>11. PICK d : d = Pre(q, n + j)
  OBVIOUS
<1>12. d \in Seq(S) /\ Len(d) = n + j /\ \A i \in 1..(n + j) : d[i] = q[i]
  BY <1>10, <1>11, PreIs
<1>13. Len(c) = Len(d)
  BY <1>3, <1>7, <1>9, <1>12
<1>14. ASSUME NEW i \in 1..Len(c) PROVE c[i] = d[i]
  <2>1. CASE i <= n
    <3>1. i \in 1..n /\ i \in 1..(n + j) /\ i \in 1..Len(a)
      BY <1>3, <1>7, <1>9, <2>1
    <3> QED
      BY <1>3, <1>9, <1>12, <3>1
  <2>2. CASE ~(i <= n)
    <3>1. PICK k : k = i - n
      OBVIOUS
    <3>2. /\ k \in 1..j /\ k \in 1..Len(b) /\ k \in 1..(Len(q) - n) /\ i = n + k /\ i = Len(a) + k
          /\ i \in 1..(n + j)
      BY <1>1, <1>3, <1>7, <1>9, <2>2, <3>1
    <3>3. c[Len(a) + k] = b[k] /\ b[k] = f[k] /\ f[k] = q[n + k] /\ d[i] = q[i]
      BY <1>5, <1>7, <1>9, <1>12, <3>2
    <3> QED
      BY <3>2, <3>3
  <2> QED
    BY <2>1, <2>2
<1>15. c = d
  BY <1>9, <1>12, <1>13, <1>14, SeqEqual
<1> QED
  BY <1>2, <1>4, <1>6, <1>8, <1>11, <1>15

-----------------------------------------------------------------------------
(* Caches.                                                                 *)

\* A new cache holds nothing.
LEMMA FreshHolds == Fresh \in Cache /\ Holds(Fresh, <<>>)
<1>1. <<>> \in Seq(Token)
  BY EmptySeq
<1> QED
  BY <1>1 DEF Fresh, Cache, Holds

\* A pass over a context that begins with what every layer has absorbed leaves them all
\* with the context.
LEMMA FedHolds ==
  ASSUME NEW c \in Cache, NEW ctx \in Seq(Token), NEW n \in 0..Len(ctx), Holds(c, Pre(ctx, n))
  PROVE  Fed(c, ctx) \in Cache /\ Holds(Fed(c, ctx), ctx)
<1>1. \A l \in Layer : c[l] = Pre(ctx, n)
  BY DEF Holds
<1>2. Len(c[1]) = n
  <2>1. c[1] = Pre(ctx, n)
    BY <1>1, LayerFinite
  <2> QED
    BY <2>1, PreIs
<1>3. Pre(ctx, n) \o SubSeq(ctx, n + 1, Len(ctx)) = ctx
  BY PreTail
<1>4. PICK f : f = Fed(c, ctx)
  OBVIOUS
<1>5. f = [l \in Layer |-> ctx]
  <2>1. f = [l \in Layer |-> c[l] \o SubSeq(ctx, Len(c[1]) + 1, Len(ctx))]
    BY <1>4 DEF Fed
  <2>2. \A l \in Layer : c[l] \o SubSeq(ctx, Len(c[1]) + 1, Len(ctx)) = ctx
    BY <1>1, <1>2, <1>3
  <2> QED
    BY <2>1, <2>2
<1> QED
  BY <1>4, <1>5 DEF Cache, Holds

\* What truncation leaves of a cache that holds w.
LEMMA CutHolds ==
  ASSUME NEW c \in Cache, NEW w \in Seq(Token), Holds(c, w), NEW len \in Nat
  PROVE  /\ Cut(c, len) \in Cache /\ Least(len, Len(w)) \in 0..Len(w)
         /\ Holds(Cut(c, len), Pre(w, Least(len, Len(w))))
<1>1. Len(w) \in Nat
  BY LenProperties
<1>2. Least(len, Len(w)) \in 0..Len(w)
  BY <1>1 DEF Least
<1>3. Pre(w, Least(len, Len(w))) \in Seq(Token)
  BY <1>2, PreIs
<1>4. ASSUME NEW l \in Layer PROVE Cut(c, len)[l] = Pre(w, Least(len, Len(w)))
  <2>1. c[l] = w
    BY DEF Holds
  <2>2. Cut(c, len)[l] = IF len >= Len(w) THEN w ELSE Pre(w, len)
    BY <2>1 DEF Cut, Pre
  <2>3. CASE len >= Len(w)
    <3>1. Least(len, Len(w)) = Len(w)
      BY <1>1, <2>3 DEF Least
    <3> QED
      BY <2>2, <2>3, <3>1, PreFull
  <2>4. CASE ~(len >= Len(w))
    <3>1. Least(len, Len(w)) = len
      BY <1>1, <2>4 DEF Least
    <3> QED
      BY <2>2, <2>4, <3>1
  <2> QED
    BY <2>3, <2>4
<1>5. Cut(c, len) = [l \in Layer |-> Cut(c, len)[l]]
  BY DEF Cut
<1>6. Cut(c, len) \in Cache
  <2>1. \A l \in Layer : Cut(c, len)[l] \in Seq(Token)
    BY <1>3, <1>4
  <2> QED
    BY <1>5, <2>1 DEF Cache
<1> QED
  BY <1>2, <1>4, <1>6 DEF Holds

\* After a pass over probe, of which the cache held all but what came after its first
\* base - 1 tokens, it can go back to any length from there on, recurrent layers too.
LEMMA GoesBack ==
  ASSUME NEW c \in Cache, NEW probe \in Seq(Token), NEW base \in 1..Len(probe),
         Holds(c, Pre(probe, base - 1)),
         NEW copies, copies = IF base = Len(probe) THEN NoCopies ELSE Copies(c, probe),
         NEW keep \in (base - 1)..Len(probe), base = Len(probe) => keep = base,
         NEW target, target = Fed(c, probe)
  PROVE  /\ Recoverable(target, copies, keep)
         /\ Rewound(target, copies, keep) \in Cache
         /\ Holds(Rewound(target, copies, keep), Pre(probe, keep))
<1>1. Len(probe) \in Nat /\ base - 1 \in 0..Len(probe) /\ keep \in 0..Len(probe) /\ keep \in Nat
  <2>1. Len(probe) \in Nat
    BY LenProperties
  <2> QED
    BY <2>1
<1>2. target \in Cache /\ Holds(target, probe)
  BY <1>1, FedHolds
<1>3. \A l \in Layer : target[l] = probe /\ c[l] = Pre(probe, base - 1) /\ Len(c[l]) = base - 1
  <2>1. Len(Pre(probe, base - 1)) = base - 1
    BY <1>1, PreIs
  <2> QED
    BY <1>2, <2>1 DEF Holds
<1>4. Linear \subseteq Layer
  BY DecodeAssumption
<1>5. ASSUME base # Len(probe), NEW l \in Linear
      PROVE  /\ DOMAIN copies[l] = (base - 1)..(Len(probe) - 1)
             /\ \A n \in (base - 1)..(Len(probe) - 1) : copies[l][n] = Pre(probe, n)
  <2>1. copies = Copies(c, probe)
    BY <1>5
  <2>2. copies[l] = [n \in Len(c[l])..(Len(target[l]) - 1) |-> SubSeq(target[l], 1, n)]
    BY <2>1 DEF Copies
  <2>3. copies[l] = [n \in (base - 1)..(Len(probe) - 1) |-> SubSeq(probe, 1, n)]
    BY <1>3, <1>4, <2>2
  <2> QED
    BY <2>3 DEF Pre
<1>6. ASSUME base = Len(probe), NEW l \in Linear PROVE DOMAIN copies[l] = {}
  <2>1. copies = NoCopies
    BY <1>6
  <2>2. copies[l] = << >>
    BY <2>1 DEF NoCopies
  <2> QED
    BY <2>2
<1>7. Recoverable(target, copies, keep)
  <2> SUFFICES ASSUME keep < Len(target[1]), NEW l \in Linear
               PROVE  keep \in {Len(target[l])} \cup DOMAIN copies[l]
    BY DEF Recoverable
  <2>1. keep < Len(probe)
    BY <1>3, LayerFinite
  <2>2. base # Len(probe)
    BY <1>1, <2>1
  <2>3. keep \in (base - 1)..(Len(probe) - 1)
    BY <1>1, <2>1
  <2> QED
    BY <1>5, <2>2, <2>3
<1>8. Pre(probe, keep) \in Seq(Token)
  BY <1>1, PreIs
<1>9. ASSUME NEW l \in Layer PROVE Rewound(target, copies, keep)[l] = Pre(probe, keep)
  <2>1. Rewound(target, copies, keep)[l] =
           IF l \notin Linear THEN Cut(target, keep)[l]
           ELSE IF keep \in DOMAIN copies[l] THEN copies[l][keep] ELSE target[l]
    BY DEF Rewound
  <2>2. CASE l \notin Linear
    <3>1. Least(keep, Len(probe)) = keep
      BY <1>1 DEF Least
    <3>2. Holds(Cut(target, keep), Pre(probe, keep))
      BY <1>1, <1>2, <3>1, CutHolds
    <3> QED
      BY <2>1, <2>2, <3>2 DEF Holds
  <2>3. CASE l \in Linear /\ keep \in DOMAIN copies[l]
    <3>1. base # Len(probe)
      BY <1>6, <2>3
    <3> QED
      BY <1>5, <2>1, <2>3, <3>1
  <2>4. CASE l \in Linear /\ keep \notin DOMAIN copies[l]
    <3>1. keep = Len(probe)
      <4>1. CASE base = Len(probe)
        BY <4>1
      <4>2. CASE base # Len(probe)
        <5>1. keep \notin (base - 1)..(Len(probe) - 1)
          BY <1>5, <2>4, <4>2
        <5> QED
          BY <1>1, <5>1
      <4> QED
        BY <4>1, <4>2
    <3>2. Pre(probe, keep) = probe
      BY <3>1, PreFull
    <3> QED
      BY <1>3, <2>1, <2>4, <3>2
  <2> QED
    BY <2>2, <2>3, <2>4
<1>10. Rewound(target, copies, keep) \in Cache
  <2>1. PICK r : r = Rewound(target, copies, keep)
    OBVIOUS
  <2>2. r = [l \in Layer |-> r[l]]
    BY <2>1 DEF Rewound
  <2>3. \A l \in Layer : r[l] \in Seq(Token)
    BY <1>8, <1>9, <2>1
  <2> QED
    BY <2>1, <2>2, <2>3 DEF Cache
<1> QED
  BY <1>7, <1>9, <1>10 DEF Holds

-----------------------------------------------------------------------------
(* Guesses.                                                                *)

\* What the draft's cache may hold between rounds.
DraftOK(d, ctx) ==
  /\ d \in Cache \cup {None}
  /\ d # None => \E n \in 0..(Len(ctx) - 1) : Holds(d, Pre(ctx, n))

\* What it may hold after guesses: nothing that contradicts the context and the guesses.
Trails(d, ctx, g) ==
  \E w \in Seq(Token) :
     Holds(d, w) /\ \A i \in 1..Len(w) : i <= Len(ctx) + Len(g) => w[i] = (ctx \o g)[i]

GuessOK(d, ctx, g) ==
  /\ d \in Cache \cup {None}
  /\ d # None => Trails(d, ctx, g)

\* The draft's cache as it was contradicts no guess.
LEMMA OldTrails ==
  ASSUME NEW ctx \in Seq(Token), NEW g \in Seq(Token), NEW d \in Cache,
         NEW n \in 0..Len(ctx), Holds(d, Pre(ctx, n))
  PROVE  Trails(d, ctx, g) /\ Holds(d, Pre(ctx \o g, n)) /\ n \in 0..Len(ctx \o g)
<1>1. Len(ctx) \in Nat /\ Len(g) \in Nat
  BY LenProperties
<1>2. PICK w : w = Pre(ctx, n)
  OBVIOUS
<1>3. w \in Seq(Token) /\ Len(w) = n /\ \A i \in 1..n : w[i] = ctx[i]
  BY <1>2, PreIs
<1>4. Len(ctx \o g) = Len(ctx) + Len(g) /\ \A i \in 1..Len(ctx) : (ctx \o g)[i] = ctx[i]
  BY CatIs
<1>5. \A i \in 1..Len(w) : w[i] = (ctx \o g)[i]
  BY <1>1, <1>3, <1>4
<1>6. Pre(ctx \o g, n) = w
  BY <1>2, PreCat
<1> QED
  BY <1>1, <1>2, <1>3, <1>4, <1>5, <1>6 DEF Trails

\* Nor does it after it has absorbed the guesses, or some of them, or others that were
\* given up again.
LEMMA NewTrails ==
  ASSUME NEW ctx \in Seq(Token), NEW g \in Seq(Token), NEW h \in Seq(Token),
         NEW d \in Cache, NEW n \in 0..Len(ctx), Holds(d, Pre(ctx, n)),
         NEW k \in 0..Len(g), k <= Len(h), g = <<>> \/ Pre(g, k) = h
  PROVE  Fed(d, ctx \o h) \in Cache /\ Trails(Fed(d, ctx \o h), ctx, g)
<1>1. Len(ctx) \in Nat /\ Len(g) \in Nat /\ Len(h) \in Nat
  BY LenProperties
<1>2. ctx \o h \in Seq(Token) /\ Holds(d, Pre(ctx \o h, n)) /\ n \in 0..Len(ctx \o h)
  BY CatIs, OldTrails
<1>3. PICK w : w = ctx \o h
  OBVIOUS
<1>4. Fed(d, w) \in Cache /\ Holds(Fed(d, w), w) /\ w \in Seq(Token)
  BY <1>2, <1>3, FedHolds
<1>5. /\ Len(w) = Len(ctx) + Len(h)
      /\ \A i \in 1..Len(ctx) : w[i] = ctx[i]
      /\ \A i \in 1..Len(h) : w[Len(ctx) + i] = h[i]
  BY <1>3, CatIs
<1>6. PICK v : v = ctx \o g
  OBVIOUS
<1>7. /\ \A i \in 1..Len(ctx) : v[i] = ctx[i]
      /\ \A i \in 1..Len(g) : v[Len(ctx) + i] = g[i]
  BY <1>6, CatIs
<1>8. ASSUME NEW i \in 1..Len(w), i <= Len(ctx) + Len(g) PROVE w[i] = v[i]
  <2>1. CASE i <= Len(ctx)
    <3>1. i \in 1..Len(ctx)
      BY <1>1, <1>5, <2>1
    <3> QED
      BY <1>5, <1>7, <3>1
  <2>2. CASE ~(i <= Len(ctx))
    <3>1. PICK j : j = i - Len(ctx)
      OBVIOUS
    <3>2. i = Len(ctx) + j /\ j \in 1..Len(h) /\ j \in 1..Len(g)
      BY <1>1, <1>5, <1>8, <2>2, <3>1
    <3>3. g # <<>>
      BY <3>2, EmptySeq
    <3>4. h[j] = g[j]
      <4>1. Pre(g, k) = h /\ Len(Pre(g, k)) = k /\ \A m \in 1..k : Pre(g, k)[m] = g[m]
        BY <3>3, PreIs
      <4> QED
        BY <3>2, <4>1
    <3> QED
      BY <1>5, <1>7, <3>2, <3>4
  <2> QED
    BY <2>1, <2>2
<1> QED
  BY <1>3, <1>4, <1>6, <1>8 DEF Trails

\* A function on 1..n is a sequence of length n.
LEMMA TupleIs == ASSUME NEW S, NEW n \in Nat, NEW g \in [1..n -> S] PROVE g \in Seq(S) /\ Len(g) = n
<1>1. g \in Seq(S)
  BY SeqDef
<1>2. Len(g) \in Nat /\ DOMAIN g = 1..Len(g) /\ DOMAIN g = 1..n
  <2>1. Len(g) \in Nat /\ DOMAIN g = 1..Len(g)
    BY <1>1, LenProperties
  <2> QED
    BY <2>1
<1>3. PICK m \in Nat : m = Len(g)
  BY <1>2
<1>4. 1..m = 1..n
  BY <1>2, <1>3
<1>5. m = n
  <2>1. \A i : i \in 1..m <=> i \in 1..n
    BY <1>4
  <2>2. m + 1 \notin 1..n /\ n + 1 \notin 1..m
    BY <2>1
  <2> QED
    BY <1>3, <2>2
<1> QED
  BY <1>1, <1>3, <1>5

\* A set of naturals up to m that is not empty has a greatest one.
LEMMA Greatest ==
  ASSUME NEW m \in Nat, NEW T, T \subseteq 0..m, T # {}
  PROVE  \E x \in T : \A y \in T : y <= x
<1>1. PICK M : M = {m - x : x \in T}
  OBVIOUS
<1>2. M \subseteq Nat /\ M # {}
  <2>1. \A x \in T : m - x \in Nat /\ m - x \in M
    BY <1>1
  <2> QED
    BY <1>1, <2>1
<1>3. PICK z \in M : \A y \in M : z <= y
  BY <1>2, HasLeast
<1>4. PICK x \in T : z = m - x
  BY <1>1
<1>5. ASSUME NEW y \in T PROVE y <= x
  <2>1. m - y \in M
    BY <1>1
  <2>2. m - x <= m - y
    BY <1>3, <1>4, <2>1
  <2>3. x \in 0..m /\ y \in 0..m
    OBVIOUS
  <2> QED
    BY <2>2, <2>3
<1> QED
  BY <1>5

\* draft_from_context guesses at most n tokens, and its slice is within the context.
LEMMA EchoIs ==
  ASSUME NEW ctx \in Seq(Token), NEW n \in Nat
  PROVE  Echo(ctx, n) \in Seq(Token) /\ Len(Echo(ctx, n)) <= n
<1> DEFINE len == Len(ctx)
           matches == {i \in 0..(len - Ngram - 1) :
                          SubSeq(ctx, i + 1, i + Ngram) = SubSeq(ctx, len - Ngram + 1, len)}
           top == CHOOSE i \in matches : \A j \in matches : j <= i
<1>1. len \in Nat /\ Ngram \in Nat \ {0}
  BY LenProperties, DecodeAssumption
<1>2. CASE n = 0 \/ matches = {}
  <2>1. Echo(ctx, n) = <<>>
    BY <1>2 DEF Echo
  <2> QED
    BY <2>1, EmptySeq
<1>3. CASE ~(n = 0 \/ matches = {})
  <2>1. Echo(ctx, n) = SubSeq(ctx, (Ngram + top) + 1, (Ngram + top) + Least(n, len - (Ngram + top)))
    BY <1>3 DEF Echo
  <2>2. top \in 0..(len - Ngram - 1)
    <3>1. matches \subseteq 0..(len - Ngram - 1) /\ matches # {}
      BY <1>3
    <3>a. PICK z \in 0..(len - Ngram - 1) : TRUE
      BY <3>1
    <3>b. len - Ngram - 1 \in Nat
      BY <1>1, <3>a
    <3>2. PICK m \in Nat : m = len - Ngram - 1
      BY <3>b
    <3> HIDE DEF matches
    <3>3. \E i \in matches : \A j \in matches : j <= i
      BY <3>1, <3>2, Greatest
    <3>4. top \in matches
      BY <3>3
    <3> QED
      BY <3>1, <3>4
  <2> HIDE DEF top
  <2>3. PICK from \in 1..(len - 1) : from = Ngram + top
    BY <1>1, <2>2
  <2>4. PICK k \in 0..(len - from) : k = Least(n, len - from) /\ k <= n
    BY <1>1, <2>3 DEF Least
  <2>5. from \in Nat /\ k \in Nat /\ from + 1 \in Int /\ from + k \in Int /\ from + k <= len
    BY <1>1
  <2>6. \A i \in (from + 1)..(from + k) : ctx[i] \in Token
    <3>1. \A i \in (from + 1)..(from + k) : i \in 1..len
      BY <1>1, <2>5
    <3> QED
      BY <3>1, ElementOfSeq
  <2>7. PICK r : r = SubSeq(ctx, from + 1, from + k)
    OBVIOUS
  <2>8. r \in Seq(Token) /\ Len(r) = IF from + 1 <= from + k THEN (from + k) - (from + 1) + 1 ELSE 0
    BY <2>5, <2>6, <2>7, SubSeqProperties
  <2>9. Len(r) <= n
    BY <2>4, <2>5, <2>8
  <2>10. Echo(ctx, n) = r
    BY <2>1, <2>3, <2>4, <2>7
  <2> QED
    BY <2>8, <2>9, <2>10
<1> QED
  BY <1>2, <1>3

\* What propose_with_model returns.
LEMMA ProposalsAre ==
  ASSUME NEW s \in Session, context[s] \in Seq(Token), DraftOK(draft[s], context[s]),
         NEW n \in Nat, NEW p \in Proposals(s, n)
  PROVE  p.guess \in Seq(Token) /\ Len(p.guess) <= n /\ GuessOK(p.cache, context[s], p.guess)
<1> DEFINE base == Len(context[s])
           old == IF draft[s] = None THEN Fresh ELSE draft[s]
           After(g) == Fed(old, context[s] \o g)
           fit == DraftContext - base
           all == {[guess |-> g, cache |-> IF n = 0 THEN old ELSE After(Front(g))] :
                      g \in [1..n -> Token]}
           some == {[guess |-> g, cache |-> After(g)] : g \in Seqs(Token, Least(n - 1, fit))}
           none == {[guess |-> <<>>, cache |-> IF fit < 0 THEN old ELSE After(g)] :
                      g \in [1..fit -> Token]}
<1>1. p \in all \/ p \in some \/ p \in none
  BY DEF Proposals
<1>2. base \in Nat /\ DraftContext \in Nat /\ fit \in Int
  BY LenProperties, DecodeAssumption
<1>3. PICK o \in Cache, k \in 0..base : o = old /\ Holds(o, Pre(context[s], k))
  <2>1. CASE draft[s] = None
    <3>1. old = Fresh
      BY <2>1
    <3>2. Pre(context[s], 0) = <<>> /\ 0 \in 0..base
      BY <1>2, PreNone
    <3> QED
      BY <3>1, <3>2, FreshHolds
  <2>2. CASE draft[s] # None
    <3>1. PICK k \in 0..(base - 1) : Holds(draft[s], Pre(context[s], k))
      BY <2>2 DEF DraftOK
    <3>2. k \in 0..base
      BY <1>2
    <3> QED
      BY <2>2, <3>1, <3>2 DEF DraftOK
  <2> QED
    BY <2>1, <2>2
<1>4. ASSUME NEW g \in Seq(Token) PROVE Trails(o, context[s], g)
  BY <1>3, OldTrails
<1>5. CASE p \in all
  <2>1. PICK g \in [1..n -> Token] : p = [guess |-> g, cache |-> IF n = 0 THEN old ELSE After(Front(g))]
    BY <1>5
  <2>2. g \in Seq(Token) /\ Len(g) = n
    BY TupleIs
  <2>3. CASE n = 0
    <3>1. p.guess = g /\ p.cache = o
      BY <1>3, <2>1, <2>3
    <3>2. Trails(o, context[s], g)
      BY <1>4, <2>2
    <3> QED
      BY <2>2, <3>1, <3>2 DEF GuessOK
  <2>4. CASE n # 0
    <3>1. g # <<>>
      BY <2>2, <2>4, EmptySeq
    <3>2. PICK h \in Seq(Token) : h = Front(g) /\ h = Pre(g, n - 1) /\ Len(h) = n - 1 /\ n - 1 \in 0..Len(g)
      BY <2>2, <3>1, FrontIs
    <3>3. n - 1 <= Len(h)
      BY <3>2
    <3>4. Fed(o, context[s] \o h) \in Cache /\ Trails(Fed(o, context[s] \o h), context[s], g)
      BY <1>3, <2>2, <3>2, <3>3, NewTrails
    <3>5. p.guess = g /\ p.cache = Fed(o, context[s] \o h)
      BY <1>3, <2>1, <2>4, <3>2
    <3> QED
      BY <2>2, <3>4, <3>5 DEF GuessOK
  <2> QED
    BY <2>3, <2>4
<1>6. CASE p \in some
  <2>1. PICK g \in Seqs(Token, Least(n - 1, fit)) : p = [guess |-> g, cache |-> After(g)]
    BY <1>6
  <2>2. PICK m \in 0..Least(n - 1, fit) : g \in [1..m -> Token]
    BY <2>1 DEF Seqs
  <2>3. m \in Nat /\ m <= n
    BY <1>2, <2>2 DEF Least
  <2>4. g \in Seq(Token) /\ Len(g) = m
    BY <2>2, <2>3, TupleIs
  <2>5. Pre(g, m) = g /\ m \in 0..Len(g) /\ m <= Len(g)
    BY <2>3, <2>4, PreFull
  <2>6. Fed(o, context[s] \o g) \in Cache /\ Trails(Fed(o, context[s] \o g), context[s], g)
    BY <1>3, <2>4, <2>5, NewTrails
  <2>7. p.guess = g /\ p.cache = Fed(o, context[s] \o g)
    BY <1>3, <2>1
  <2> QED
    BY <2>3, <2>4, <2>6, <2>7 DEF GuessOK
<1>7. CASE p \in none
  <2>1. PICK g \in [1..fit -> Token] : p = [guess |-> <<>>, cache |-> IF fit < 0 THEN old ELSE After(g)]
    BY <1>7
  <2>2. <<>> \in Seq(Token) /\ Len(<<>>) = 0
    BY EmptySeq
  <2>3. CASE fit < 0
    <3>1. p.guess = <<>> /\ p.cache = o
      BY <1>3, <2>1, <2>3
    <3> QED
      <4>1. Trails(o, context[s], <<>>)
        BY <1>4, <2>2
      <4> QED
        BY <2>2, <3>1, <4>1 DEF GuessOK
  <2>4. CASE ~(fit < 0)
    <3>a. fit \in Nat
      <4> HIDE DEF fit
      <4> QED
        BY <1>2, <2>4
    <3>1. PICK m \in Nat : m = fit
      BY <3>a
    <3>2. g \in Seq(Token) /\ Len(g) \in Nat
      BY <3>1, TupleIs
    <3>3. 0 \in 0..Len(<<>>) /\ 0 <= Len(g)
      BY <2>2, <3>2
    <3>4. Fed(o, context[s] \o g) \in Cache /\ Trails(Fed(o, context[s] \o g), context[s], <<>>)
      BY <1>3, <2>2, <3>2, <3>3, NewTrails
    <3>5. p.guess = <<>> /\ p.cache = Fed(o, context[s] \o g)
      BY <1>3, <2>1, <2>4
    <3> QED
      BY <2>2, <3>4, <3>5 DEF GuessOK
  <2> QED
    BY <2>3, <2>4
<1> QED
  BY <1>1, <1>5, <1>6, <1>7

\* Whoever guesses, the draft or the context: the guesses are few enough, and the
\* draft's cache does not contradict them.
LEMMA GuessesAre ==
  ASSUME NEW s \in Session, context[s] \in Seq(Token), DraftOK(draft[s], context[s]),
         NEW n \in Nat, NEW budget, NEW p \in Guesses(s, n, budget)
  PROVE  p.guess \in Seq(Token) /\ Len(p.guess) <= n /\ GuessOK(p.cache, context[s], p.guess)
<1>1. CASE drafter # "none" /\ budget > 0
  <2>1. p \in Proposals(s, n)
    BY <1>1 DEF Guesses
  <2> QED
    BY <2>1, ProposalsAre
<1>2. CASE ~(drafter # "none" /\ budget > 0)
  <2>1. p.guess = Echo(context[s], n) /\ p.cache = draft[s]
    BY <1>2 DEF Guesses
  <2>2. p.guess \in Seq(Token) /\ Len(p.guess) <= n
    BY <2>1, EchoIs
  <2>3. draft[s] # None => Trails(draft[s], context[s], p.guess)
    <3> SUFFICES ASSUME draft[s] # None PROVE Trails(draft[s], context[s], p.guess)
      OBVIOUS
    <3>1. PICK k \in 0..(Len(context[s]) - 1) : Holds(draft[s], Pre(context[s], k))
      BY DEF DraftOK
    <3>2. k \in 0..Len(context[s]) /\ draft[s] \in Cache
      BY LenProperties DEF DraftOK
    <3> QED
      BY <2>2, <3>1, <3>2, OldTrails
  <2> QED
    BY <2>1, <2>2, <2>3 DEF GuessOK, DraftOK
<1> QED
  BY <1>1, <1>2

-----------------------------------------------------------------------------
(* The round of a session alone.                                           *)

\* Where the verification of guesses stops (next_tokens_speculative): every answer before
\* the last is a guess that came true and ends nothing.
LEMMA LastIs ==
  ASSUME NEW s \in Session, NEW guess \in Seq(Token),
         NEW toks \in [1..(Len(guess) + 1) -> Token], NEW kept \in Keeps(s, guess, toks)
  PROVE  /\ LastOf(s, toks, kept) \in 1..(Len(guess) + 1)
         /\ \A i \in 1..(LastOf(s, toks, kept) - 1) :
               toks[i] \notin EndTokens /\ kept[i] /\ i \in 1..Len(guess) /\ toks[i] = guess[i]
         /\ LET last == LastOf(s, toks, kept)
            IN  toks[last] \notin EndTokens /\ kept[last] => Generated(s) + last >= MaxTokens
<1> DEFINE stops == {i \in DOMAIN toks : toks[i] \in EndTokens \/ ~kept[i]
                                            \/ Generated(s) + i >= MaxTokens}
           last == CHOOSE i \in stops : \A j \in stops : i <= j
<1>1. Len(guess) \in Nat /\ DOMAIN toks = 1..(Len(guess) + 1)
  BY LenProperties
<1>2. ASSUME NEW i \in 1..(Len(guess) + 1), kept[i]
      PROVE  i \in 1..Len(guess) /\ toks[i] = guess[i]
  <2>1. i <= Len(guess) /\ toks[i] = guess[i]
    <3>1. LET agrees == i <= Len(guess) /\ toks[i] = guess[i]
          IN  IF s \in Greedy THEN kept[i] = agrees ELSE kept[i] => agrees
      BY <1>1 DEF Keeps
    <3> QED
      BY <1>2, <3>1
  <2> QED
    BY <1>1, <2>1
<1>3. Len(guess) + 1 \in stops
  <2>1. Len(guess) + 1 \in 1..(Len(guess) + 1) /\ Len(guess) + 1 \notin 1..Len(guess)
    BY <1>1
  <2>2. ~kept[Len(guess) + 1]
    BY <1>2, <2>1
  <2> QED
    BY <1>1, <2>1, <2>2
<1>4. stops \subseteq Nat /\ stops \subseteq 1..(Len(guess) + 1)
  BY <1>1
<1>5. LastOf(s, toks, kept) = last
  BY DEF LastOf
<1>6. \A i : i \in stops => i \in DOMAIN toks /\ (toks[i] \in EndTokens \/ ~kept[i]
                                            \/ Generated(s) + i >= MaxTokens)
  OBVIOUS
<1>7. \A i \in 1..(Len(guess) + 1) : i \notin stops => toks[i] \notin EndTokens /\ kept[i]
  BY <1>1
<1> HIDE DEF stops
<1>8. last \in stops /\ \A j \in stops : last <= j
  <2>1. \E i \in stops : \A j \in stops : i <= j
    BY <1>3, <1>4, HasLeast
  <2> QED
    BY <2>1
<1> HIDE DEF last
<1>9. last \in 1..(Len(guess) + 1)
  BY <1>4, <1>8
<1>10. ASSUME NEW i \in 1..(last - 1)
       PROVE  toks[i] \notin EndTokens /\ kept[i] /\ i \in 1..Len(guess) /\ toks[i] = guess[i]
  <2>1. i \in 1..(Len(guess) + 1) /\ ~(last <= i)
    BY <1>1, <1>9
  <2>2. i \notin stops
    BY <1>8, <2>1
  <2>3. toks[i] \notin EndTokens /\ kept[i]
    BY <1>7, <2>1, <2>2
  <2> QED
    BY <1>2, <2>1, <2>3
<1>11. toks[last] \notin EndTokens /\ kept[last] => Generated(s) + last >= MaxTokens
  BY <1>6, <1>8
<1> QED
  BY <1>5, <1>9, <1>10, <1>11

\* The context after a round agrees with context and guesses up to its last token.
LEMMA Pushes ==
  ASSUME NEW ctx \in Seq(Token), NEW guess \in Seq(Token), NEW pushed \in Seq(Token),
         Len(pushed) <= Len(guess) + 1,
         \A i \in 1..(Len(pushed) - 1) : pushed[i] = guess[i],
         NEW n \in 0..(Len(ctx) + Len(pushed)), n <= Len(ctx) \/ n < Len(ctx) + Len(pushed)
  PROVE  Pre(ctx \o pushed, n) = Pre(ctx \o guess, n)
<1>1. Len(ctx) \in Nat /\ Len(guess) \in Nat /\ Len(pushed) \in Nat
  BY LenProperties
<1>2. PICK p : p = ctx \o pushed
  OBVIOUS
<1>3. PICK g : g = ctx \o guess
  OBVIOUS
<1>4. /\ p \in Seq(Token) /\ Len(p) = Len(ctx) + Len(pushed)
      /\ \A i \in 1..Len(ctx) : p[i] = ctx[i]
      /\ \A i \in 1..Len(pushed) : p[Len(ctx) + i] = pushed[i]
  BY <1>2, CatIs
<1>5. /\ g \in Seq(Token) /\ Len(g) = Len(ctx) + Len(guess)
      /\ \A i \in 1..Len(ctx) : g[i] = ctx[i]
      /\ \A i \in 1..Len(guess) : g[Len(ctx) + i] = guess[i]
  BY <1>3, CatIs
<1>6. n \in 0..Len(p) /\ n <= Len(g)
  BY <1>1, <1>4, <1>5
<1>7. ASSUME NEW i \in 1..n PROVE p[i] = g[i]
  <2>1. CASE i <= Len(ctx)
    <3>1. i \in 1..Len(ctx)
      BY <1>1, <2>1
    <3> QED
      BY <1>4, <1>5, <3>1
  <2>2. CASE ~(i <= Len(ctx))
    <3>1. PICK j : j = i - Len(ctx)
      OBVIOUS
    <3>2. /\ i = Len(ctx) + j /\ j \in 1..Len(pushed) /\ j \in 1..Len(guess)
          /\ j \in 1..(Len(pushed) - 1)
      BY <1>1, <2>2, <3>1
    <3> QED
      BY <1>4, <1>5, <3>2
  <2> QED
    BY <2>1, <2>2
<1>8. Pre(p, n) = Pre(g, n)
  <2>1. p \in Seq(Token) /\ g \in Seq(Token)
    BY <1>4, <1>5
  <2> QED
    BY <1>6, <1>7, <2>1, PreSame
<1> QED
  BY <1>2, <1>3, <1>8

\* What the rollback leaves of the draft's cache (Session::draft_seq).
LEMMA DraftCut ==
  ASSUME NEW ctx \in Seq(Token), NEW guess \in Seq(Token), NEW d, GuessOK(d, ctx, guess),
         NEW new \in Seq(Token), NEW keep \in 0..(Len(new) - 1), keep <= Len(ctx) + Len(guess),
         Pre(new, keep) = Pre(ctx \o guess, keep)
  PROVE  DraftOK(CutDraft(d, keep), new)
<1>1. CASE CutDraft(d, keep) = None
  BY <1>1 DEF DraftOK
<1>2. CASE CutDraft(d, keep) # None
  <2>1. d # None /\ d \in Cache /\ CutDraft(d, keep) = Cut(d, keep)
    BY <1>2 DEF CutDraft, GuessOK
  <2>2. PICK w \in Seq(Token) :
           Holds(d, w) /\ \A i \in 1..Len(w) : i <= Len(ctx) + Len(guess) => w[i] = (ctx \o guess)[i]
    BY <2>1 DEF GuessOK, Trails
  <2>3. /\ Len(w) \in Nat /\ Len(ctx) \in Nat /\ Len(guess) \in Nat /\ Len(new) \in Nat
        /\ keep \in Nat /\ keep \in 0..Len(new)
    <3>1. Len(w) \in Nat /\ Len(ctx) \in Nat /\ Len(guess) \in Nat /\ Len(new) \in Nat
      BY LenProperties
    <3> QED
      BY <3>1
  <2>4. PICK n : n = Least(keep, Len(w))
    OBVIOUS
  <2>5. n \in 0..keep /\ n \in 0..Len(w) /\ n \in 0..(Len(new) - 1) /\ n <= Len(ctx) + Len(guess)
    BY <2>3, <2>4 DEF Least
  <2>6. Cut(d, keep) \in Cache /\ Holds(Cut(d, keep), Pre(w, n))
    BY <2>1, <2>2, <2>3, <2>4, CutHolds
  <2>7. PICK g : g = ctx \o guess
    OBVIOUS
  <2>8. g \in Seq(Token) /\ Len(g) = Len(ctx) + Len(guess)
    BY <2>7, CatIs
  <2>9. n <= Len(g) /\ keep \in 0..Len(g)
    BY <2>3, <2>5, <2>8
  <2>10. \A i \in 1..n : w[i] = g[i]
    <3>1. \A i \in 1..n : i \in 1..Len(w) /\ i <= Len(ctx) + Len(guess)
      BY <2>3, <2>5
    <3> QED
      BY <2>2, <2>7, <3>1
  <2>11. Pre(w, n) = Pre(g, n)
    <3>1. n \in 0..Len(w)
      BY <2>5
    <3> QED
      BY <2>8, <2>9, <2>10, <3>1, PreSame
  <2>12. Pre(Pre(g, keep), n) = Pre(g, n) /\ Pre(Pre(new, keep), n) = Pre(new, n)
    <3>1. n \in 0..keep
      BY <2>5
    <3> QED
      BY <2>3, <2>8, <2>9, <3>1, PrePre
  <2>13. Pre(w, n) = Pre(new, n)
    BY <2>7, <2>11, <2>12
  <2> QED
    BY <2>1, <2>5, <2>6, <2>13 DEF DraftOK
<1> QED
  BY <1>1, <1>2

-----------------------------------------------------------------------------
(* The invariant.                                                          *)

\* No token of q is an end token.
NoEnd(q) == \A i \in DOMAIN q : q[i] \notin EndTokens

\* What holds of one session, by its status.
Sound(st, ctx, pl, c, d, o, r) ==
  /\ pl <= Len(ctx) /\ Len(ctx) <= MaxContext /\ Len(ctx) - pl <= MaxTokens
  /\ st = "new" => ctx = <<>> /\ pl = 0 /\ d = None /\ o = <<>> /\ r = "none"
  /\ st = "prefill" =>
        /\ pl = Len(ctx) /\ pl > 0 /\ d = None /\ o = <<>> /\ r = "none"
        /\ \E n \in 0..(Len(ctx) - 1) : Holds(c, Pre(ctx, n))
  /\ st = "decode" =>
        /\ pl > 0 /\ Holds(c, Front(ctx)) /\ DraftOK(d, ctx) /\ r = "none"
        /\ o = From(ctx, pl) /\ NoEnd(o)
  /\ st = "done" =>
        /\ o = HandedOf(From(ctx, pl)) /\ NoEnd(o) /\ r # "none"
        /\ r = "eos" => o # From(ctx, pl)

SessionOK(s) ==
  Sound(status[s], context[s], promptLen[s], kv[s], draft[s], out[s], reason[s])

\* The types of what is kept for each session.
Types ==
  /\ status \in [Session -> {"new", "prefill", "decode", "done", "failed"}]
  /\ context \in [Session -> Seq(Token)]
  /\ promptLen \in [Session -> 0..MaxContext]
  /\ kv \in [Session -> Cache]
  /\ draft \in [Session -> Cache \cup {None}]
  /\ reuse \in [Session -> BOOLEAN]
  /\ out \in [Session -> Seq(Token)]
  /\ reason \in [Session -> {"none", "eos", "length", "full"}]
  /\ drafter \in {"none", "attention", "recurrent"}

\* The inductive invariant.
Inv == Types /\ StoreOK /\ \A s \in Session : SessionOK(s)

-----------------------------------------------------------------------------
(* What a round does to a session.                                         *)

\* What a round may give s: the tokens pushed, and the reason it ends, if it does.
Outcome(s, pushed, end) ==
  /\ pushed \in Seq(Token) /\ Len(pushed) <= Lookahead + 1
  /\ Len(context[s]) + Len(pushed) <= MaxContext
  /\ Generated(s) + Len(pushed) <= MaxTokens
  /\ \A i \in 1..(Len(pushed) - 1) : pushed[i] \notin EndTokens
  /\ s \in Greedy => \A i \in 1..Len(pushed) :
        pushed[i] = Choice(Pre(context[s] \o pushed, Len(context[s]) + i - 1))
  /\ end \in {"none", "eos", "length", "full"}
  /\ end = "none" => pushed # <<>> /\ pushed[Len(pushed)] \notin EndTokens
  /\ end = "eos" => pushed # <<>> /\ pushed[Len(pushed)] \in EndTokens
  /\ end = "length" => /\ Generated(s) + Len(pushed) = MaxTokens
                       /\ pushed = <<>> \/ pushed[Len(pushed)] \notin EndTokens
  /\ end = "full" /\ s \notin Flaky /\ Active = {s} =>
        pushed = <<>> /\ Len(context[s]) = MaxContext

\* The session's variables after a round with that outcome.
Settled(s, pushed, end) ==
  /\ context'[s] = context[s] \o pushed
  /\ out'[s] = out[s] \o HandedOf(pushed)
  /\ reason'[s] = end
  /\ status'[s] = IF end = "none" THEN "decode" ELSE "done"
  /\ kv'[s] \in Cache /\ draft'[s] \in Cache \cup {None}
  /\ end = "none" => Holds(kv'[s], Front(context'[s])) /\ DraftOK(draft'[s], context'[s])

\* Nothing of s changes.
Same(s) ==
  /\ status'[s] = status[s] /\ context'[s] = context[s] /\ kv'[s] = kv[s]
  /\ draft'[s] = draft[s] /\ out'[s] = out[s] /\ reason'[s] = reason[s]

\* The variables stay functions of the sessions.
Shapes ==
  /\ status' = [s \in Session |-> status'[s]] /\ context' = [s \in Session |-> context'[s]]
  /\ kv' = [s \in Session |-> kv'[s]] /\ draft' = [s \in Session |-> draft'[s]]
  /\ out' = [s \in Session |-> out'[s]] /\ reason' = [s \in Session |-> reason'[s]]

\* Each active session has an outcome, and nothing else changes.
Round ==
  /\ Shapes
  /\ \A s \in Active : \E pushed, end : Outcome(s, pushed, end) /\ Settled(s, pushed, end)
  /\ \A s \in Session \ Active : Same(s)
  /\ UNCHANGED <<promptLen, reuse, store, drafter>>

\* What is known of an active session.
LEMMA ActiveIs ==
  ASSUME Inv, NEW s \in Active
  PROVE  /\ s \in Session /\ status[s] = "decode" /\ context[s] \in Seq(Token)
         /\ promptLen[s] \in 1..Len(context[s]) /\ Len(context[s]) \in Nat \ {0}
         /\ Len(context[s]) <= MaxContext /\ Generated(s) \in 0..MaxTokens
         /\ kv[s] \in Cache /\ DraftOK(draft[s], context[s])
         /\ Holds(kv[s], Pre(context[s], Len(context[s]) - 1))
         /\ context[s] # <<>> /\ out[s] \in Seq(Token)
<1>1. s \in Session /\ status[s] = "decode"
  BY DEF Active
<1>2. context[s] \in Seq(Token) /\ promptLen[s] \in 0..MaxContext /\ kv[s] \in Cache /\ out[s] \in Seq(Token)
  BY <1>1 DEF Inv, Types
<1>3. Sound(status[s], context[s], promptLen[s], kv[s], draft[s], out[s], reason[s])
  BY <1>1 DEF Inv, SessionOK
<1>4. /\ promptLen[s] <= Len(context[s]) /\ Len(context[s]) <= MaxContext
      /\ Len(context[s]) - promptLen[s] <= MaxTokens
      /\ promptLen[s] > 0 /\ Holds(kv[s], Front(context[s])) /\ DraftOK(draft[s], context[s])
  BY <1>1, <1>3 DEF Sound
<1>5. Len(context[s]) \in Nat /\ MaxContext \in Nat /\ MaxTokens \in Nat
  BY <1>2, LenProperties, DecodeAssumption
<1>6. promptLen[s] \in 1..Len(context[s]) /\ Len(context[s]) \in Nat \ {0}
      /\ Generated(s) \in 0..MaxTokens
  BY <1>2, <1>4, <1>5 DEF Generated
<1>7. context[s] # <<>>
  BY <1>6, EmptySeq
<1>8. Front(context[s]) = Pre(context[s], Len(context[s]) - 1)
  BY <1>2, <1>7, FrontIs
<1> QED
  BY <1>1, <1>2, <1>4, <1>6, <1>7, <1>8

\* The end of a round (Conclude) settles its session and touches no other.
LEMMA ConcludeIs ==
  ASSUME Inv, NEW s \in Active, NEW pushed \in Seq(Token),
         NEW why \in {"none", "eos", "length", "full"},
         NEW target, NEW copies, NEW guesser, Conclude(s, pushed, why, target, copies, guesser),
         NEW keep, keep = KeepTarget(Len(context[s]) + Len(pushed)),
         NEW end, end = IF Recoverable(target, copies, keep) THEN why ELSE "full",
         end = "none" =>
            /\ Rewound(target, copies, keep) \in Cache
            /\ Holds(Rewound(target, copies, keep), Front(context[s] \o pushed))
            /\ DraftOK(CutDraft(guesser, KeepDraft(Len(context[s]), Len(HandedOf(pushed)))),
                       context[s] \o pushed)
  PROVE  /\ Settled(s, pushed, end) /\ Shapes /\ \A r \in Session \ {s} : Same(r)
         /\ UNCHANGED <<promptLen, reuse, store, drafter>>
<1> PICK d : d = CutDraft(guesser, KeepDraft(Len(context[s]), Len(HandedOf(pushed))))
  OBVIOUS
<1>1. s \in Session /\ status[s] = "decode"
  BY DEF Active
<1>2. /\ context' = [context EXCEPT ![s] = context[s] \o pushed]
      /\ out' = [out EXCEPT ![s] = out[s] \o HandedOf(pushed)]
      /\ reason' = [reason EXCEPT ![s] = end]
      /\ status' = [status EXCEPT ![s] = IF end # "none" THEN "done" ELSE status[s]]
      /\ kv' = [kv EXCEPT ![s] = IF end # "none" THEN Fresh ELSE Rewound(target, copies, keep)]
      /\ draft' = [draft EXCEPT ![s] = IF end # "none" THEN None ELSE d]
      /\ UNCHANGED <<promptLen, reuse, store, drafter>>
  BY DEF Conclude
<1>3. /\ DOMAIN context = Session /\ DOMAIN out = Session /\ DOMAIN reason = Session
      /\ DOMAIN status = Session /\ DOMAIN kv = Session /\ DOMAIN draft = Session
  BY DEF Inv, Types
<1>4. /\ context'[s] = context[s] \o pushed /\ out'[s] = out[s] \o HandedOf(pushed)
      /\ reason'[s] = end /\ status'[s] = IF end = "none" THEN "decode" ELSE "done"
      /\ kv'[s] = IF end # "none" THEN Fresh ELSE Rewound(target, copies, keep)
      /\ draft'[s] = IF end # "none" THEN None ELSE d
  BY <1>1, <1>2, <1>3
<1>5. Settled(s, pushed, end)
  <2>1. CASE end = "none"
    <3>1. DraftOK(d, context[s] \o pushed) /\ d \in Cache \cup {None}
      BY <2>1 DEF DraftOK
    <3> QED
      BY <1>4, <2>1, <3>1 DEF Settled
  <2>2. CASE end # "none"
    BY <1>4, <2>2, FreshHolds DEF Settled
  <2> QED
    BY <2>1, <2>2
<1>6. Shapes
  BY <1>2, <1>3 DEF Shapes
<1>7. \A r \in Session \ {s} : Same(r)
  BY <1>2, <1>3 DEF Same
<1> QED
  BY <1>2, <1>5, <1>6, <1>7

\* The answers of a pass over context and guesses.
Answered(s, target, guess, toks) ==
  \A i \in DOMAIN toks : toks[i] \in Answers(s, target, context[s] \o guess,
                                               Len(context[s]) + i - 1)

\* What the first n answers of a verification are.
Given(s, guess, toks, n, pushed) ==
  /\ pushed \in Seq(Token) /\ Len(pushed) = n /\ n <= Len(guess) + 1
  /\ \A i \in 1..n : pushed[i] = toks[i]
  /\ \A i \in 1..(n - 1) : pushed[i] = guess[i] /\ pushed[i] \notin EndTokens
  /\ s \in Greedy => \A i \in 1..n :
        pushed[i] = Choice(Pre(context[s] \o pushed, Len(context[s]) + i - 1))

\* The facts of a verification that are about its tokens alone.
LEMMA PushedIs ==
  ASSUME Inv, NEW s \in Active, NEW guess \in Seq(Token),
         Len(guess) <= Lookahead, Generated(s) + Len(guess) + 1 <= MaxTokens,
         Len(context[s]) + Len(guess) + 1 <= MaxContext,
         NEW target, target = Fed(kv[s], context[s] \o guess),
         NEW toks \in [1..(Len(guess) + 1) -> Token],
         Answered(s, target, guess, toks),
         NEW kept \in Keeps(s, guess, toks), NEW n \in 0..LastOf(s, toks, kept),
         NEW pushed, pushed = SubSeq(toks, 1, n)
  PROVE  Given(s, guess, toks, n, pushed)
<1> DEFINE base == Len(context[s])
           last == LastOf(s, toks, kept)
<1>1. /\ s \in Session /\ context[s] \in Seq(Token) /\ base \in Nat \ {0} /\ kv[s] \in Cache
      /\ Holds(kv[s], Pre(context[s], base - 1))
  BY ActiveIs
<1>2. Len(guess) \in Nat /\ toks \in Seq(Token) /\ Len(toks) = Len(guess) + 1
      /\ DOMAIN toks = 1..(Len(guess) + 1)
  <2>1. Len(guess) \in Nat
    BY LenProperties
  <2>2. Len(guess) + 1 \in Nat
    BY <2>1
  <2> QED
    BY <2>1, <2>2, TupleIs
<1>3. /\ last \in 1..(Len(guess) + 1)
      /\ \A i \in 1..(last - 1) : toks[i] \notin EndTokens /\ kept[i] /\ toks[i] = guess[i]
  <2>1. s \in Session
    BY <1>1
  <2> QED
    BY ONLY <2>1, LastIs
<1> HIDE DEF last
<1>4. n \in 0..Len(toks) /\ n <= Len(guess) + 1 /\ n \in Nat
  BY <1>2, <1>3 DEF last
<1>5. pushed \in Seq(Token) /\ Len(pushed) = n /\ \A i \in 1..n : pushed[i] = toks[i]
  BY <1>2, <1>4, PreIs DEF Pre
<1>6. \A i \in 1..(n - 1) : pushed[i] = guess[i] /\ pushed[i] \notin EndTokens
  <2>1. \A i \in 1..(n - 1) : i \in 1..n /\ i \in 1..(last - 1)
    BY <1>3, <1>4 DEF last
  <2> QED
    BY <1>3, <1>5, <2>1
<1>7. ASSUME s \in Greedy, NEW i \in 1..n
      PROVE  pushed[i] = Choice(Pre(context[s] \o pushed, base + i - 1))
  <2>1. PICK g : g = context[s] \o guess
    OBVIOUS
  <2>2. g \in Seq(Token) /\ Len(g) = base + Len(guess) /\ Pre(g, base - 1) = Pre(context[s], base - 1)
        /\ base - 1 \in 0..Len(g)
    <3>1. base - 1 \in 0..base
      BY <1>1
    <3>2. g \in Seq(Token) /\ Len(g) = base + Len(guess)
      BY <1>1, <2>1, CatIs
    <3>3. Pre(g, base - 1) = Pre(context[s], base - 1)
      BY <1>1, <2>1, <3>1, PreCat
    <3> QED
      BY <1>1, <1>2, <3>2, <3>3
  <2>3. Holds(target, g)
    <3>1. Holds(kv[s], Pre(g, base - 1))
      BY <1>1, <2>2
    <3> QED
      BY <1>1, <2>1, <2>2, <3>1, FedHolds
  <2>4. i \in DOMAIN toks
    BY <1>2, <1>4
  <2>5. toks[i] \in Answers(s, target, g, base + i - 1)
    BY <2>1, <2>4 DEF Answered
  <2>6. toks[i] = Choice(SubSeq(g, 1, base + i - 1))
    BY <1>7, <2>3, <2>5 DEF Answers
  <2>7. Pre(context[s] \o pushed, base + i - 1) = Pre(g, base + i - 1)
    <3>1. base \in Nat /\ Len(pushed) = n /\ n \in Nat
      BY <1>1, <1>4, <1>5
    <3>2. /\ base + i - 1 \in 0..(base + Len(pushed))
          /\ base + i - 1 <= base \/ base + i - 1 < base + Len(pushed)
      <4> HIDE DEF base
      <4> QED
        BY ONLY <3>1, i \in 1..n
    <3>3. Len(pushed) <= Len(guess) + 1 /\ \A j \in 1..(Len(pushed) - 1) : pushed[j] = guess[j]
      BY <1>4, <1>5, <1>6
    <3>4. context[s] \in Seq(Token) /\ pushed \in Seq(Token)
      BY <1>1, <1>5
    <3> QED
      BY ONLY <2>1, <3>2, <3>3, <3>4, Pushes
  <2>8. pushed[i] = toks[i]
    BY <1>5
  <2> QED
    BY <2>6, <2>7, <2>8 DEF Pre
<1> QED
  BY <1>4, <1>5, <1>6, <1>7 DEF Given

\* What is left in both caches when a round ends nothing.
LEMMA CachesAfter ==
  ASSUME NEW ctx \in Seq(Token), ctx # <<>>, NEW c \in Cache, Holds(c, Pre(ctx, Len(ctx) - 1)),
         NEW guess \in Seq(Token), NEW pushed \in Seq(Token), pushed # <<>>,
         Len(pushed) <= Len(guess) + 1, \A i \in 1..(Len(pushed) - 1) : pushed[i] = guess[i],
         NEW target, target = Fed(c, ctx \o guess),
         NEW copies, copies = IF guess = <<>> THEN NoCopies ELSE Copies(c, ctx \o guess),
         NEW keep, keep = Len(ctx) + Len(pushed) - 1,
         NEW d, GuessOK(d, ctx, guess)
  PROVE  /\ Recoverable(target, copies, keep)
         /\ Rewound(target, copies, keep) \in Cache
         /\ Holds(Rewound(target, copies, keep), Front(ctx \o pushed))
         /\ DraftOK(CutDraft(d, keep), ctx \o pushed)
<1>1. /\ Len(ctx) \in Nat \ {0} /\ Len(guess) \in Nat /\ Len(pushed) \in Nat \ {0}
  BY LenProperties, EmptySeq
<1>2. PICK g : g = ctx \o guess
  OBVIOUS
<1>3. PICK new : new = ctx \o pushed
  OBVIOUS
<1>4. /\ g \in Seq(Token) /\ Len(g) = Len(ctx) + Len(guess)
      /\ new \in Seq(Token) /\ Len(new) = Len(ctx) + Len(pushed)
  BY <1>2, <1>3, CatIs
<1>5. /\ Len(ctx) \in 1..Len(g) /\ Len(ctx) - 1 \in 0..Len(ctx)
      /\ keep \in (Len(ctx) - 1)..Len(g) /\ keep \in 0..(Len(new) - 1) /\ keep <= Len(ctx) + Len(guess)
      /\ (Len(ctx) = Len(g)) = (Len(guess) = 0)
      /\ keep \in 0..(Len(ctx) + Len(pushed)) /\ keep < Len(ctx) + Len(pushed)
      /\ keep = Len(new) - 1
  BY <1>1, <1>4
<1>6. Len(guess) = 0 <=> guess = <<>>
  BY <1>1, EmptySeq
<1>7. Len(guess) = 0 => keep = Len(ctx)
  BY <1>1
<1>8. copies = IF Len(ctx) = Len(g) THEN NoCopies ELSE Copies(c, g)
  BY <1>2, <1>5, <1>6
<1>9. Pre(g, Len(ctx) - 1) = Pre(ctx, Len(ctx) - 1)
  BY <1>2, <1>5, PreCat
<1>10. Pre(new, keep) = Pre(g, keep)
  BY <1>2, <1>3, <1>5, Pushes
<1>11. new # <<>>
  BY <1>1, <1>4, EmptySeq
<1>12. Front(new) = Pre(g, keep)
  BY <1>4, <1>5, <1>10, <1>11, FrontIs
<1>13. /\ Recoverable(target, copies, keep) /\ Rewound(target, copies, keep) \in Cache
       /\ Holds(Rewound(target, copies, keep), Pre(g, keep))
  <2>1. Holds(c, Pre(g, Len(ctx) - 1)) /\ (Len(ctx) = Len(g) => keep = Len(ctx)) /\ target = Fed(c, g)
    BY <1>2, <1>5, <1>7, <1>9
  <2> QED
    BY <1>4, <1>5, <1>8, <2>1, GoesBack
<1>14. DraftOK(CutDraft(d, keep), new)
  BY <1>2, <1>4, <1>5, <1>10, DraftCut
<1> QED
  BY <1>3, <1>12, <1>13, <1>14

\* Saturating subtraction, and what is kept of the draft's cache.
LEMMA MinusIs ==
  ASSUME NEW a \in Nat, NEW b \in Nat, b < a
  PROVE  Minus(a, b) \in Nat \ {0} /\ Minus(a, b) + b = a
  BY DEF Minus

\* The positions that survive in the cache of the draft.
LEMMA KeepDraftIs ==
  ASSUME NEW b \in Nat, NEW h \in Nat \ {0}
  PROVE  KeepDraft(b, h) = b + h - 1
<1>1. Minus(h, 1) = h - 1
  BY DEF Minus
<1> QED
  BY <1>1 DEF KeepDraft

\* A sum stays below a bound when one of its parts shrinks.
LEMMA Fewer ==
  ASSUME NEW a \in Nat, NEW b \in Nat, NEW c \in Nat, NEW m \in Nat, a <= b, c + b + 1 <= m
  PROVE  c + a + 1 <= m
  OBVIOUS

OneRound(s) ==
  /\ \E pushed, end : Outcome(s, pushed, end) /\ Settled(s, pushed, end)
  /\ Shapes /\ \A r \in Session \ {s} : Same(r)
  /\ UNCHANGED <<promptLen, reuse, store, drafter>>

\* The verification of guesses, and the rollback, are a round of the session.
LEMMA VerifyIs ==
  ASSUME Inv, NEW s \in Active, NEW guess \in Seq(Token),
         Len(guess) <= Lookahead, Generated(s) + Len(guess) + 1 <= MaxTokens,
         Len(context[s]) + Len(guess) + 1 <= MaxContext,
         NEW guesser, GuessOK(guesser, context[s], guess), Verify(s, guess, guesser)
  PROVE  OneRound(s)
<1> DEFINE base == Len(context[s])
<1>1. PICK target : target = Fed(kv[s], context[s] \o guess)
  OBVIOUS
<1>2. PICK copies : copies = Recorded(s, guess)
  OBVIOUS
<1>3. /\ s \in Session /\ context[s] \in Seq(Token) /\ base \in Nat \ {0} /\ kv[s] \in Cache
      /\ Holds(kv[s], Pre(context[s], base - 1)) /\ context[s] # <<>> /\ Generated(s) \in Nat
  <2>1. Generated(s) \in 0..MaxTokens /\ MaxTokens \in Nat
    BY ActiveIs, DecodeAssumption
  <2> QED
    BY <2>1, ActiveIs
<1>4. Len(guess) \in Nat /\ Lookahead \in Nat /\ MaxTokens \in Nat /\ MaxContext \in Nat
  BY LenProperties, DecodeAssumption
\* Whoever fails on the way ends, with what it has so far.
<1>5. ASSUME s \in Flaky, NEW pushed \in Seq(Token), Len(pushed) <= Len(guess) + 1,
             \A i \in 1..(Len(pushed) - 1) : pushed[i] \notin EndTokens,
             s \in Greedy => \A i \in 1..Len(pushed) :
                pushed[i] = Choice(Pre(context[s] \o pushed, base + i - 1)),
             Conclude(s, pushed, "full", target, copies, guesser)
      PROVE  OneRound(s)
  <2>1. Len(pushed) \in Nat
    BY LenProperties
  <2>2. /\ Len(pushed) <= Lookahead + 1 /\ base + Len(pushed) <= MaxContext
        /\ Generated(s) + Len(pushed) <= MaxTokens
    BY <1>3, <1>4, <1>5, <2>1
  <2>3. Outcome(s, pushed, "full")
    BY <1>5, <2>2 DEF Outcome
  <2>4. PICK end : end = IF Recoverable(target, copies, KeepTarget(base + Len(pushed))) THEN "full" ELSE "full"
    OBVIOUS
  <2>5. end = "full"
    BY <2>4
  <2>6. /\ Settled(s, pushed, end) /\ Shapes /\ \A r \in Session \ {s} : Same(r)
        /\ UNCHANGED <<promptLen, reuse, store, drafter>>
    BY <1>5, <2>4, <2>5, ConcludeIs
  <2> QED
    BY <2>3, <2>5, <2>6 DEF OneRound
<1>6. CASE s \in Flaky /\ Conclude(s, <<>>, "full", target, copies, guesser)
  <2>1. <<>> \in Seq(Token) /\ Len(<<>>) = 0
    BY EmptySeq
  <2>2. Len(<<>>) <= Len(guess) + 1 /\ (\A i : i \notin 1..Len(<<>>)) /\ (\A i : i \notin 1..(Len(<<>>) - 1))
    BY <1>4, <2>1
  <2> QED
    BY <1>5, <1>6, <2>1, <2>2
<1>7. ASSUME NEW toks \in [1..(Len(guess) + 1) -> Token],
             Answered(s, target, guess, toks), NEW kept \in Keeps(s, guess, toks)
      PROVE  LET last == LastOf(s, toks, kept)
                 why == IF toks[last] \in EndTokens THEN "eos"
                        ELSE IF kept[last] THEN "length"
                        ELSE "none"
             IN  \/ Conclude(s, SubSeq(toks, 1, last), why, target, copies, guesser)
                 \/ /\ s \in Flaky
                    /\ \E n \in 0..last :
                          Conclude(s, SubSeq(toks, 1, n), "full", target, copies, guesser)
                 => OneRound(s)
  <2>1. PICK last : last = LastOf(s, toks, kept)
    OBVIOUS
  <2>2. /\ last \in 1..(Len(guess) + 1)
        /\ toks[last] \notin EndTokens /\ kept[last] => Generated(s) + last >= MaxTokens
    BY ONLY <1>3, <2>1, LastIs
  <2>3. last \in Nat \ {0}
    BY <1>4, <2>2
  <2>4. ASSUME NEW n \in 0..last, NEW pushed, pushed = SubSeq(toks, 1, n)
        PROVE  Given(s, guess, toks, n, pushed)
    BY <1>1, <1>7, <2>1, <2>4, PushedIs
  <2>5. CASE \E n \in 0..last : s \in Flaky /\ Conclude(s, SubSeq(toks, 1, n), "full", target, copies, guesser)
    <3>1. PICK n \in 0..last : s \in Flaky /\ Conclude(s, SubSeq(toks, 1, n), "full", target, copies, guesser)
      BY <2>5
    <3>2. PICK pushed : pushed = SubSeq(toks, 1, n)
      OBVIOUS
    <3> QED
      BY <1>5, <2>4, <3>1, <3>2 DEF Given
  <2>6. PICK why : why = IF toks[last] \in EndTokens THEN "eos"
                         ELSE IF kept[last] THEN "length" ELSE "none"
    OBVIOUS
  <2>7. CASE Conclude(s, SubSeq(toks, 1, last), why, target, copies, guesser)
    <3>1. PICK pushed : pushed = SubSeq(toks, 1, last)
      OBVIOUS
    <3>2. /\ pushed \in Seq(Token) /\ Len(pushed) = last /\ last <= Len(guess) + 1
          /\ pushed[last] = toks[last]
          /\ \A i \in 1..(last - 1) : pushed[i] = guess[i] /\ pushed[i] \notin EndTokens
          /\ s \in Greedy => \A i \in 1..last :
                pushed[i] = Choice(Pre(context[s] \o pushed, base + i - 1))
      <4>1. last \in 0..last /\ last \in 1..last
        BY <2>3
      <4> QED
        BY <2>4, <3>1, <4>1 DEF Given
    <3>3. pushed # <<>>
      BY <2>3, <3>2, EmptySeq
    <3>4. why \in {"none", "eos", "length", "full"} /\ why # "full"
      BY <2>6
    <3>5. Outcome(s, pushed, why)
      <4>1. /\ last <= Lookahead + 1 /\ base + last <= MaxContext
            /\ Generated(s) + last <= MaxTokens
        <5>1. last <= Len(guess) + 1 /\ base \in Nat /\ Generated(s) \in Nat
          BY <1>3, <3>2
        <5> QED
          BY <1>4, <2>3, <5>1
      <4>2. why = "none" => pushed[last] \notin EndTokens
        BY <2>6, <3>2
      <4>3. why = "eos" => pushed[last] \in EndTokens
        BY <2>6, <3>2
      <4>4. why = "length" => Generated(s) + last = MaxTokens /\ pushed[last] \notin EndTokens
        <5> SUFFICES ASSUME why = "length"
                     PROVE  Generated(s) + last = MaxTokens /\ pushed[last] \notin EndTokens
          OBVIOUS
        <5>1. toks[last] \notin EndTokens /\ kept[last]
          BY <2>6
        <5>2. Generated(s) + last >= MaxTokens
          BY <2>2, <5>1
        <5> QED
          BY <1>3, <1>4, <2>3, <3>2, <4>1, <5>1, <5>2
      <4> QED
        BY <3>2, <3>3, <3>4, <4>1, <4>2, <4>3, <4>4 DEF Outcome
    <3>6. PICK keep : keep = KeepTarget(base + Len(pushed))
      OBVIOUS
    <3>7. keep = base + Len(pushed) - 1
      BY <3>6 DEF KeepTarget
    <3>8. copies = IF guess = <<>> THEN NoCopies ELSE Copies(kv[s], context[s] \o guess)
      BY <1>2 DEF Recorded
    <3>9. /\ Recoverable(target, copies, keep)
          /\ Rewound(target, copies, keep) \in Cache
          /\ Holds(Rewound(target, copies, keep), Front(context[s] \o pushed))
          /\ DraftOK(CutDraft(guesser, keep), context[s] \o pushed)
      <4>1. Len(pushed) <= Len(guess) + 1 /\ \A i \in 1..(Len(pushed) - 1) : pushed[i] = guess[i]
        BY <3>2
      <4>2. pushed \in Seq(Token)
        BY <3>2
      <4> QED
        BY <1>1, <1>3, <3>3, <3>7, <3>8, <4>1, <4>2, CachesAfter
    <3>10. ASSUME why = "none" PROVE KeepDraft(base, Len(HandedOf(pushed))) = keep
      <4>1. HandedOf(pushed) = pushed
        BY <3>2, <3>5, <3>10 DEF HandedOf, Outcome
      <4>2. KeepDraft(base, last) = base + (last - 1)
        <5>1. base \in Nat
          BY <1>3
        <5>2. KeepDraft(base, last) = base + last - 1
          BY <2>3, <5>1, KeepDraftIs
        <5> QED
          BY <2>3, <5>1, <5>2
      <4> QED
        BY <1>3, <2>3, <3>2, <3>7, <4>1, <4>2
    <3>11. /\ Settled(s, pushed, why) /\ Shapes /\ \A r \in Session \ {s} : Same(r)
           /\ UNCHANGED <<promptLen, reuse, store, drafter>>
      <4>1. pushed \in Seq(Token)
        BY <3>2
      <4>2. why = IF Recoverable(target, copies, keep) THEN why ELSE "full"
        BY <3>9
      <4>3. Conclude(s, pushed, why, target, copies, guesser)
        BY <2>7, <3>1
      <4>4. why = "none" =>
              /\ Rewound(target, copies, keep) \in Cache
              /\ Holds(Rewound(target, copies, keep), Front(context[s] \o pushed))
              /\ DraftOK(CutDraft(guesser, KeepDraft(Len(context[s]), Len(HandedOf(pushed)))),
                         context[s] \o pushed)
        BY <3>9, <3>10
      <4> QED
        BY <3>4, <3>6, <4>1, <4>2, <4>3, <4>4, ConcludeIs
    <3> QED
      BY <3>5, <3>11 DEF OneRound
  <2> QED
    BY <2>1, <2>5, <2>6, <2>7
<1>8. CASE \E toks \in [1..(Len(guess) + 1) -> Token] :
              /\ \A i \in DOMAIN toks : toks[i] \in Answers(s, target, context[s] \o guess, base + i - 1)
              /\ \E kept \in Keeps(s, guess, toks) :
                    LET last == LastOf(s, toks, kept)
                        why == IF toks[last] \in EndTokens THEN "eos"
                               ELSE IF kept[last] THEN "length"
                               ELSE "none"
                    IN  \/ Conclude(s, SubSeq(toks, 1, last), why, target, copies, guesser)
                        \/ /\ s \in Flaky
                           /\ \E n \in 0..last :
                                 Conclude(s, SubSeq(toks, 1, n), "full", target, copies, guesser)
  BY <1>7, <1>8 DEF Answered
<1> QED
  BY <1>1, <1>2, <1>6, <1>8 DEF Verify

\* A speculative round.
LEMMA SpecIsRound == ASSUME Inv, NEW s \in Session, SpecRound(s) PROVE Round
<1>1. Active = {s} /\ s \in Active /\ Lookahead > 0
  BY DEF SpecRound
<1>2. /\ context[s] \in Seq(Token) /\ Len(context[s]) \in Nat \ {0} /\ Len(context[s]) <= MaxContext
      /\ Generated(s) \in 0..MaxTokens /\ kv[s] \in Cache /\ DraftOK(draft[s], context[s])
      /\ Holds(kv[s], Pre(context[s], Len(context[s]) - 1)) /\ context[s] # <<>>
  BY <1>1, ActiveIs
<1>3. Lookahead \in Nat /\ MaxTokens \in Nat /\ MaxContext \in Nat /\ Generated(s) \in Nat
  BY <1>2, DecodeAssumption
<1>4. OneRound(s)
  <2>1. CASE Stop(s) # "none"
    <3>1. Conclude(s, <<>>, Stop(s), kv[s], NoCopies, draft[s])
      BY <2>1 DEF SpecRound
    <3>2. <<>> \in Seq(Token) /\ Len(<<>>) = 0 /\ \A i : i \notin 1..Len(<<>>)
      BY EmptySeq
    <3>3. PICK why \in {"length", "full"} : why = Stop(s)
      BY <2>1 DEF Stop
    <3>4. why = "length" => Generated(s) >= MaxTokens
      BY <3>3 DEF Stop
    <3>5. why = "full" => Len(context[s]) >= MaxContext
      BY <3>3 DEF Stop
    <3>6. PICK keep : keep = KeepTarget(Len(context[s]) + Len(<<>>))
      OBVIOUS
    <3>7. keep = Len(context[s]) - 1
      BY <1>2, <3>2, <3>6 DEF KeepTarget
    <3>8. Len(kv[s][1]) = keep
      <4>1. kv[s][1] = Pre(context[s], Len(context[s]) - 1)
        BY <1>2, LayerFinite DEF Holds
      <4>2. Len(context[s]) - 1 \in 0..Len(context[s])
        BY <1>2
      <4>3. Len(Pre(context[s], Len(context[s]) - 1)) = Len(context[s]) - 1
        <5>1. PICK q, n : q = context[s] /\ n = Len(context[s]) - 1
          OBVIOUS
        <5>2. q \in Seq(Token) /\ n \in 0..Len(q)
          BY <1>2, <4>2, <5>1
        <5>3. Len(Pre(q, n)) = n
          BY ONLY <5>2, PreIs
        <5> QED
          BY <5>1, <5>3
      <4> QED
        BY <3>7, <4>1, <4>3
    <3>9. Recoverable(kv[s], NoCopies, keep)
      BY <1>2, <3>7, <3>8 DEF Recoverable
    <3>10. /\ Settled(s, <<>>, why) /\ Shapes /\ \A r \in Session \ {s} : Same(r)
           /\ UNCHANGED <<promptLen, reuse, store, drafter>>
      <4>1. why = IF Recoverable(kv[s], NoCopies, keep) THEN why ELSE "full"
        BY <3>9
      <4>2. why # "none" /\ why \in {"none", "eos", "length", "full"}
        BY <3>3
      <4>3. Conclude(s, <<>>, why, kv[s], NoCopies, draft[s])
        BY <3>1, <3>3
      <4> QED
        BY <1>1, <3>2, <3>6, <4>1, <4>2, <4>3, ConcludeIs
    <3>11. Outcome(s, <<>>, why)
      <4>1. /\ Len(<<>>) <= Lookahead + 1 /\ Len(context[s]) + Len(<<>>) <= MaxContext
            /\ Generated(s) + Len(<<>>) <= MaxTokens /\ \A i : i \notin 1..(Len(<<>>) - 1)
        BY <1>2, <1>3, <3>2
      <4>2. why = "length" => Generated(s) + Len(<<>>) = MaxTokens
        BY <1>2, <1>3, <3>2, <3>4
      <4>3. why = "full" => Len(context[s]) = MaxContext
        BY <1>2, <1>3, <3>5
      <4> QED
        BY <3>2, <3>3, <4>1, <4>2, <4>3 DEF Outcome
    <3> QED
      BY <3>10, <3>11 DEF OneRound
  <2>2. CASE Stop(s) = "none"
    <3>a. PICK budget \in 0..Lookahead :
             \E q \in Guesses(s, Least(budget, Room(s)), budget) : Verify(s, q.guess, q.cache)
      BY <2>2 DEF SpecRound
    <3>1. PICK p \in Guesses(s, Least(budget, Room(s)), budget) : Verify(s, p.guess, p.cache)
      BY <3>a
    <3>2. Generated(s) < MaxTokens /\ Len(context[s]) < MaxContext
      BY <1>2, <1>3, <2>2 DEF Stop
    <3>3. PICK room \in Nat : /\ room = Room(s) /\ Generated(s) + room + 1 <= MaxTokens
                              /\ Len(context[s]) + room + 1 <= MaxContext
      <4>1. PICK a \in Nat : a = Minus(MaxTokens, Generated(s)) /\ a + Generated(s) = MaxTokens /\ a > 0
        BY <1>3, <3>2 DEF Minus
      <4>2. PICK b \in Nat : b = Minus(MaxContext, Len(context[s])) /\ b + Len(context[s]) = MaxContext /\ b > 0
        <5>1. Len(context[s]) \in Nat
          BY <1>2
        <5> QED
          BY <1>3, <3>2, <5>1, MinusIs
      <4>3. PICK m \in Nat : m = Least(a, b) /\ m > 0 /\ m <= a /\ m <= b
        BY <4>1, <4>2 DEF Least
      <4>4. Minus(m, 1) = m - 1
        BY <4>3 DEF Minus
      <4>5. Room(s) = m - 1
        BY <4>1, <4>2, <4>3, <4>4 DEF Room
      <4>6. m - 1 \in Nat /\ Generated(s) + (m - 1) + 1 <= MaxTokens
            /\ Len(context[s]) + (m - 1) + 1 <= MaxContext
        <5>1. PICK x \in Nat, y \in Nat : x = Generated(s) /\ y = Len(context[s])
          BY <1>2, <1>3
        <5>2. a + x = MaxTokens /\ b + y = MaxContext /\ m > 0 /\ m <= a /\ m <= b
          BY <4>1, <4>2, <4>3, <5>1
        <5>3. m - 1 \in Nat /\ x + (m - 1) + 1 <= MaxTokens /\ y + (m - 1) + 1 <= MaxContext
          BY ONLY <1>3, <5>2, m \in Nat, a \in Nat, b \in Nat, x \in Nat, y \in Nat
        <5> QED
          BY <5>1, <5>3
      <4> QED
        BY <4>5, <4>6
    <3>4. PICK n \in Nat : n = Least(budget, room) /\ n <= room /\ n <= Lookahead
      <4>1. budget \in Nat
        BY <1>3
      <4> QED
        BY <1>3, <3>3, <4>1 DEF Least
    <3>5. p \in Guesses(s, n, budget)
      BY <3>1, <3>3, <3>4
    <3>6. p.guess \in Seq(Token) /\ Len(p.guess) <= n /\ GuessOK(p.cache, context[s], p.guess)
      BY <1>2, <3>5, GuessesAre
    <3>7. /\ Len(p.guess) <= Lookahead /\ Generated(s) + Len(p.guess) + 1 <= MaxTokens
          /\ Len(context[s]) + Len(p.guess) + 1 <= MaxContext
      <4>1. Len(p.guess) \in Nat
        BY <3>6, LenProperties
      <4> QED
        <5>1. Len(context[s]) \in Nat /\ Len(p.guess) <= n
          BY <1>2, <3>6
        <5>2. Len(p.guess) <= room
          BY <3>4, <4>1, <5>1
        <5>3. Len(p.guess) <= Lookahead
          BY <1>3, <3>4, <4>1, <5>1
        <5> QED
          BY <1>3, <3>3, <4>1, <5>1, <5>2, <5>3, Fewer
    <3> QED
      BY <1>1, <3>1, <3>6, <3>7, VerifyIs
  <2> QED
    BY <2>1, <2>2
<1> QED
  BY <1>1, <1>4 DEF OneRound, Round

-----------------------------------------------------------------------------
(* A batched round.                                                        *)

\* What a batched pass may come to for one session.
VerdictOK(s, v) ==
  \/ /\ Stop(s) = "none"
     /\ \E t \in Answers(s, Fed(kv[s], context[s]), context[s], Len(context[s])) : v = Got(t)
  \/ v = Ends("length") /\ Generated(s) >= MaxTokens
  \/ v = Ends("full") /\ (Len(context[s]) >= MaxContext \/ s \in Flaky \/ Active # {s})

\* A session that must stop before the pass is settled by its reason.
LEMMA StopIs ==
  ASSUME NEW s \in Session, Stop(s) # "none" PROVE VerdictOK(s, Ends(Stop(s)))
<1>1. \/ Stop(s) = "length" /\ Generated(s) >= MaxTokens
      \/ Stop(s) = "full" /\ Len(context[s]) >= MaxContext
  BY DEF Stop
<1> QED
  BY <1>1 DEF VerdictOK

\* The two kinds of batched round differ only in who fails.
LEMMA BatchSettles ==
  ASSUME BatchRound \/ BatchFallback
  PROVE  \E verdict : /\ DOMAIN verdict = Active /\ \A s \in Active : VerdictOK(s, verdict[s])
                      /\ Settle(verdict)
<1>1. \A s \in Active : s \in Session
  BY DEF Active
<1>2. ASSUME NEW s \in Active, NEW v, v \in Steps(s), s \in Live PROVE VerdictOK(s, v)
  BY <1>2 DEF VerdictOK, Steps, Live
<1>3. ASSUME NEW s \in Active, NEW v, v \in Fails(s) PROVE VerdictOK(s, v)
  <2>1. s \in Flaky /\ v = Ends("full")
    <3>1. s \in Flaky
      BY <1>3 DEF Fails
    <3> QED
      BY <1>3, <3>1 DEF Fails
  <2> QED
    BY <2>1 DEF VerdictOK
<1>4. ASSUME NEW s \in Active, s \notin Live PROVE VerdictOK(s, Ends(Stop(s)))
  <2>1. Stop(s) # "none"
    BY <1>4 DEF Live
  <2> QED
    BY <1>1, <2>1, StopIs
<1>5. CASE BatchRound
  <2>1. PICK verdict \in [Active -> UNION {{Ends(Stop(s))} \cup Steps(s) \cup Fails(s) : s \in Active}] :
           /\ \A s \in Active : verdict[s] \in IF s \in Live THEN Steps(s) \cup Fails(s)
                                                             ELSE {Ends(Stop(s))}
           /\ Settle(verdict)
    BY <1>5 DEF BatchRound
  <2>2. ASSUME NEW s \in Active PROVE VerdictOK(s, verdict[s])
    <3>1. CASE s \in Live
      <4>1. verdict[s] \in Steps(s) \/ verdict[s] \in Fails(s)
        BY <2>1, <3>1
      <4> QED
        BY <1>2, <1>3, <3>1, <4>1
    <3>2. CASE s \notin Live
      <4>1. verdict[s] = Ends(Stop(s))
        BY <2>1, <3>2
      <4> QED
        BY <1>4, <3>2, <4>1
    <3> QED
      BY <3>1, <3>2
  <2>3. DOMAIN verdict = Active
    OBVIOUS
  <2> QED
    BY <2>1, <2>2, <2>3
<1>6. CASE BatchFallback
  <2>1. PICK stuck \in SUBSET Live :
        \E verdict \in [Active -> UNION {{Ends(Stop(s)), Ends("full")} \cup Steps(s) : s \in Active}] :
           /\ \A s \in Active : verdict[s] \in
                 CASE s \notin Live -> {Ends(Stop(s))}
                   [] s \in stuck -> {Ends("full")}
                   [] OTHER -> Steps(s) \cup Fails(s)
           /\ Settle(verdict)
    BY <1>6 DEF BatchFallback
  <2>2. PICK verdict \in [Active -> UNION {{Ends(Stop(s)), Ends("full")} \cup Steps(s) : s \in Active}] :
           /\ \A s \in Active : verdict[s] \in
                 CASE s \notin Live -> {Ends(Stop(s))}
                   [] s \in stuck -> {Ends("full")}
                   [] OTHER -> Steps(s) \cup Fails(s)
           /\ Settle(verdict)
    BY <2>1
  <2>3. PICK f : f \in Live \cap Flaky
    BY <1>6 DEF BatchFallback
  <2>4. ASSUME NEW s \in Active PROVE VerdictOK(s, verdict[s])
    <3>0. verdict[s] \in CASE s \notin Live -> {Ends(Stop(s))}
                           [] s \in stuck -> {Ends("full")}
                           [] OTHER -> Steps(s) \cup Fails(s)
      BY <2>2
    <3>1. CASE s \notin Live
      <4>1. s \notin stuck
        BY <3>1
      <4>2. verdict[s] = Ends(Stop(s))
        BY <3>0, <3>1, <4>1
      <4> QED
        BY <1>4, <3>1, <4>2
    <3>2. CASE s \in Live /\ s \in stuck
      <4>1. verdict[s] = Ends("full")
        BY <3>0, <3>2
      <4>2. Active = {s} => s \in Flaky
        BY <2>3 DEF Live
      <4> QED
        BY <4>1, <4>2 DEF VerdictOK
    <3>3. CASE s \in Live /\ s \notin stuck
      <4>1. verdict[s] \in Steps(s) \cup Fails(s)
        BY <3>0, <3>3
      <4> QED
        BY <1>2, <1>3, <3>3, <4>1
    <3> QED
      BY <3>1, <3>2, <3>3
  <2>5. DOMAIN verdict = Active
    OBVIOUS
  <2> QED
    BY <2>2, <2>4, <2>5
<1> QED
  BY <1>5, <1>6

\* A sequence of one.
LEMMA OneIs ==
  ASSUME NEW t \in Token
  PROVE  /\ <<t>> \in Seq(Token) /\ Len(<<t>>) = 1 /\ <<t>>[1] = t /\ <<t>> # <<>>
         /\ HandedOf(<<t>>) = IF t \in EndTokens THEN <<>> ELSE <<t>>
<1>1. PICK q : q = <<t>>
  OBVIOUS
<1>2. q \in Seq(Token) /\ Len(q) = 1 /\ q[1] = t
  BY <1>1
<1>3. q # <<>>
  BY <1>2, EmptySeq
<1>4. Front(q) = <<>>
  BY <1>2, PreNone DEF Front, Pre
<1>5. HandedOf(q) = IF t \in EndTokens THEN <<>> ELSE q
  BY <1>2, <1>3, <1>4 DEF HandedOf
<1> QED
  BY <1>1, <1>2, <1>3, <1>5

\* A context goes on.
LEMMA DraftStays ==
  ASSUME NEW ctx \in Seq(Token), NEW q \in Seq(Token), NEW d, DraftOK(d, ctx)
  PROVE  DraftOK(d, ctx \o q)
<1> SUFFICES ASSUME d # None PROVE \E n \in 0..(Len(ctx \o q) - 1) : Holds(d, Pre(ctx \o q, n))
  BY DEF DraftOK
<1>1. PICK n \in 0..(Len(ctx) - 1) : Holds(d, Pre(ctx, n))
  BY DEF DraftOK
<1>2. Len(ctx) \in Nat /\ Len(q) \in Nat
  BY LenProperties
<1>3. Len(ctx \o q) = Len(ctx) + Len(q)
  BY CatIs
<1>4. n \in 0..Len(ctx) /\ n \in 0..(Len(ctx \o q) - 1)
  BY <1>2, <1>3
<1>5. Pre(ctx \o q, n) = Pre(ctx, n)
  BY <1>4, PreCat
<1> QED
  BY <1>1, <1>4, <1>5

\* A batched round is a round of every active session.
LEMMA BatchIsRound == ASSUME Inv, BatchRound \/ BatchFallback PROVE Round
<1>1. PICK verdict : /\ DOMAIN verdict = Active /\ \A s \in Active : VerdictOK(s, verdict[s])
                     /\ Settle(verdict)
  BY BatchSettles
<1> DEFINE over == {s \in Active : verdict[s].end # "none"}
           given == {s \in Active : verdict[s].tok # None}
<1>2. /\ context' = [s \in Session |-> IF s \in given
                          THEN Append(context[s], verdict[s].tok) ELSE context[s]]
      /\ out' = [s \in Session |-> IF s \in given \ over
                          THEN Append(out[s], verdict[s].tok) ELSE out[s]]
      /\ kv' = [s \in Session |-> CASE s \in over -> Fresh
                                    [] s \in Active \ over -> Fed(kv[s], context[s])
                                    [] OTHER -> kv[s]]
      /\ draft' = [s \in Session |-> IF s \in over THEN None ELSE draft[s]]
      /\ status' = [s \in Session |-> IF s \in over THEN "done" ELSE status[s]]
      /\ reason' = [s \in Session |-> IF s \in over THEN verdict[s].end ELSE reason[s]]
      /\ UNCHANGED <<promptLen, reuse, store, drafter>>
  BY <1>1 DEF Settle
<1>3. Shapes
  BY <1>2 DEF Shapes
<1>4. ASSUME NEW s \in Session \ Active PROVE Same(s)
  <2>1. s \notin over /\ s \notin given
    OBVIOUS
  <2>2. kv'[s] = kv[s]
    BY <1>2, <2>1
  <2> QED
    BY <1>2, <2>1, <2>2 DEF Same
<1>5. ASSUME NEW s \in Active
      PROVE  \E pushed, end : Outcome(s, pushed, end) /\ Settled(s, pushed, end)
  <2>1. /\ s \in Session /\ context[s] \in Seq(Token)
        /\ Len(context[s]) \in Nat /\ Len(context[s]) <= MaxContext
        /\ Generated(s) \in Nat /\ Generated(s) <= MaxTokens
        /\ kv[s] \in Cache /\ DraftOK(draft[s], context[s])
        /\ Holds(kv[s], Pre(context[s], Len(context[s]) - 1)) /\ out[s] \in Seq(Token)
        /\ status[s] = "decode" /\ Len(context[s]) - 1 \in 0..Len(context[s])
    <3>1. Len(context[s]) \in Nat \ {0} /\ Generated(s) \in 0..MaxTokens /\ MaxTokens \in Nat
      BY ActiveIs, DecodeAssumption
    <3> QED
      BY <3>1, ActiveIs
  <2>2. Lookahead \in Nat /\ MaxTokens \in Nat /\ MaxContext \in Nat
    BY DecodeAssumption
  <2>3. Fed(kv[s], context[s]) \in Cache /\ Holds(Fed(kv[s], context[s]), context[s])
    BY <2>1, FedHolds
  <2>4. reason[s] = "none"
    BY <2>1 DEF Inv, SessionOK, Sound
  \* A session that ends without another token.
  <2>5. ASSUME NEW end \in {"length", "full"}, verdict[s] = Ends(end),
               end = "length" => Generated(s) >= MaxTokens,
               end = "full" => Len(context[s]) >= MaxContext \/ s \in Flaky \/ Active # {s}
        PROVE  Outcome(s, <<>>, end) /\ Settled(s, <<>>, end)
    <3>1. verdict[s].tok = None /\ verdict[s].end = end /\ end # "none"
      BY <2>5 DEF Ends
    <3>2. s \in over /\ s \notin given
      BY <3>1
    <3>3. <<>> \in Seq(Token) /\ Len(<<>>) = 0 /\ \A i : i \notin 1..Len(<<>>)
      BY EmptySeq
    <3>4. Outcome(s, <<>>, end)
      <4>1. /\ Len(<<>>) <= Lookahead + 1 /\ Len(context[s]) + Len(<<>>) <= MaxContext
            /\ Generated(s) + Len(<<>>) <= MaxTokens /\ \A i : i \notin 1..(Len(<<>>) - 1)
        BY <2>1, <2>2, <3>3
      <4>2. end = "length" => Generated(s) + Len(<<>>) = MaxTokens
        BY <2>1, <2>2, <2>5, <3>3
      <4>3. end = "full" /\ s \notin Flaky /\ Active = {s} => Len(context[s]) = MaxContext
        BY <2>1, <2>2, <2>5
      <4> QED
        BY <3>3, <4>1, <4>2, <4>3 DEF Outcome
    <3>5. Settled(s, <<>>, end)
      <4>1. HandedOf(<<>>) = <<>>
        BY DEF HandedOf
      <4>2. context[s] \o <<>> = context[s] /\ out[s] \o <<>> = out[s]
        BY <2>1, ConcatEmptySeq
      <4>3. /\ context'[s] = context[s] /\ out'[s] = out[s] /\ reason'[s] = end /\ status'[s] = "done"
            /\ kv'[s] = Fresh /\ draft'[s] = None
        BY <1>2, <2>1, <3>1, <3>2
      <4> QED
        BY <3>1, <4>1, <4>2, <4>3, FreshHolds DEF Settled
    <3> QED
      BY <3>4, <3>5
  \* A session that gets one.
  <2>6. ASSUME NEW t \in Answers(s, Fed(kv[s], context[s]), context[s], Len(context[s])),
               verdict[s] = Got(t), Stop(s) = "none"
        PROVE  \E end : Outcome(s, <<t>>, end) /\ Settled(s, <<t>>, end)
    <3>1. t \in Token
      <4>1. Pre(context[s], Len(context[s])) = context[s]
        BY <2>1, PreFull
      <4>2. context[s] \in Seqs(Token, MaxContext)
        <5>1. context[s] \in [1..Len(context[s]) -> Token] /\ Len(context[s]) \in 0..MaxContext
          BY <2>1, <2>2, LenProperties
        <5> QED
          BY <5>1 DEF Seqs
      <4>3. Choice(context[s]) \in Token
        BY <4>2, DecodeAssumption
      <4> QED
        BY <4>1, <4>3 DEF Answers, Pre
    <3>2. /\ <<t>> \in Seq(Token) /\ Len(<<t>>) = 1 /\ <<t>>[1] = t /\ <<t>> # <<>>
          /\ HandedOf(<<t>>) = IF t \in EndTokens THEN <<>> ELSE <<t>>
      BY <3>1, OneIs
    <3>3. PICK end : end = IF t \in EndTokens THEN "eos" ELSE "none"
      OBVIOUS
    <3>4. verdict[s].tok = t /\ verdict[s].end = end /\ t # None
      BY <2>6, <3>1, <3>3, DecodeAssumption DEF Got
    <3>5. s \in given /\ (s \in over <=> end # "none")
      BY <3>4
    <3>6. Generated(s) < MaxTokens /\ Len(context[s]) < MaxContext
      BY <2>1, <2>2, <2>6 DEF Stop
    <3>7. Pre(context[s] \o <<t>>, Len(context[s])) = context[s]
      <4>1. Len(context[s]) \in 0..Len(context[s])
        BY <2>1
      <4>2. PICK q, r : q = context[s] /\ r = <<t>>
        OBVIOUS
      <4>3. q \in Seq(Token) /\ r \in Seq(Token) /\ Len(q) \in 0..Len(q)
        BY <2>1, <3>2, <4>1, <4>2
      <4>4. Pre(q \o r, Len(q)) = q
        BY ONLY <4>3, PreCat, PreFull
      <4> QED
        BY <4>2, <4>4
    <3>8. Outcome(s, <<t>>, end)
      <4>1. /\ 1 <= Lookahead + 1 /\ Len(context[s]) + 1 <= MaxContext /\ Generated(s) + 1 <= MaxTokens
            /\ \A i : i \notin 1..(1 - 1)
        BY <2>1, <2>2, <3>6
      <4>2. s \in Greedy => t = Choice(context[s])
        <5>1. Pre(context[s], Len(context[s])) = context[s]
          BY <2>1, PreFull
        <5> QED
          BY <2>3, <2>6, <5>1 DEF Answers, Pre
      <4>3. s \in Greedy => \A i \in 1..1 :
               <<t>>[i] = Choice(Pre(context[s] \o <<t>>, Len(context[s]) + i - 1))
        <5> SUFFICES ASSUME s \in Greedy, NEW i \in 1..1
                     PROVE  <<t>>[i] = Choice(Pre(context[s] \o <<t>>, Len(context[s]) + i - 1))
          OBVIOUS
        <5>1. i = 1 /\ Len(context[s]) + i - 1 = Len(context[s])
          BY <2>1
        <5> QED
          BY <3>2, <3>7, <4>2, <5>1
      <4>4. end \in {"none", "eos"} /\ (end = "none" <=> t \notin EndTokens)
        BY <3>3
      <4> QED
        BY <3>2, <4>1, <4>3, <4>4 DEF Outcome
    <3>9. Settled(s, <<t>>, end)
      <4>1. Append(context[s], t) = context[s] \o <<t>> /\ Append(out[s], t) = out[s] \o <<t>>
            /\ out[s] \o <<>> = out[s]
        BY <2>1, <3>1, AppendIsConcat, ConcatEmptySeq
      <4>2. context'[s] = context[s] \o <<t>>
        BY <1>2, <2>1, <3>4, <3>5, <4>1
      <4>3. CASE t \in EndTokens
        <5>1. s \in over /\ end = "eos" /\ HandedOf(<<t>>) = <<>>
          BY <3>2, <3>3, <3>5, <4>3
        <5>2. out'[s] = out[s] /\ reason'[s] = end /\ status'[s] = "done" /\ kv'[s] = Fresh /\ draft'[s] = None
          BY <1>2, <2>1, <3>4, <5>1
        <5> QED
          BY <4>1, <4>2, <5>1, <5>2, FreshHolds DEF Settled
      <4>4. CASE t \notin EndTokens
        <5>1. s \notin over /\ end = "none" /\ HandedOf(<<t>>) = <<t>>
          BY <3>2, <3>3, <3>5, <4>4
        <5>2. /\ out'[s] = Append(out[s], t) /\ reason'[s] = "none" /\ status'[s] = "decode"
              /\ draft'[s] = draft[s]
          BY <1>2, <2>1, <2>4, <3>4, <3>5, <5>1
        <5>3. kv'[s] = Fed(kv[s], context[s])
          BY <1>2, <2>1, <5>1
        <5>4. Front(context[s] \o <<t>>) = context[s]
          <6>1. Len(context[s] \o <<t>>) - 1 = Len(context[s]) /\ context[s] \o <<t>> \in Seq(Token)
            <7>1. Len(context[s] \o <<t>>) = Len(context[s]) + 1 /\ context[s] \o <<t>> \in Seq(Token)
              BY <2>1, <3>2, CatIs
            <7> QED
              BY <2>1, <7>1
          <6> QED
            BY <3>7, <6>1 DEF Front, Pre
        <5>5. DraftOK(draft[s], context[s] \o <<t>>)
          BY <2>1, <3>2, DraftStays
        <5> QED
          BY <2>3, <4>1, <4>2, <5>1, <5>2, <5>3, <5>4, <5>5 DEF Settled, DraftOK
      <4> QED
        BY <4>3, <4>4
    <3> QED
      BY <3>8, <3>9
  <2>7. VerdictOK(s, verdict[s])
    BY <1>1
  <2> QED
    BY <2>5, <2>6, <2>7 DEF VerdictOK
<1> QED
  BY <1>2, <1>3, <1>4, <1>5 DEF Round

-----------------------------------------------------------------------------
(* The invariant is inductive.                                             *)

\* What is handed out of a reply that goes on for pushed: all but an end token.
LEMMA HandedCat ==
  ASSUME NEW q \in Seq(Token), NoEnd(q), NEW pushed \in Seq(Token),
         \A i \in 1..(Len(pushed) - 1) : pushed[i] \notin EndTokens
  PROVE  /\ HandedOf(pushed) \in Seq(Token) /\ Len(HandedOf(pushed)) <= Len(pushed)
         /\ HandedOf(q \o pushed) = q \o HandedOf(pushed) /\ NoEnd(q \o HandedOf(pushed))
         /\ pushed # <<>> /\ pushed[Len(pushed)] \in EndTokens
               => q \o HandedOf(pushed) # q \o pushed
         /\ pushed = <<>> \/ pushed[Len(pushed)] \notin EndTokens => HandedOf(pushed) = pushed
<1> DEFINE h == HandedOf(pushed)
<1>1. Len(q) \in Nat /\ Len(pushed) \in Nat /\ DOMAIN q = 1..Len(q)
  BY LenProperties
<1>2. PICK t : t = q \o pushed
  OBVIOUS
<1>3. /\ t \in Seq(Token) /\ Len(t) = Len(q) + Len(pushed)
      /\ \A i \in 1..Len(q) : t[i] = q[i]
      /\ \A i \in 1..Len(pushed) : t[Len(q) + i] = pushed[i]
  BY <1>2, CatIs
\* A sequence handed out whole, or without its last token, has no end token.
<1>4. ASSUME NEW r \in Seq(Token), Len(r) <= Len(pushed),
             \A i \in 1..Len(r) : r[i] = pushed[i] /\ r[i] \notin EndTokens
      PROVE  NoEnd(q \o r)
  <2>1. /\ q \o r \in Seq(Token) /\ Len(q \o r) = Len(q) + Len(r)
        /\ \A i \in 1..Len(q) : (q \o r)[i] = q[i]
        /\ \A i \in 1..Len(r) : (q \o r)[Len(q) + i] = r[i]
    BY CatIs
  <2>2. DOMAIN (q \o r) = 1..(Len(q) + Len(r)) /\ Len(r) \in Nat
    BY <2>1, LenProperties
  <2>3. ASSUME NEW i \in 1..(Len(q) + Len(r)) PROVE (q \o r)[i] \notin EndTokens
    <3>1. CASE i <= Len(q)
      <4>1. i \in 1..Len(q)
        BY <1>1, <2>2, <3>1
      <4> QED
        BY <1>1, <2>1, <4>1 DEF NoEnd
    <3>2. CASE ~(i <= Len(q))
      <4>1. PICK j : j = i - Len(q)
        OBVIOUS
      <4>2. j \in 1..Len(r) /\ i = Len(q) + j
        BY <1>1, <2>2, <3>2, <4>1
      <4> QED
        BY <1>4, <2>1, <4>2
    <3> QED
      BY <3>1, <3>2
  <2> QED
    BY <2>2, <2>3 DEF NoEnd
<1>5. CASE pushed = <<>>
  <2>1. h = <<>> /\ q \o <<>> = q /\ t = q /\ <<>> \in Seq(Token) /\ Len(<<>>) = 0
    BY <1>2, <1>5, ConcatEmptySeq, EmptySeq DEF HandedOf
  <2>2. HandedOf(q) = q
    <3>1. q # <<>> => Len(q) \in DOMAIN q
      BY <1>1, EmptySeq
    <3> QED
      BY <3>1 DEF HandedOf, NoEnd
  <2>3. NoEnd(q \o <<>>)
    BY <2>1
  <2>4. HandedOf(pushed) = <<>>
    BY <2>1
  <2>5. HandedOf(pushed) \in Seq(Token) /\ Len(HandedOf(pushed)) <= Len(pushed)
    <3>1. Len(HandedOf(pushed)) = 0 /\ Len(pushed) = 0
      BY <1>5, <2>1, <2>4
    <3> QED
      BY <2>1, <2>4, <3>1
  <2>6. HandedOf(q \o pushed) = q \o HandedOf(pushed) /\ NoEnd(q \o HandedOf(pushed))
    BY <1>2, <1>5, <2>1, <2>2, <2>3, <2>4
  <2> QED
    BY <1>5, <2>4, <2>5, <2>6
<1>6. CASE pushed # <<>>
  <2>1. Len(pushed) \in Nat \ {0} /\ Len(pushed) \in 1..Len(pushed)
    BY <1>6, EmptySeq
  <2>2. t # <<>> /\ Len(t) \in Nat \ {0}
    BY <1>1, <1>3, <2>1, EmptySeq
  <2>3. t[Len(t)] = pushed[Len(pushed)]
    BY <1>3, <2>1
  <2>4. CASE pushed[Len(pushed)] \notin EndTokens
    <3>1. h = pushed /\ HandedOf(t) = t
      BY <1>6, <2>2, <2>3, <2>4 DEF HandedOf
    <3>2. \A i \in 1..Len(pushed) : pushed[i] \notin EndTokens
      <4> SUFFICES ASSUME NEW i \in 1..Len(pushed) PROVE pushed[i] \notin EndTokens
        OBVIOUS
      <4>1. i = Len(pushed) \/ i \in 1..(Len(pushed) - 1)
        BY <1>1
      <4> QED
        BY <2>4, <4>1
    <3>3. Len(pushed) <= Len(pushed)
      BY <1>1
    <3>4. NoEnd(q \o pushed)
      BY <1>4, <3>2, <3>3
    <3> QED
      BY <1>2, <2>4, <3>1, <3>3, <3>4
  <2>5. CASE pushed[Len(pushed)] \in EndTokens
    <3>1. PICK f : f = Front(pushed)
      OBVIOUS
    <3>2. /\ f = Pre(pushed, Len(pushed) - 1) /\ Len(pushed) - 1 \in 0..Len(pushed)
          /\ f \in Seq(Token) /\ Len(f) = Len(pushed) - 1
      BY <1>6, <3>1, FrontIs
    <3>3. \A i \in 1..(Len(pushed) - 1) : f[i] = pushed[i]
      BY <3>2, PreIs
    <3>4. h = f /\ HandedOf(t) = Front(t)
      BY <1>6, <2>2, <2>3, <2>5, <3>1 DEF HandedOf
    <3>5. PICK c : c = q \o f
      OBVIOUS
    <3>6. /\ c \in Seq(Token) /\ Len(c) = Len(q) + Len(f)
          /\ \A i \in 1..Len(q) : c[i] = q[i]
          /\ \A i \in 1..Len(f) : c[Len(q) + i] = f[i]
      BY <3>2, <3>5, CatIs
    <3>7. PICK e : e = Front(t)
      OBVIOUS
    <3>8. e = Pre(t, Len(t) - 1) /\ Len(t) - 1 \in 0..Len(t) /\ e \in Seq(Token) /\ Len(e) = Len(t) - 1
      BY <1>3, <2>2, <3>7, FrontIs
    <3>9. \A i \in 1..(Len(t) - 1) : e[i] = t[i]
      BY <1>3, <3>8, PreIs
    <3>10. Len(c) = Len(e)
      BY <1>1, <1>3, <3>2, <3>6, <3>8
    <3>11. ASSUME NEW i \in 1..Len(c) PROVE c[i] = e[i]
      <4>1. i \in 1..(Len(t) - 1)
        BY <3>8, <3>10
      <4>2. CASE i <= Len(q)
        <5>1. i \in 1..Len(q)
          BY <1>1, <1>3, <4>1, <4>2
        <5> QED
          BY <1>3, <3>6, <3>9, <4>1, <5>1
      <4>3. CASE ~(i <= Len(q))
        <5>1. PICK j : j = i - Len(q)
          OBVIOUS
        <5>2. j \in 1..Len(f) /\ j \in 1..Len(pushed) /\ j \in 1..(Len(pushed) - 1) /\ i = Len(q) + j
          BY <1>1, <3>2, <3>6, <4>3, <5>1
        <5> QED
          BY <1>3, <3>3, <3>6, <3>9, <4>1, <5>2
      <4> QED
        BY <4>2, <4>3
    <3>12. c = e
      BY <3>6, <3>8, <3>10, <3>11, SeqEqual
    <3>13. NoEnd(q \o f)
      <4>1. Len(f) <= Len(pushed) /\ \A i \in 1..Len(f) : f[i] = pushed[i] /\ f[i] \notin EndTokens
        BY <1>1, <3>2, <3>3
      <4> QED
        BY <1>4, <3>2, <4>1
    <3>14. c # t
      BY <1>1, <1>3, <3>2, <3>6
    <3> QED
      BY <1>1, <1>2, <1>6, <2>5, <3>2, <3>4, <3>5, <3>7, <3>12, <3>13, <3>14
  <2> QED
    BY <2>4, <2>5
<1> QED
  BY <1>5, <1>6

\* A session whose variables stay as they are stays sound, and so does the prompt cache.
LEMMA SameSound ==
  ASSUME NEW s, Same(s), promptLen'[s] = promptLen[s], SessionOK(s)
  PROVE  SessionOK(s)'
<1>1. Sound(status'[s], context'[s], promptLen'[s], kv'[s], draft'[s], out'[s], reason'[s])
  BY DEF Same, SessionOK
<1> QED
  BY <1>1 DEF SessionOK, Sound, DraftOK, Holds, HandedOf, Pre, Front, From, NoEnd, Cache

\* A prompt cache that is not touched stays sound.
LEMMA StoreSame == ASSUME StoreOK, UNCHANGED store PROVE StoreOK'
  BY DEF StoreOK, store, Holds, Sizes, Cache, Size

\* A round leaves a session sound.
LEMMA OutcomeSound ==
  ASSUME Inv, NEW s \in Active, NEW pushed, NEW end,
         Outcome(s, pushed, end), Settled(s, pushed, end), promptLen'[s] = promptLen[s]
  PROVE  /\ SessionOK(s)' /\ context'[s] \in Seq(Token) /\ out'[s] \in Seq(Token)
         /\ Len(out'[s]) - Len(out[s]) \in 0..(Lookahead + 1)
         /\ end = "none" => Len(out'[s]) > Len(out[s])
<1> DEFINE ctx == context[s]
           pl == promptLen[s]
           q == From(ctx, pl)
<1>1. /\ s \in Session /\ ctx \in Seq(Token) /\ Len(ctx) \in Nat \ {0} /\ Len(ctx) <= MaxContext
      /\ pl \in 1..Len(ctx) /\ out[s] \in Seq(Token) /\ status[s] = "decode"
  BY ActiveIs
<1>2. out[s] = q /\ NoEnd(q)
  BY <1>1 DEF Inv, SessionOK, Sound
<1>3. /\ pushed \in Seq(Token) /\ Len(pushed) <= Lookahead + 1
      /\ Len(ctx) + Len(pushed) <= MaxContext
      /\ Len(ctx) - pl + Len(pushed) <= MaxTokens
      /\ \A i \in 1..(Len(pushed) - 1) : pushed[i] \notin EndTokens
      /\ end \in {"none", "eos", "length", "full"}
      /\ end = "none" => pushed # <<>> /\ pushed[Len(pushed)] \notin EndTokens
      /\ end = "eos" => pushed # <<>> /\ pushed[Len(pushed)] \in EndTokens
  BY DEF Outcome, Generated
<1>4. /\ context'[s] = ctx \o pushed
      /\ out'[s] = q \o HandedOf(pushed)
      /\ reason'[s] = end
      /\ status'[s] = IF end = "none" THEN "decode" ELSE "done"
      /\ kv'[s] \in Cache /\ draft'[s] \in Cache \cup {None}
      /\ end = "none" => Holds(kv'[s], Front(context'[s])) /\ DraftOK(draft'[s], context'[s])
  BY <1>2 DEF Settled
<1>5. Len(pushed) \in Nat /\ Lookahead \in Nat /\ MaxContext \in Nat /\ MaxTokens \in Nat
  BY <1>3, LenProperties, DecodeAssumption
<1>6. pl \in 0..Len(ctx) /\ pl > 0 /\ pl \in Nat
  BY <1>1
<1>7. q \in Seq(Token)
  BY <1>1, <1>6, FromIs
<1>8. /\ HandedOf(pushed) \in Seq(Token) /\ Len(HandedOf(pushed)) <= Len(pushed)
      /\ HandedOf(q \o pushed) = q \o HandedOf(pushed) /\ NoEnd(q \o HandedOf(pushed))
      /\ pushed # <<>> /\ pushed[Len(pushed)] \in EndTokens
            => q \o HandedOf(pushed) # q \o pushed
      /\ pushed = <<>> \/ pushed[Len(pushed)] \notin EndTokens => HandedOf(pushed) = pushed
  BY <1>2, <1>3, <1>7, HandedCat
<1>9. PICK new : new = ctx \o pushed
  OBVIOUS
<1>10. new \in Seq(Token) /\ Len(new) = Len(ctx) + Len(pushed) /\ From(new, pl) = q \o pushed
  <2>1. new \in Seq(Token) /\ Len(new) = Len(ctx) + Len(pushed)
    BY <1>1, <1>3, <1>9, CatIs
  <2>2. From(new, pl) = q \o pushed
    BY <1>1, <1>3, <1>6, <1>9, FromCat
  <2> QED
    BY <2>1, <2>2
<1>11. /\ Len(out'[s]) = Len(out[s]) + Len(HandedOf(pushed)) /\ out'[s] \in Seq(Token)
       /\ Len(HandedOf(pushed)) \in Nat /\ Len(out[s]) \in Nat
  <2>1. HandedOf(pushed) \in Seq(Token)
    BY <1>8
  <2>2. Len(q \o HandedOf(pushed)) = Len(q) + Len(HandedOf(pushed)) /\ q \o HandedOf(pushed) \in Seq(Token)
    BY <1>7, <2>1, CatIs
  <2>3. Len(HandedOf(pushed)) \in Nat /\ Len(q) \in Nat
    BY <1>7, <2>1, LenProperties
  <2> QED
    BY <1>2, <1>4, <2>2, <2>3
<1> HIDE DEF ctx, pl, q
<1>12. Len(out'[s]) - Len(out[s]) \in 0..(Lookahead + 1)
  BY <1>3, <1>5, <1>8, <1>11
<1>13. ASSUME end = "none" PROVE Len(out'[s]) > Len(out[s])
  <2>1. HandedOf(pushed) = pushed /\ Len(pushed) # 0
    BY <1>3, <1>8, <1>13, EmptySeq
  <2> QED
    BY <1>5, <1>11, <2>1
<1>14. pl <= Len(new) /\ Len(new) <= MaxContext /\ Len(new) - pl <= MaxTokens
  <2>1. Len(ctx) \in Nat /\ pl \in Nat /\ pl <= Len(ctx)
    BY <1>1, <1>6
  <2>2. Len(ctx) + Len(pushed) <= MaxContext /\ Len(ctx) - pl + Len(pushed) <= MaxTokens
        /\ Len(new) = Len(ctx) + Len(pushed)
    BY <1>3, <1>10
  <2> QED
    BY <1>5, <2>1, <2>2
<1>15. Sound(status'[s], new, pl, kv'[s], draft'[s], out'[s], reason'[s])
  <2>1. CASE end = "none"
    <3>1. HandedOf(pushed) = pushed
      BY <1>3, <1>8, <2>1
    <3> QED
      BY <1>4, <1>6, <1>8, <1>9, <1>10, <1>14, <2>1, <3>1 DEF Sound
  <2>2. CASE end # "none"
    <3>1. status'[s] = "done" /\ reason'[s] # "none"
      BY <1>4, <2>2
    <3>2. out'[s] = HandedOf(From(new, pl)) /\ NoEnd(out'[s])
      BY <1>4, <1>8, <1>10
    <3>3. reason'[s] = "eos" => out'[s] # From(new, pl)
      BY <1>3, <1>4, <1>8, <1>10
    <3> QED
      BY <1>14, <3>1, <3>2, <3>3 DEF Sound
  <2> QED
    BY <2>1, <2>2
<1>16. promptLen'[s] = pl /\ context'[s] = new
  BY <1>4, <1>9 DEF pl
<1>17. Sound(status'[s], context'[s], promptLen'[s], kv'[s], draft'[s], out'[s], reason'[s])
  BY <1>15, <1>16
<1>18. SessionOK(s)'
  BY <1>17 DEF SessionOK, Sound, DraftOK, Holds, HandedOf, Pre, Front, From, NoEnd, Cache
<1> QED
  BY <1>10, <1>11, <1>12, <1>13, <1>16, <1>18

\* A round keeps the invariant.
LEMMA RoundKeeps == ASSUME Inv, Round PROVE Inv'
<1>1. /\ Shapes
      /\ \A s \in Active : \E pushed, end : Outcome(s, pushed, end) /\ Settled(s, pushed, end)
      /\ \A s \in Session \ Active : Same(s)
      /\ promptLen' = promptLen /\ reuse' = reuse /\ UNCHANGED store /\ drafter' = drafter
  BY DEF Round
<1>2. StoreOK'
  BY <1>1, StoreSame DEF Inv
<1>3. ASSUME NEW s \in Session
      PROVE  /\ SessionOK(s)'
             /\ status'[s] \in {"new", "prefill", "decode", "done", "failed"}
             /\ context'[s] \in Seq(Token) /\ kv'[s] \in Cache /\ draft'[s] \in Cache \cup {None}
             /\ out'[s] \in Seq(Token) /\ reason'[s] \in {"none", "eos", "length", "full"}
  <2>1. CASE s \in Active
    <3>1. PICK pushed, end : Outcome(s, pushed, end) /\ Settled(s, pushed, end)
      BY <1>1, <2>1
    <3>2. SessionOK(s)' /\ context'[s] \in Seq(Token) /\ out'[s] \in Seq(Token)
      BY <1>1, <2>1, <3>1, OutcomeSound
    <3>3. end \in {"none", "eos", "length", "full"}
      BY <3>1 DEF Outcome
    <3> QED
      BY <3>1, <3>2, <3>3 DEF Settled
  <2>2. CASE s \notin Active
    <3>1. Same(s) /\ SessionOK(s) /\ promptLen'[s] = promptLen[s]
      BY <1>1, <2>2 DEF Inv
    <3>2. SessionOK(s)'
      BY <3>1, SameSound
    <3> QED
      BY <3>1, <3>2 DEF Same, Inv, Types
  <2> QED
    BY <2>1, <2>2
<1>4. Types'
  <2>1. status' \in [Session -> {"new", "prefill", "decode", "done", "failed"}]
    BY <1>1, <1>3 DEF Shapes
  <2>2. context' \in [Session -> Seq(Token)] /\ out' \in [Session -> Seq(Token)]
    BY <1>1, <1>3 DEF Shapes
  <2>3. kv' \in [Session -> Cache] /\ draft' \in [Session -> Cache \cup {None}]
    BY <1>1, <1>3 DEF Shapes
  <2>4. reason' \in [Session -> {"none", "eos", "length", "full"}]
    BY <1>1, <1>3 DEF Shapes
  <2>5. Cache' = Cache
    BY DEF Cache
  <2> QED
    BY <1>1, <2>1, <2>2, <2>3, <2>4, <2>5 DEF Types, Inv
<1> QED
  BY <1>2, <1>3, <1>4 DEF Inv

\* An action of one session keeps the invariant if it leaves that session sound, keeps
\* the types and the prompt cache, and touches no other session.
LEMMA OneMoves ==
  ASSUME Inv, NEW s \in Session, Types', StoreOK',
         Sound(status'[s], context'[s], promptLen'[s], kv'[s], draft'[s], out'[s], reason'[s]),
         \A r \in Session \ {s} : Same(r) /\ promptLen'[r] = promptLen[r]
  PROVE  Inv'
<1>1. ASSUME NEW r \in Session PROVE SessionOK(r)'
  <2>1. CASE r = s
    BY <2>1 DEF SessionOK, Sound, DraftOK, Holds, HandedOf, Pre, Front, From, NoEnd, Cache
  <2>2. CASE r # s
    <3>1. Same(r) /\ promptLen'[r] = promptLen[r] /\ SessionOK(r)
      BY <2>2 DEF Inv
    <3> QED
      BY <3>1, SameSound
  <2> QED
    BY <2>1, <2>2
<1> QED
  BY <1>1 DEF Inv

\* A session that has not begun is sound.
LEMMA NothingYet ==
  /\ Sound("new", <<>>, 0, Fresh, None, <<>>, "none")
  /\ <<>> \in Seq(Token) /\ Len(<<>>) = 0
<1>1. <<>> \in Seq(Token) /\ Len(<<>>) = 0
  BY EmptySeq
<1>2. MaxContext \in Nat /\ MaxTokens \in Nat
  BY DecodeAssumption
<1>3. 0 <= Len(<<>>) /\ Len(<<>>) <= MaxContext /\ Len(<<>>) - 0 <= MaxTokens
  BY <1>1, <1>2
<1> QED
  BY <1>1, <1>3 DEF Sound

\* An empty prompt cache is sound.
LEMMA EmptyStore ==
  ASSUME cached = << >>, recency = <<>>, held = 0, limits \in CacheLimits
  PROVE  StoreOK
<1>1. recency \in Seq(Seq(Token)) /\ Len(recency) = 0 /\ DOMAIN recency = {} /\ DOMAIN cached = {}
  <2>1. <<>> \in Seq(Seq(Token)) /\ Len(<<>>) = 0
    BY EmptySeq
  <2>2. DOMAIN <<>> = {}
    BY <2>1, LenProperties
  <2> QED
    BY <2>1, <2>2
<1>2. IsInjective(recency) /\ Range(recency) = DOMAIN cached
  BY <1>1 DEF IsInjective, Range
<1>3. cached \in [DOMAIN cached -> Cache]
  <2>1. cached = [q \in {} |-> Fresh]
    OBVIOUS
  <2> QED
    BY <2>1
<1>4. held = Total(Sizes(cached))
  <2>1. PICK f : f = Sizes(cached)
    OBVIOUS
  <2>2. DOMAIN f = {}
    BY <1>1, <2>1 DEF Sizes
  <2>3. Total(f) = Sum(f, {}) /\ Sum(f, {}) = 0
    BY <2>2, SumTotal, SumNone
  <2> QED
    BY <2>1, <2>3
<1>5. limits.entries \in Nat \ {0} /\ limits.bytes \in Nat
  BY DecodeAssumption
<1>6. held <= limits.bytes /\ Len(recency) <= limits.entries
  BY <1>1, <1>5
<1> QED
  BY <1>1, <1>2, <1>3, <1>4, <1>6 DEF StoreOK

\* The invariant holds at first.
LEMMA InitInv == ASSUME Init PROVE Inv
<1>1. MaxContext \in Nat /\ 0 \in 0..MaxContext
  BY DecodeAssumption
<1>2. <<>> \in Seq(Token) /\ Fresh \in Cache
  BY NothingYet, FreshHolds
<1>3. Types
  BY <1>1, <1>2 DEF Init, Types
<1>4. \A s \in Session : SessionOK(s)
  BY NothingYet DEF Init, SessionOK
<1>5. StoreOK
  BY EmptyStore DEF Init
<1> QED
  BY <1>3, <1>4, <1>5 DEF Inv

\* A request that starts: its cache is empty or the entry of its prompt but for the last
\* token (start_incremental).
LEMMA StartKeeps == ASSUME Inv, NEW s \in Session, Start(s) PROVE Inv'
<1>1. PICK p \in Prompts :
        /\ p # <<>> /\ Len(p) < MaxContext
        /\ status' = [status EXCEPT ![s] = "prefill"]
        /\ context' = [context EXCEPT ![s] = p]
        /\ promptLen' = [promptLen EXCEPT ![s] = Len(p)]
        /\ kv' = [kv EXCEPT ![s] = IF Front(p) \in DOMAIN cached THEN cached[Front(p)] ELSE Fresh]
        /\ reuse' = [reuse EXCEPT ![s] = Front(p) # <<>> /\ ~(Front(p) \in DOMAIN cached)]
        /\ recency' = IF Front(p) \in DOMAIN cached
                      THEN Append(Without(recency, Front(p)), Front(p)) ELSE recency
  BY DEF Start
<1>2. status[s] = "new" /\ UNCHANGED <<draft, out, reason, cached, held, limits, drafter>>
  BY DEF Start
<1>3. p \in Seq(Token) /\ MaxContext \in Nat /\ MaxTokens \in Nat
  BY DecodeAssumption
<1>4. /\ Front(p) = Pre(p, Len(p) - 1) /\ Len(p) - 1 \in 0..Len(p) /\ Len(p) \in Nat \ {0}
      /\ Front(p) \in Seq(Token)
  BY <1>1, <1>3, FrontIs
<1>5. PICK c : c = IF Front(p) \in DOMAIN cached THEN cached[Front(p)] ELSE Fresh
  OBVIOUS
<1>6. c \in Cache /\ \E n \in 0..(Len(p) - 1) : Holds(c, Pre(p, n))
  <2>1. CASE Front(p) \in DOMAIN cached
    <3>1. c \in Cache /\ Holds(c, Pre(p, Len(p) - 1))
      BY <1>4, <1>5, <2>1 DEF Inv, StoreOK
    <3>2. Len(p) - 1 \in 0..(Len(p) - 1)
      BY <1>4
    <3> QED
      BY <3>1, <3>2
  <2>2. CASE Front(p) \notin DOMAIN cached
    <3>1. c \in Cache /\ Holds(c, Pre(p, 0))
      BY <1>5, <2>2, FreshHolds, PreNone
    <3>2. 0 \in 0..(Len(p) - 1)
      BY <1>4
    <3> QED
      BY <3>1, <3>2
  <2> QED
    BY <2>1, <2>2
<1>7. draft[s] = None /\ out[s] = <<>> /\ reason[s] = "none"
  BY <1>2 DEF Inv, SessionOK, Sound
<1>8. Sound("prefill", p, Len(p), c, None, <<>>, "none")
  <2>1. Len(p) <= Len(p) /\ Len(p) <= MaxContext /\ Len(p) - Len(p) <= MaxTokens /\ Len(p) > 0
    BY <1>1, <1>3, <1>4
  <2> QED
    BY <1>6, <2>1 DEF Sound
<1>9. /\ status'[s] = "prefill" /\ context'[s] = p /\ promptLen'[s] = Len(p) /\ kv'[s] = c
      /\ draft'[s] = None /\ out'[s] = <<>> /\ reason'[s] = "none"
  BY <1>1, <1>2, <1>5, <1>7 DEF Inv, Types
<1>10. Sound(status'[s], context'[s], promptLen'[s], kv'[s], draft'[s], out'[s], reason'[s])
  BY <1>8, <1>9
<1>11. Types'
  <2>1. Len(p) \in 0..MaxContext
    BY <1>1, <1>3, <1>4
  <2>2. status' \in [Session -> {"new", "prefill", "decode", "done", "failed"}]
    BY <1>1 DEF Inv, Types
  <2>3. context' \in [Session -> Seq(Token)] /\ promptLen' \in [Session -> 0..MaxContext]
    BY <1>1, <1>3, <2>1 DEF Inv, Types
  <2>4. kv' \in [Session -> Cache]
    BY <1>1, <1>5, <1>6 DEF Inv, Types
  <2>5. reuse' \in [Session -> BOOLEAN]
    <3>1. (Front(p) # <<>> /\ ~(Front(p) \in DOMAIN cached)) \in BOOLEAN
      OBVIOUS
    <3> QED
      BY <1>1, <3>1 DEF Inv, Types
  <2>6. Cache' = Cache
    BY DEF Cache
  <2> QED
    BY <1>2, <2>2, <2>3, <2>4, <2>5, <2>6 DEF Inv, Types
<1>12. StoreOK'
  <2>1. /\ recency \in Seq(Seq(Token)) /\ IsInjective(recency) /\ Range(recency) = DOMAIN cached
        /\ Len(recency) <= limits.entries
    BY DEF Inv, StoreOK
  <2>2. /\ recency' \in Seq(Seq(Token)) /\ IsInjective(recency') /\ Range(recency') = DOMAIN cached
        /\ Len(recency') = Len(recency)
    <3>1. CASE Front(p) \in DOMAIN cached
      <4>1. PICK q : q = Append(Without(recency, Front(p)), Front(p))
        OBVIOUS
      <4>2. /\ q \in Seq(Seq(Token)) /\ IsInjective(q) /\ Range(q) = Range(recency) \cup {Front(p)}
            /\ Len(q) = IF Front(p) \in Range(recency) THEN Len(recency) ELSE Len(recency) + 1
        BY <1>4, <2>1, <4>1, Renewed
      <4> QED
        BY <1>1, <2>1, <3>1, <4>1, <4>2
    <3>2. CASE Front(p) \notin DOMAIN cached
      BY <1>1, <2>1, <3>2
    <3> QED
      BY <3>1, <3>2
  <2>3. /\ cached \in [DOMAIN cached -> Cache] /\ \A q \in DOMAIN cached : Holds(cached[q], q)
        /\ limits \in CacheLimits /\ held = Total(Sizes(cached)) /\ held <= limits.bytes
    BY DEF Inv, StoreOK
  <2>4. cached' = cached /\ held' = held /\ limits' = limits /\ Cache' = Cache
    BY <1>2 DEF Cache
  <2>5. /\ cached' \in [DOMAIN cached' -> Cache]
        /\ \A q \in DOMAIN cached' : Holds(cached'[q], q)
        /\ limits' \in CacheLimits /\ held' = Total(Sizes(cached')) /\ held' <= limits'.bytes
    BY <2>3, <2>4
  <2>6. IsInjective(recency') /\ Range(recency') = DOMAIN cached' /\ Len(recency') <= limits'.entries
    BY <2>1, <2>2, <2>4
  <2> QED
    BY <2>2, <2>5, <2>6 DEF StoreOK, Holds, Sizes, Cache, Size
<1>13. \A r \in Session \ {s} : Same(r) /\ promptLen'[r] = promptLen[r]
  BY <1>1, <1>2 DEF Same, Inv, Types
<1> QED
  BY <1>10, <1>11, <1>12, <1>13, OneMoves

\* An empty or oversized prompt is refused.
LEMMA RefuseKeeps == ASSUME Inv, NEW s \in Session, Refuse(s) PROVE Inv'
<1>1. /\ status' = [status EXCEPT ![s] = "failed"]
      /\ UNCHANGED <<context, promptLen, kv, draft, reuse, out, reason, store, drafter>>
  BY DEF Refuse
<1>2. StoreOK'
  BY <1>1, StoreSame DEF Inv
<1>3. Types'
  BY <1>1 DEF Inv, Types, Cache
<1>4. /\ status'[s] = "failed" /\ context'[s] = context[s] /\ promptLen'[s] = promptLen[s]
      /\ SessionOK(s)
  BY <1>1 DEF Inv, Types
<1>5. Sound(status'[s], context'[s], promptLen'[s], kv'[s], draft'[s], out'[s], reason'[s])
  BY <1>4 DEF SessionOK, Sound
<1>6. \A r \in Session \ {s} : Same(r) /\ promptLen'[r] = promptLen[r]
  BY <1>1 DEF Same, Inv, Types
<1> QED
  BY <1>2, <1>3, <1>5, <1>6, OneMoves

\* A prefill that fails leaves nothing behind.
LEMMA PrefillFailsKeeps == ASSUME Inv, NEW s \in Session, PrefillFails(s) PROVE Inv'
<1>1. /\ status' = [status EXCEPT ![s] = "failed"] /\ kv' = [kv EXCEPT ![s] = Fresh]
      /\ UNCHANGED <<context, promptLen, draft, reuse, out, reason, store, drafter>>
  BY DEF PrefillFails
<1>2. StoreOK'
  BY <1>1, StoreSame DEF Inv
<1>3. Types'
  BY <1>1, FreshHolds DEF Inv, Types, Cache
<1>4. /\ status'[s] = "failed" /\ context'[s] = context[s] /\ promptLen'[s] = promptLen[s]
      /\ SessionOK(s)
  BY <1>1 DEF Inv, Types
<1>5. Sound(status'[s], context'[s], promptLen'[s], kv'[s], draft'[s], out'[s], reason'[s])
  BY <1>4 DEF SessionOK, Sound
<1>6. \A r \in Session \ {s} : Same(r) /\ promptLen'[r] = promptLen[r]
  BY <1>1 DEF Same, Inv, Types
<1> QED
  BY <1>2, <1>3, <1>5, <1>6, OneMoves

\* A piece of the prompt, and the last one (advance_prefill, finish_prefill).
LEMMA PrefillKeeps == ASSUME Inv, NEW s \in Session, Prefill(s) PROVE Inv'
<1> DEFINE ctx == context[s]
           prefix == Front(ctx)
           consumed == Len(kv[s][1])
<1>1. /\ status[s] = "prefill"
      /\ UNCHANGED <<context, promptLen, draft, reuse, out, reason, drafter>>
      /\ \/ /\ Absorbed(consumed, prefix)
            /\ status' = [status EXCEPT ![s] = "decode"]
            /\ UNCHANGED <<kv, store>>
         \/ \E target \in (consumed + 1)..Len(prefix) :
               LET c == Fed(kv[s], SubSeq(ctx, 1, target))
                   whole == Absorbed(target, prefix)
               IN  /\ kv' = [kv EXCEPT ![s] = c]
                   /\ \/ UNCHANGED store
                      \/ whole /\ reuse[s] /\ Insert(prefix, c)
                   /\ status' = IF whole THEN [status EXCEPT ![s] = "decode"] ELSE status
  BY DEF Prefill
<1>2. /\ ctx \in Seq(Token) /\ kv[s] \in Cache
      /\ status \in [Session -> {"new", "prefill", "decode", "done", "failed"}]
      /\ kv \in [Session -> Cache]
  BY DEF Inv, Types
<1>3. Sound("prefill", ctx, promptLen[s], kv[s], draft[s], out[s], reason[s])
  BY <1>1 DEF Inv, SessionOK
<1>4. /\ Len(ctx) <= MaxContext /\ promptLen[s] = Len(ctx) /\ Len(ctx) > 0
      /\ draft[s] = None /\ out[s] = <<>> /\ reason[s] = "none"
      /\ Len(ctx) - promptLen[s] <= MaxTokens
  BY <1>3 DEF Sound
<1>5. PICK n \in 0..(Len(ctx) - 1) : Holds(kv[s], Pre(ctx, n))
  BY <1>3 DEF Sound
<1>6. ctx # <<>> /\ Len(ctx) \in Nat \ {0}
  BY <1>2, <1>4, LenProperties, EmptySeq
<1>7. prefix = Pre(ctx, Len(ctx) - 1) /\ prefix \in Seq(Token) /\ Len(prefix) = Len(ctx) - 1
  BY <1>2, <1>6, FrontIs
<1>8. consumed = n
  <2>1. kv[s][1] = Pre(ctx, n)
    BY <1>5, LayerFinite DEF Holds
  <2>2. n \in 0..Len(ctx)
    BY <1>6
  <2> QED
    BY <1>2, <2>1, <2>2, PreIs
\* A cache that holds the prompt but for its last token lets the session decode.
<1>9. ASSUME NEW c, Holds(c, prefix)
      PROVE  Sound("decode", ctx, promptLen[s], c, draft[s], out[s], reason[s])
  <2>1. DraftOK(draft[s], ctx)
    BY <1>4 DEF DraftOK
  <2>2. From(ctx, promptLen[s]) = <<>>
    <3>1. Len(ctx) \in 0..Len(ctx)
      BY <1>6
    <3>2. Len(From(ctx, Len(ctx))) = Len(ctx) - Len(ctx) /\ From(ctx, Len(ctx)) \in Seq(Token)
      BY <1>2, <3>1, FromIs
    <3>3. Len(From(ctx, Len(ctx))) = 0
      BY <1>6, <3>2
    <3> QED
      BY <1>4, <3>2, <3>3, EmptySeq
  <2>3. NoEnd(<<>>)
    <3>1. DOMAIN <<>> = {}
      BY EmptySeq, LenProperties
    <3> QED
      BY <3>1 DEF NoEnd
  <2>4. promptLen[s] <= Len(ctx) /\ promptLen[s] > 0
    BY <1>4, <1>6
  <2> QED
    BY <1>4, <1>9, <2>1, <2>2, <2>3, <2>4 DEF Sound
<1>10. ASSUME NEW c, c \in Cache, NEW st \in {"prefill", "decode"},
              StoreOK', kv' = [kv EXCEPT ![s] = c], status' = [status EXCEPT ![s] = st],
              Sound(st, ctx, promptLen[s], c, draft[s], out[s], reason[s])
       PROVE  Inv'
  <2>1. Types'
    <3>1. kv' \in [Session -> Cache]
      BY <1>2, <1>10
    <3>2. status' \in [Session -> {"new", "prefill", "decode", "done", "failed"}]
      BY <1>2, <1>10
    <3>3. Cache' = Cache
      BY DEF Cache
    <3> QED
      BY <1>1, <3>1, <3>2, <3>3 DEF Inv, Types
  <2>2. Sound(status'[s], context'[s], promptLen'[s], kv'[s], draft'[s], out'[s], reason'[s])
    <3>1. status'[s] = st /\ kv'[s] = c
      BY <1>2, <1>10
    <3>2. /\ context'[s] = ctx /\ promptLen'[s] = promptLen[s] /\ draft'[s] = draft[s]
          /\ out'[s] = out[s] /\ reason'[s] = reason[s]
      BY <1>1
    <3> QED
      BY <1>10, <3>1, <3>2
  <2>3. \A r \in Session \ {s} : Same(r) /\ promptLen'[r] = promptLen[r]
    <3>1. \A r \in Session \ {s} : status'[r] = status[r] /\ kv'[r] = kv[r]
      BY <1>2, <1>10
    <3> QED
      BY <1>1, <3>1 DEF Same
  <2> QED
    BY <1>10, <2>1, <2>2, <2>3, OneMoves
<1>11. CASE /\ Absorbed(consumed, prefix)
            /\ status' = [status EXCEPT ![s] = "decode"]
            /\ UNCHANGED <<kv, store>>
  <2>1. n = Len(ctx) - 1
    BY <1>6, <1>7, <1>8, <1>11 DEF Absorbed
  <2>2. Sound("decode", ctx, promptLen[s], kv[s], draft[s], out[s], reason[s])
    BY <1>5, <1>7, <1>9, <2>1
  <2>3. StoreOK'
    BY <1>11, StoreSame DEF Inv
  <2>4. kv' = [kv EXCEPT ![s] = kv[s]]
    BY <1>2, <1>11
  <2> QED
    BY <1>2, <1>10, <1>11, <2>2, <2>3, <2>4
<1>12. CASE \E target \in (consumed + 1)..Len(prefix) :
               LET c == Fed(kv[s], SubSeq(ctx, 1, target))
                   whole == Absorbed(target, prefix)
               IN  /\ kv' = [kv EXCEPT ![s] = c]
                   /\ \/ UNCHANGED store
                      \/ whole /\ reuse[s] /\ Insert(prefix, c)
                   /\ status' = IF whole THEN [status EXCEPT ![s] = "decode"] ELSE status
  <2>1. PICK target \in (consumed + 1)..Len(prefix) :
           /\ kv' = [kv EXCEPT ![s] = Fed(kv[s], SubSeq(ctx, 1, target))]
           /\ \/ UNCHANGED store
              \/ /\ Absorbed(target, prefix) /\ reuse[s]
                 /\ Insert(prefix, Fed(kv[s], SubSeq(ctx, 1, target)))
           /\ status' = IF Absorbed(target, prefix) THEN [status EXCEPT ![s] = "decode"]
                        ELSE status
    BY <1>12
  <2>2. target \in 0..Len(ctx) /\ n \in 0..target /\ target \in 0..(Len(ctx) - 1) /\ n \in 0..Len(ctx)
    BY <1>6, <1>7, <1>8
  <2>3. PICK w : w = Pre(ctx, target)
    OBVIOUS
  <2>4. w \in Seq(Token) /\ Len(w) = target /\ Pre(w, n) = Pre(ctx, n)
    <3>1. w \in Seq(Token) /\ Len(w) = target
      BY <1>2, <2>2, <2>3, PreIs
    <3>2. Pre(Pre(ctx, target), n) = Pre(ctx, n)
      BY <1>2, <2>2, PrePre
    <3> QED
      BY <2>3, <3>1, <3>2
  <2>5. PICK c : c = Fed(kv[s], w)
    OBVIOUS
  <2>6. c \in Cache /\ Holds(c, w)
    <3>1. n \in 0..Len(w) /\ Holds(kv[s], Pre(w, n))
      BY <1>5, <2>2, <2>4
    <3> QED
      BY <1>2, <2>4, <2>5, <3>1, FedHolds
  <2>7. SubSeq(ctx, 1, target) = w
    BY <2>3 DEF Pre
  <2>8. kv' = [kv EXCEPT ![s] = c]
    BY <2>1, <2>5, <2>7
  <2>9. CASE Absorbed(target, prefix)
    <3>1. target = Len(ctx) - 1
      BY <1>6, <1>7, <2>2, <2>9 DEF Absorbed
    <3>2. Holds(c, prefix)
      BY <1>7, <2>3, <2>6, <3>1
    <3>3. StoreOK'
      <4>1. CASE UNCHANGED store
        BY <4>1, StoreSame DEF Inv
      <4>2. CASE Insert(prefix, Fed(kv[s], SubSeq(ctx, 1, target)))
        <5>1. Insert(prefix, c)
          BY <2>5, <2>7, <4>2
        <5>2. StoreOK
          BY DEF Inv
        <5> QED
          BY <1>7, <2>6, <3>2, <5>1, <5>2, InsertKeeps
      <4> QED
        BY <2>1, <4>1, <4>2
    <3>4. Sound("decode", ctx, promptLen[s], c, draft[s], out[s], reason[s])
      BY <1>9, <3>2
    <3>5. status' = [status EXCEPT ![s] = "decode"]
      BY <2>1, <2>9
    <3> QED
      BY <1>10, <2>6, <2>8, <3>3, <3>4, <3>5
  <2>10. CASE ~Absorbed(target, prefix)
    <3>1. StoreOK'
      BY <2>1, <2>10, StoreSame DEF Inv
    <3>2. Sound("prefill", ctx, promptLen[s], c, draft[s], out[s], reason[s])
      <4>1. Holds(c, Pre(ctx, target))
        BY <2>3, <2>6
      <4>2. promptLen[s] <= Len(ctx) /\ promptLen[s] > 0
        BY <1>4, <1>6
      <4> QED
        BY <1>4, <2>2, <4>1, <4>2 DEF Sound
    <3>3. status' = [status EXCEPT ![s] = "prefill"]
      BY <1>1, <1>2, <2>1, <2>10
    <3> QED
      BY <1>10, <2>6, <2>8, <3>1, <3>2, <3>3
  <2> QED
    BY <2>9, <2>10
<1> QED
  BY <1>1, <1>11, <1>12

\* The invariant speaks of the variables and nothing else.
LEMMA SameInv == ASSUME Inv, UNCHANGED vars PROVE Inv'
<1>1. /\ UNCHANGED store
      /\ UNCHANGED <<status, context, promptLen, kv, draft, reuse, out, reason, drafter>>
  BY DEF vars
<1>2. StoreOK'
  BY <1>1, StoreSame DEF Inv
<1>3. Types'
  BY <1>1 DEF Inv, Types, Cache
<1>4. ASSUME NEW s \in Session PROVE SessionOK(s)'
  <2>1. Same(s) /\ promptLen'[s] = promptLen[s] /\ SessionOK(s)
    BY <1>1 DEF Same, Inv
  <2> QED
    BY <2>1, SameSound
<1> QED
  BY <1>2, <1>3, <1>4 DEF Inv

\* Every step keeps the invariant.
LEMMA NextKeeps == ASSUME Inv, [Next]_vars PROVE Inv'
<1>1. CASE BatchRound \/ BatchFallback
  BY <1>1, BatchIsRound, RoundKeeps
<1>2. ASSUME NEW s \in Session, SpecRound(s) PROVE Inv'
  BY <1>2, SpecIsRound, RoundKeeps
<1>3. ASSUME NEW s \in Session, Prefill(s) PROVE Inv'
  BY <1>3, PrefillKeeps
<1>4. ASSUME NEW s \in Session, PrefillFails(s) PROVE Inv'
  BY <1>4, PrefillFailsKeeps
<1>5. ASSUME NEW s \in Session, Start(s) PROVE Inv'
  BY <1>5, StartKeeps
<1>6. ASSUME NEW s \in Session, Refuse(s) PROVE Inv'
  BY <1>6, RefuseKeeps
<1>7. CASE UNCHANGED vars
  BY <1>7, SameInv
<1> QED
  BY <1>1, <1>2, <1>3, <1>4, <1>5, <1>6, <1>7 DEF Next, Loop, Idle

\* Whatever is started, guessed, kept, cut, cached or fails: every session and the prompt
\* cache stay sound.
THEOREM Inductive == Spec => []Inv
<1>1. Init => Inv
  BY InitInv
<1>2. Inv /\ [Next]_vars => Inv'
  BY NextKeeps
<1> QED
  BY <1>1, <1>2, PTL DEF Spec

-----------------------------------------------------------------------------
(* What generation guarantees.                                             *)

\* Every variable keeps its type, and a session stays within the context window and the
\* token budget, whatever a round brings (next_token, next_tokens_speculative).
THEOREM TypeOKAlways == Spec => []TypeOK
<1>1. Inv => TypeOK
  <2> SUFFICES ASSUME Inv PROVE TypeOK
    OBVIOUS
  <2>1. held \in Nat
    <3>1. IsFiniteSet(DOMAIN cached)
      BY RangeFinite DEF Inv, StoreOK
    <3>2. PICK f : f = Sizes(cached)
      OBVIOUS
    <3>3. DOMAIN f = DOMAIN cached /\ \A q \in DOMAIN f : f[q] \in Nat
      BY <3>2, SizeNat DEF Inv, StoreOK, Sizes
    <3>4. Sum(f, DOMAIN f) \in Nat
      BY <3>1, <3>3, SumNat
    <3> QED
      BY <3>2, <3>4, SumTotal DEF Inv, StoreOK
  <2>2. DOMAIN cached \subseteq Seq(Token)
    <3> SUFFICES ASSUME NEW q \in DOMAIN cached PROVE q \in Seq(Token)
      OBVIOUS
    <3>1. recency \in Seq(Seq(Token)) /\ Range(recency) = DOMAIN cached
      BY DEF Inv, StoreOK
    <3>2. \A i \in DOMAIN recency : recency[i] \in Seq(Token)
      BY <3>1, LenProperties
    <3> QED
      BY <3>1, <3>2 DEF Range
  <2>3. ASSUME NEW s \in Session PROVE Len(context[s]) <= MaxContext /\ Generated(s) <= MaxTokens
    BY DEF Inv, SessionOK, Sound, Generated
  <2> QED
    BY <2>1, <2>2, <2>3 DEF Inv, Types, StoreOK, TypeOK
<1> QED
  BY <1>1, Inductive, PTL

\* Between rounds every layer of a decoding session has absorbed exactly the context but
\* for its last token, whatever was guessed, kept, cut or retried.
THEOREM InStepAlways == Spec => []InStep
<1>1. Inv => InStep
  BY DEF Inv, SessionOK, Sound, InStep, Active
<1> QED
  BY <1>1, Inductive, PTL

\* An entry of the prompt cache describes exactly the prefix it is found under, in every
\* layer (PromptCache::insert, start_incremental).
THEOREM CachedExactlyAlways == Spec => []CachedExactly
<1>1. Inv => CachedExactly
  BY DEF Inv, StoreOK, CachedExactly
<1> QED
  BY <1>1, Inductive, PTL

\* The prompt cache's byte count is what its entries take, and both of its bounds hold,
\* through hits, replacement and eviction (PromptCache::insert).
THEOREM CacheBoundedAlways == Spec => []CacheBounded
<1>1. Inv => CacheBounded
  BY DEF Inv, StoreOK, CacheBounded, Sizes
<1> QED
  BY <1>1, Inductive, PTL

\* The caller has been handed exactly what was generated, but for an end token
\* (next_token, next_tokens_speculative, next_token_batch).
THEOREM HandedAlways == Spec => []Handed
<1>1. Inv => Handed
  <2> SUFFICES ASSUME Inv, NEW s \in Session, status[s] \in {"decode", "done"}
               PROVE  LET reply == SubSeq(context[s], promptLen[s] + 1, Len(context[s]))
                      IN  /\ out[s] = IF reply # <<>> /\ reply[Len(reply)] \in EndTokens
                                      THEN Front(reply) ELSE reply
                          /\ \A i \in DOMAIN out[s] : out[s][i] \notin EndTokens
                          /\ reason[s] = "eos" => out[s] # reply
    BY DEF Handed
  <2>1. PICK q : q = From(context[s], promptLen[s])
    OBVIOUS
  <2>2. SessionOK(s) /\ out[s] \in Seq(Token)
    BY DEF Inv, Types
  <2>3. out[s] = HandedOf(q) /\ NoEnd(out[s]) /\ (reason[s] = "eos" => out[s] # q)
    <3>1. CASE status[s] = "decode"
      <4>1. out[s] = q /\ NoEnd(q) /\ reason[s] = "none" /\ q \in Seq(Token)
        BY <2>1, <2>2, <3>1 DEF SessionOK, Sound
      <4>2. q # <<>> => Len(q) \in DOMAIN q
        BY <4>1, EmptySeq, LenProperties
      <4>3. HandedOf(q) = q
        BY <4>1, <4>2 DEF HandedOf, NoEnd
      <4> QED
        BY <4>1, <4>3
    <3>2. CASE status[s] = "done"
      BY <2>1, <2>2, <3>2 DEF SessionOK, Sound
    <3> QED
      BY <3>1, <3>2
  <2>4. SubSeq(context[s], promptLen[s] + 1, Len(context[s])) = q
    BY <2>1 DEF From
  <2> QED
    BY <2>3, <2>4 DEF HandedOf, NoEnd
<1> QED
  BY <1>1, Inductive, PTL

\* Every layer of the draft's cache holds the same proper prefix of the context
\* (Session::draft_seq, next_tokens_speculative).
THEOREM DraftTrailsAlways == Spec => []DraftTrails
<1>1. Inv => DraftTrails
  <2> SUFFICES ASSUME Inv, NEW s \in Active, draft[s] # None
               PROVE  \E n \in 0..(Len(context[s]) - 1) : Holds(draft[s], SubSeq(context[s], 1, n))
    BY DEF DraftTrails
  <2>1. DraftOK(draft[s], context[s])
    BY ActiveIs
  <2> QED
    BY <2>1 DEF DraftOK, Pre
<1> QED
  BY <1>1, Inductive, PTL

\* The steps that are no round leave every session that decodes alone.
LEMMA RoundOrNot ==
  ASSUME Inv, Next
  PROVE  Round \/ \A s \in Active : Same(s)
<1>1. CASE BatchRound \/ BatchFallback
  BY <1>1, BatchIsRound
<1>2. ASSUME NEW s \in Session, SpecRound(s) PROVE Round
  BY <1>2, SpecIsRound
<1>3. ASSUME NEW r \in Session, Prefill(r), NEW s \in Active PROVE Same(s)
  <2>1. status[r] = "prefill" /\ UNCHANGED <<context, draft, out, reason>>
    BY <1>3 DEF Prefill
  <2>2. s # r /\ s \in Session
    BY <2>1 DEF Active
  <2>3. /\ status' = [status EXCEPT ![r] = "decode"] \/ status' = status
        /\ (\E c : kv' = [kv EXCEPT ![r] = c]) \/ kv' = kv
    BY <1>3 DEF Prefill
  <2> QED
    BY <2>1, <2>2, <2>3 DEF Same, Inv, Types
<1>4. ASSUME NEW r \in Session, PrefillFails(r) \/ Start(r) \/ Refuse(r), NEW s \in Active
      PROVE  Same(s)
  <2>1. s # r /\ s \in Session
    BY <1>4 DEF Active, PrefillFails, Start, Refuse
  <2> QED
    BY <1>4, <2>1 DEF Same, Inv, Types, PrefillFails, Start, Refuse
<1>5. CASE UNCHANGED vars
  BY <1>5 DEF vars, Same
<1> QED
  BY <1>1, <1>2, <1>3, <1>4, <1>5 DEF Next, Loop, Idle

\* A round gives each session it steps between one and Lookahead + 1 tokens or ends it:
\* what the scheduler's bookkeeping takes for granted.
THEOREM RoundsAlwaysYield == Spec => RoundYields
<1> DEFINE Yields(s) ==
             \/ UNCHANGED <<status[s], kv[s]>>
             \/ /\ Len(out'[s]) - Len(out[s]) \in 0..(Lookahead + 1)
                /\ status'[s] = "done" \/ Len(out'[s]) > Len(out[s])
<1>1. ASSUME Inv, [Next]_vars, NEW s \in Active PROVE Yields(s)
  <2>1. CASE Round
    <3>1. PICK pushed, end : Outcome(s, pushed, end) /\ Settled(s, pushed, end)
      BY <2>1 DEF Round
    <3>2. promptLen'[s] = promptLen[s]
      BY <2>1 DEF Round
    <3>3. /\ Len(out'[s]) - Len(out[s]) \in 0..(Lookahead + 1)
          /\ end = "none" => Len(out'[s]) > Len(out[s])
      BY <1>1, <3>1, <3>2, OutcomeSound
    <3>4. end = "none" \/ status'[s] = "done"
      BY <3>1 DEF Settled
    <3> QED
      BY <3>3, <3>4
  <2>2. CASE Same(s)
    BY <2>2 DEF Same
  <2>3. CASE UNCHANGED vars
    BY <2>3 DEF vars
  <2> QED
    BY <1>1, <2>1, <2>2, <2>3, RoundOrNot
<1>2. Inv /\ [Next]_vars => [\A s \in Active : Yields(s)]_vars
  BY <1>1
<1> QED
  BY <1>2, Inductive, PTL DEF Spec, RoundYields

\* A session alone whose own passes do not fail is never ended by its guesses, recurrent
\* layers or not (begin_recording, LinearState::snapshot).
THEOREM GuessingAlwaysFree == Spec => GuessingIsFree
<1> DEFINE Free(s) ==
             /\ Active = {s} /\ reason'[s] = "full"
             => Len(context'[s]) = MaxContext /\ context'[s] = context[s]
<1>1. ASSUME Inv, [Next]_vars, NEW s \in Session \ Flaky PROVE Free(s)
  <2> SUFFICES ASSUME Active = {s}, reason'[s] = "full"
               PROVE  Len(context'[s]) = MaxContext /\ context'[s] = context[s]
    OBVIOUS
  <2>0. s \in Active /\ reason[s] = "none" /\ context[s] \in Seq(Token)
    BY <1>1 DEF Inv, Types, SessionOK, Sound, Active
  <2>1. CASE Round
    <3>1. PICK pushed, end : Outcome(s, pushed, end) /\ Settled(s, pushed, end)
      BY <2>0, <2>1 DEF Round
    <3>2. end = "full"
      BY <3>1 DEF Settled
    <3>3. pushed = <<>> /\ Len(context[s]) = MaxContext
      BY <3>1, <3>2 DEF Outcome
    <3>4. context'[s] = context[s] \o <<>>
      BY <3>1, <3>3 DEF Settled
    <3>5. context'[s] = context[s]
      BY <2>0, <3>4, ConcatEmptySeq
    <3> QED
      BY <3>3, <3>5
  <2>2. CASE Same(s)
    BY <2>0, <2>2 DEF Same
  <2>3. CASE UNCHANGED vars
    BY <2>0, <2>3 DEF vars
  <2> QED
    BY <1>1, <2>0, <2>1, <2>2, <2>3, RoundOrNot
<1>2. Inv /\ [Next]_vars => [\A s \in Session \ Flaky : Free(s)]_vars
  BY <1>1
<1> QED
  BY <1>2, Inductive, PTL DEF Spec, GuessingIsFree

-----------------------------------------------------------------------------
(* Generation implements plain decoding.                                   *)

\* Plain!Advance, without the states.
Grows(s, start, old, new, now) ==
  LET ended == Len(new) > Len(old) /\ new[Len(new)] \in EndTokens
  IN  /\ Len(new) \in Len(old)..(Len(old) + (Lookahead + 1))
      /\ Len(new) <= MaxTokens
      /\ Len(start) + Len(new) <= MaxContext
      /\ SubSeq(new, 1, Len(old)) = old
      /\ \A i \in (Len(old) + 1)..Len(new) :
            /\ s \in Greedy => new[i] = Choice(start \o SubSeq(new, 1, i - 1))
            /\ i < Len(new) => new[i] \notin EndTokens
      /\ \/ now = "failed"
         \/ now = "eos" /\ ended
         \/ now = "running" /\ ~ended /\ Len(new) > Len(old)
         \/ now = "length" /\ ~ended /\ Len(new) = MaxTokens
         \/ now = "full" /\ ~ended /\ Len(start) + Len(new) = MaxContext

\* What a round adds to a context takes the reply further as plain decoding does.
LEMMA Advances ==
  ASSUME NEW s, NEW ctx \in Seq(Token), NEW pl \in 0..Len(ctx), NEW pushed \in Seq(Token),
         Len(pushed) <= Lookahead + 1, Len(ctx) + Len(pushed) <= MaxContext,
         Len(ctx) - pl + Len(pushed) <= MaxTokens,
         \A i \in 1..(Len(pushed) - 1) : pushed[i] \notin EndTokens,
         s \in Greedy => \A i \in 1..Len(pushed) :
            pushed[i] = Choice(Pre(ctx \o pushed, Len(ctx) + i - 1)),
         NEW now,
         LET stopped == pushed # <<>> /\ pushed[Len(pushed)] \in EndTokens
         IN  \/ now = "failed"
             \/ now = "eos" /\ stopped
             \/ now = "running" /\ ~stopped /\ pushed # <<>>
             \/ now = "length" /\ ~stopped /\ Len(ctx) - pl + Len(pushed) = MaxTokens
             \/ now = "full" /\ ~stopped /\ Len(ctx) + Len(pushed) = MaxContext
  PROVE  Grows(s, Pre(ctx, pl), From(ctx, pl), From(ctx \o pushed, pl), now)
<1>1. Len(ctx) \in Nat /\ Len(pushed) \in Nat /\ pl \in Nat /\ pl <= Len(ctx)
      /\ Lookahead \in Nat /\ MaxTokens \in Nat /\ MaxContext \in Nat
  <2>1. Len(ctx) \in Nat /\ Len(pushed) \in Nat
    BY LenProperties
  <2> QED
    BY <2>1, DecodeAssumption
<1>2. PICK old : old = From(ctx, pl)
  OBVIOUS
<1>3. old \in Seq(Token) /\ Len(old) = Len(ctx) - pl
  BY <1>2, FromIs
<1>4. PICK new : new = old \o pushed
  OBVIOUS
<1>5. From(ctx \o pushed, pl) = new
  BY <1>2, <1>4, FromCat
<1>6. /\ new \in Seq(Token) /\ Len(new) = Len(old) + Len(pushed)
      /\ \A i \in 1..Len(old) : new[i] = old[i]
      /\ \A i \in 1..Len(pushed) : new[Len(old) + i] = pushed[i]
  <2>1. old \in Seq(Token) /\ pushed \in Seq(Token)
    BY <1>3
  <2>2. /\ old \o pushed \in Seq(Token) /\ Len(old \o pushed) = Len(old) + Len(pushed)
        /\ \A i \in 1..Len(old) : (old \o pushed)[i] = old[i]
        /\ \A i \in 1..Len(pushed) : (old \o pushed)[Len(old) + i] = pushed[i]
    BY ONLY <2>1, CatIs
  <2> QED
    BY ONLY <1>4, <2>2
<1>7. PICK start : start = Pre(ctx, pl)
  OBVIOUS
<1>8. Len(start) = pl
  BY <1>7, PreIs
<1>9. PICK all : all = ctx \o pushed
  OBVIOUS
<1>10. /\ all \in Seq(Token) /\ Len(all) = Len(ctx) + Len(pushed)
       /\ Pre(all, pl) = start /\ From(all, pl) = new /\ pl \in 0..Len(all)
  <2>1. all \in Seq(Token) /\ Len(all) = Len(ctx) + Len(pushed)
    BY <1>9, CatIs
  <2>2. Pre(all, pl) = start
    BY <1>7, <1>9, PreCat
  <2>3. pl \in 0..Len(all)
    BY <1>1, <2>1
  <2> QED
    BY <1>5, <1>9, <2>1, <2>2, <2>3
<1>11. Len(old) \in Nat /\ Len(new) \in Nat
  BY <1>3, <1>6, LenProperties
<1>12. /\ Len(new) \in Len(old)..(Len(old) + (Lookahead + 1))
       /\ Len(new) <= MaxTokens /\ Len(start) + Len(new) <= MaxContext
  <2>1. /\ Len(pushed) <= Lookahead + 1 /\ Len(ctx) + Len(pushed) <= MaxContext
        /\ Len(ctx) - pl + Len(pushed) <= MaxTokens
    OBVIOUS
  <2> QED
    BY ONLY <1>1, <1>3, <1>6, <1>8, <1>11, <2>1
<1>13. SubSeq(new, 1, Len(old)) = old
  <2>1. Len(old) \in 0..Len(new) /\ Len(old) <= Len(old) /\ Len(old) \in 0..Len(old)
    BY <1>1, <1>6, <1>11
  <2>2. Pre(old \o pushed, Len(old)) = Pre(old, Len(old))
    BY <1>3, <2>1, PreCat
  <2>3. Pre(old, Len(old)) = old
    BY <1>3, PreFull
  <2> QED
    BY <1>4, <2>2, <2>3 DEF Pre
<1>14. ASSUME NEW i \in (Len(old) + 1)..Len(new)
       PROVE  /\ s \in Greedy => new[i] = Choice(start \o SubSeq(new, 1, i - 1))
              /\ i < Len(new) => new[i] \notin EndTokens
  <2>1. PICK j : j = i - Len(old)
    OBVIOUS
  <2>2. j \in 1..Len(pushed) /\ i = Len(old) + j
    BY <1>1, <1>6, <1>11, <2>1
  <2>3. new[i] = pushed[j]
    BY <1>6, <2>2
  <2>4. i < Len(new) => j \in 1..(Len(pushed) - 1)
    BY <1>1, <1>6, <1>11, <2>2
  <2>5. i - 1 \in 0..(Len(all) - pl) /\ pl + (i - 1) = Len(ctx) + j - 1
    BY ONLY <1>1, <1>3, <1>6, <1>10, <1>11, <2>2
  <2>6. start \o Pre(new, i - 1) = Pre(all, pl + (i - 1))
    BY <1>10, <2>5, PreFrom
  <2>7. s \in Greedy => pushed[j] = Choice(Pre(all, Len(ctx) + j - 1))
    BY <1>9, <2>2
  <2>8. s \in Greedy => new[i] = Choice(start \o SubSeq(new, 1, i - 1))
    BY <2>3, <2>5, <2>6, <2>7 DEF Pre
  <2> QED
    BY <2>3, <2>4, <2>8
<1>15. (Len(new) > Len(old) /\ new[Len(new)] \in EndTokens)
       <=> (pushed # <<>> /\ pushed[Len(pushed)] \in EndTokens)
  <2>1. Len(new) > Len(old) <=> pushed # <<>>
    <3>1. Len(pushed) = 0 <=> pushed = <<>>
      BY EmptySeq
    <3> QED
      BY <1>1, <1>6, <1>11, <3>1
  <2>2. pushed # <<>> => new[Len(new)] = pushed[Len(pushed)]
    <3>1. pushed # <<>> => Len(pushed) \in 1..Len(pushed)
      BY <1>1, EmptySeq
    <3> QED
      BY <1>6, <3>1
  <2> QED
    BY <2>1, <2>2
<1>16. pushed # <<>> => Len(new) > Len(old)
  BY <1>1, <1>6, <1>11, EmptySeq
<1>17. /\ Len(ctx) - pl + Len(pushed) = MaxTokens => Len(new) = MaxTokens
       /\ Len(ctx) + Len(pushed) = MaxContext => Len(start) + Len(new) = MaxContext
  BY <1>1, <1>3, <1>6, <1>8, <1>11
<1>18. \/ now = "failed"
       \/ now = "eos" /\ (Len(new) > Len(old) /\ new[Len(new)] \in EndTokens)
       \/ now = "running" /\ ~(Len(new) > Len(old) /\ new[Len(new)] \in EndTokens) /\ Len(new) > Len(old)
       \/ now = "length" /\ ~(Len(new) > Len(old) /\ new[Len(new)] \in EndTokens) /\ Len(new) = MaxTokens
       \/ now = "full" /\ ~(Len(new) > Len(old) /\ new[Len(new)] \in EndTokens)
          /\ Len(start) + Len(new) = MaxContext
  BY <1>15, <1>16, <1>17
<1>19. Grows(s, start, old, new, now)
  BY <1>12, <1>13, <1>14, <1>18 DEF Grows
<1> QED
  BY <1>2, <1>5, <1>7, <1>19

\* The prompt and the reply of plain decoding.
PromptOf(s) == Pre(context[s], promptLen[s])
ReplyOf(s) == From(context[s], promptLen[s])

\* The steps of plain decoding, in the terms of this module.
Stays(s) == ReplyOf(s)' = ReplyOf(s) /\ State(s)' = State(s)
Goes(s) == State(s) = "running" /\ Grows(s, PromptOf(s), ReplyOf(s), ReplyOf(s)', State(s)')
Decodes ==
  /\ \A s \in Session : Stays(s) \/ Goes(s)
  /\ \A s \in Session : PromptOf(s)' = PromptOf(s)
Starts(s) ==
  /\ State(s) = "waiting" /\ State(s)' = "running" /\ PromptOf(s)' \in Prompts
  /\ ReplyOf(s)' = ReplyOf(s)
  /\ \A r \in Session \ {s} : Stays(r) /\ PromptOf(r)' = PromptOf(r)
Refuses(s) ==
  /\ State(s) = "waiting" /\ State(s)' = "failed"
  /\ ReplyOf(s)' = ReplyOf(s) /\ PromptOf(s)' = PromptOf(s)
  /\ \A r \in Session \ {s} : Stays(r) /\ PromptOf(r)' = PromptOf(r)

\* A step that takes some sessions further is one of plain decoding.
LEMMA DecodesIs == ASSUME Decodes PROVE Plain!Decode
<1> DEFINE prompt == [s \in Session |-> SubSeq(context[s], 1, promptLen[s])]
           reply == [s \in Session |-> SubSeq(context[s], promptLen[s] + 1, Len(context[s]))]
           state == [s \in Session |-> State(s)]
<1>1. \A s \in Session : prompt[s] = PromptOf(s) /\ reply[s] = ReplyOf(s) /\ state[s] = State(s)
  BY DEF PromptOf, ReplyOf, Pre, From
<1>2. \A s \in Session : reply'[s] = ReplyOf(s)' /\ state'[s] = State(s)'
  BY DEF ReplyOf, From
<1>3. prompt' = prompt
  BY DEF Decodes, PromptOf, Pre
<1>4. ASSUME NEW s \in Session
      PROVE  \/ reply'[s] = reply[s] /\ state'[s] = state[s]
             \/ Plain!Advance(s, reply'[s], state'[s])
  <2>1. CASE Stays(s)
    BY <1>1, <1>2, <2>1 DEF Stays
  <2>2. CASE Goes(s)
    <3>1. Grows(s, prompt[s], reply[s], reply'[s], state'[s]) /\ state[s] = "running"
      BY <1>1, <1>2, <2>2 DEF Goes
    <3>2. PICK start, old, new, now :
             start = prompt[s] /\ old = reply[s] /\ new = reply'[s] /\ now = state'[s]
      OBVIOUS
    <3>3. Grows(s, start, old, new, now)
      BY <3>1, <3>2
    <3>4. Plain!Advance(s, new, now)
      BY <3>1, <3>2, <3>3 DEF Grows, Plain!Advance
    <3> QED
      BY <3>2, <3>4
  <2> QED
    BY <2>1, <2>2 DEF Decodes
<1>5. DOMAIN reply' = Session /\ DOMAIN state' = Session
  OBVIOUS
<1> QED
  BY <1>3, <1>4, <1>5 DEF Plain!Decode

\* A reply that begins, in plain decoding.
LEMMA BeginsIs == ASSUME NEW s \in Session, Starts(s) PROVE Plain!Begin(s)
<1>1. [r \in Session |-> SubSeq(context'[r], 1, promptLen'[r])]
        = [[r \in Session |-> SubSeq(context[r], 1, promptLen[r])] EXCEPT ![s] = PromptOf(s)']
  BY DEF Starts, PromptOf, Pre
<1>2. [r \in Session |-> State(r)'] = [[r \in Session |-> State(r)] EXCEPT ![s] = "running"]
  BY DEF Starts, Stays
<1>3. [r \in Session |-> SubSeq(context'[r], promptLen'[r] + 1, Len(context'[r]))]
        = [r \in Session |-> SubSeq(context[r], promptLen[r] + 1, Len(context[r]))]
  BY DEF Starts, Stays, ReplyOf, From
<1>4. PromptOf(s)' \in Prompts /\ State(s) = "waiting"
  BY DEF Starts
<1> QED
  BY <1>1, <1>2, <1>3, <1>4 DEF Plain!Begin

\* A reply that is refused, in plain decoding.
LEMMA RefusesIs == ASSUME NEW s \in Session, Refuses(s) PROVE Plain!Refuse(s)
<1>1. [r \in Session |-> SubSeq(context'[r], 1, promptLen'[r])]
        = [r \in Session |-> SubSeq(context[r], 1, promptLen[r])]
  BY DEF Refuses, PromptOf, Pre
<1>2. [r \in Session |-> State(r)'] = [[r \in Session |-> State(r)] EXCEPT ![s] = "failed"]
  BY DEF Refuses, Stays
<1>3. [r \in Session |-> SubSeq(context'[r], promptLen'[r] + 1, Len(context'[r]))]
        = [r \in Session |-> SubSeq(context[r], promptLen[r] + 1, Len(context[r]))]
  BY DEF Refuses, Stays, ReplyOf, From
<1>4. State(s) = "waiting"
  BY DEF Refuses
<1> QED
  BY <1>1, <1>2, <1>3, <1>4 DEF Plain!Refuse

\* The initial states are those of plain decoding.
LEMMA PlainStarts == ASSUME Init PROVE Plain!Init
<1>1. ASSUME NEW s \in Session
      PROVE  /\ SubSeq(context[s], 1, promptLen[s]) = <<>>
             /\ SubSeq(context[s], promptLen[s] + 1, Len(context[s])) = <<>>
             /\ State(s) = "waiting"
  <2>1. context[s] = <<>> /\ promptLen[s] = 0 /\ status[s] = "new"
    BY DEF Init
  <2>2. Len(<<>>) = 0 /\ <<>> \in Seq(Token)
    BY EmptySeq
  <2>3. SubSeq(<<>>, 1, 0) = <<>>
    BY SubSeqEmpty
  <2>4. SubSeq(<<>>, 0 + 1, Len(<<>>)) = <<>>
    BY <2>2, SubSeqEmpty
  <2> QED
    BY <2>1, <2>3, <2>4 DEF State
<1> QED
  BY <1>1 DEF Plain!Init

\* A session whose variables stay stays in plain decoding.
LEMMA SameStays ==
  ASSUME NEW s, status'[s] = status[s], context'[s] = context[s], promptLen'[s] = promptLen[s],
         reason'[s] = reason[s]
  PROVE  Stays(s) /\ PromptOf(s)' = PromptOf(s)
<1>1. State(s)' = State(s)
  BY DEF State, HonestlyFull
<1> QED
  BY <1>1 DEF Stays, PromptOf, ReplyOf, Pre, From

\* A round takes every active session further, and no other.
LEMMA RoundDecodes == ASSUME Inv, Round PROVE Decodes
<1>1. \A s \in Session : promptLen'[s] = promptLen[s]
  BY DEF Round
<1>2. ASSUME NEW s \in Session, s \notin Active PROVE Stays(s) /\ PromptOf(s)' = PromptOf(s)
  <2>1. Same(s)
    BY <1>2 DEF Round
  <2> QED
    BY <1>1, <2>1, SameStays DEF Same
<1>3. ASSUME NEW s \in Active PROVE Goes(s) /\ PromptOf(s)' = PromptOf(s)
  <2>1. /\ s \in Session /\ status[s] = "decode" /\ context[s] \in Seq(Token)
        /\ promptLen[s] \in 1..Len(context[s]) /\ Len(context[s]) \in Nat \ {0}
    BY ActiveIs
  <2>2. PICK pushed, end : Outcome(s, pushed, end) /\ Settled(s, pushed, end)
    BY <1>3 DEF Round
  <2>3. PICK ctx, pl : ctx = context[s] /\ pl = promptLen[s]
    OBVIOUS
  <2>4. ctx \in Seq(Token) /\ pl \in 0..Len(ctx) /\ Len(ctx) \in Nat /\ pl \in Nat
    BY <2>1, <2>3
  <2>5. /\ pushed \in Seq(Token) /\ Len(pushed) <= Lookahead + 1
        /\ Len(ctx) + Len(pushed) <= MaxContext
        /\ Len(ctx) - pl + Len(pushed) <= MaxTokens
        /\ \A i \in 1..(Len(pushed) - 1) : pushed[i] \notin EndTokens
        /\ s \in Greedy => \A i \in 1..Len(pushed) :
              pushed[i] = Choice(Pre(ctx \o pushed, Len(ctx) + i - 1))
    BY <2>2, <2>3 DEF Outcome, Generated
  <2>6. /\ end \in {"none", "eos", "length", "full"}
        /\ end = "none" => pushed # <<>> /\ pushed[Len(pushed)] \notin EndTokens
        /\ end = "eos" => pushed # <<>> /\ pushed[Len(pushed)] \in EndTokens
        /\ end = "length" => /\ Len(ctx) - pl + Len(pushed) = MaxTokens
                             /\ pushed = <<>> \/ pushed[Len(pushed)] \notin EndTokens
    BY <2>2, <2>3 DEF Outcome, Generated
  <2>7. /\ context'[s] = ctx \o pushed /\ reason'[s] = end
        /\ status'[s] = IF end = "none" THEN "decode" ELSE "done"
    BY <2>2, <2>3 DEF Settled
  <2>8. State(s) = "running"
    BY <2>1 DEF State
  <2>9. PICK now : now = State(s)'
    OBVIOUS
  <2>10. LET stopped == pushed # <<>> /\ pushed[Len(pushed)] \in EndTokens
         IN  \/ now = "failed"
             \/ now = "eos" /\ stopped
             \/ now = "running" /\ ~stopped /\ pushed # <<>>
             \/ now = "length" /\ ~stopped /\ Len(ctx) - pl + Len(pushed) = MaxTokens
             \/ now = "full" /\ ~stopped /\ Len(ctx) + Len(pushed) = MaxContext
    <3>1. CASE end = "none"
      BY <2>6, <2>7, <2>9, <3>1 DEF State
    <3>2. CASE end = "eos"
      BY <2>6, <2>7, <2>9, <3>2 DEF State
    <3>3. CASE end = "length"
      BY <2>6, <2>7, <2>9, <3>3 DEF State
    <3>4. CASE end = "full"
      <4>1. PICK all : all = ctx \o pushed
        OBVIOUS
      <4>2. /\ Len(all) = Len(ctx) + Len(pushed)
            /\ \A i \in 1..Len(pushed) : all[Len(ctx) + i] = pushed[i]
        BY <2>4, <2>5, <4>1, CatIs
      <4>3. pushed # <<>> => all[Len(all)] = pushed[Len(pushed)]
        <5>1. pushed # <<>> => Len(pushed) \in 1..Len(pushed)
          BY <2>5, EmptySeq
        <5> QED
          BY <4>2, <5>1
      <4>4. CASE Len(all) = MaxContext /\ all[MaxContext] \notin EndTokens
        <5>1. now = "full"
          BY <2>7, <2>9, <3>4, <4>1, <4>4 DEF State, HonestlyFull
        <5> QED
          BY <4>2, <4>3, <4>4, <5>1
      <4>5. CASE ~(Len(all) = MaxContext /\ all[MaxContext] \notin EndTokens)
        BY <2>7, <2>9, <3>4, <4>1, <4>5 DEF State, HonestlyFull
      <4> QED
        BY <4>4, <4>5
    <3> QED
      BY <2>6, <3>1, <3>2, <3>3, <3>4
  <2>11. Grows(s, Pre(ctx, pl), From(ctx, pl), From(ctx \o pushed, pl), now)
    BY <2>4, <2>5, <2>10, Advances
  <2>12. ReplyOf(s)' = From(ctx \o pushed, pl) /\ ReplyOf(s) = From(ctx, pl) /\ PromptOf(s) = Pre(ctx, pl)
    BY <1>1, <2>1, <2>3, <2>7 DEF ReplyOf, PromptOf, From
  <2>13. PromptOf(s)' = PromptOf(s)
    <3>1. PromptOf(s)' = Pre(ctx \o pushed, pl)
      BY <1>1, <2>1, <2>3, <2>7 DEF PromptOf, Pre
    <3>2. Pre(ctx \o pushed, pl) = Pre(ctx, pl)
      BY <2>4, <2>5, PreCat
    <3> QED
      BY <2>12, <3>1, <3>2
  <2> QED
    BY <2>8, <2>9, <2>11, <2>12, <2>13 DEF Goes
<1> QED
  BY <1>2, <1>3 DEF Decodes

\* A prefill that fails ends the reply before it begins.
LEMMA PrefillFailsDecodes == ASSUME Inv, NEW s \in Session, PrefillFails(s) PROVE Decodes
<1>1. /\ status[s] = "prefill" /\ status' = [status EXCEPT ![s] = "failed"]
      /\ UNCHANGED <<context, promptLen, reason>>
  BY DEF PrefillFails
<1>2. \A r \in Session \ {s} : status'[r] = status[r]
  BY <1>1 DEF Inv, Types
<1>3. ASSUME NEW r \in Session \ {s} PROVE Stays(r) /\ PromptOf(r)' = PromptOf(r)
  BY <1>1, <1>2, SameStays
<1>4. /\ context[s] \in Seq(Token) /\ promptLen[s] = Len(context[s]) /\ Len(context[s]) <= MaxContext
      /\ Len(context[s]) - promptLen[s] <= MaxTokens
  BY <1>1 DEF Inv, Types, SessionOK, Sound
<1>5. PICK ctx, pl : ctx = context[s] /\ pl = promptLen[s]
  OBVIOUS
<1>6. /\ ctx \in Seq(Token) /\ Len(ctx) \in Nat /\ pl \in 0..Len(ctx)
      /\ <<>> \in Seq(Token) /\ Len(<<>>) = 0 /\ ctx \o <<>> = ctx
  <2>1. ctx \in Seq(Token) /\ Len(ctx) \in Nat
    BY <1>4, <1>5, LenProperties
  <2>2. pl \in 0..Len(ctx)
    BY <1>4, <1>5, <2>1
  <2> QED
    BY <2>1, <2>2, EmptySeq, ConcatEmptySeq
<1>7. State(s)' = "failed" /\ State(s) = "running"
  <2>1. status'[s] = "failed"
    BY <1>1 DEF Inv, Types
  <2> QED
    BY <1>1, <2>1 DEF State
<1>8. Grows(s, Pre(ctx, pl), From(ctx, pl), From(ctx \o <<>>, pl), "failed")
  <2>1. PICK none : none = <<>>
    OBVIOUS
  <2>2. /\ none \in Seq(Token) /\ Len(none) = 0
    BY <1>6, <2>1
  <2>3. /\ Len(none) <= Lookahead + 1 /\ Len(ctx) + Len(none) <= MaxContext
        /\ Len(ctx) - pl + Len(none) <= MaxTokens
    <3>1. Lookahead \in Nat /\ MaxContext \in Nat /\ MaxTokens \in Nat
      BY DecodeAssumption
    <3> QED
      BY <1>4, <1>5, <1>6, <2>2, <3>1
  <2>4. /\ \A i \in 1..(Len(none) - 1) : none[i] \notin EndTokens
        /\ \A i \in 1..Len(none) : none[i] = Choice(Pre(ctx \o none, Len(ctx) + i - 1))
    <3>1. 1..0 = {} /\ 1..(0 - 1) = {}
      OBVIOUS
    <3> QED
      BY <2>2, <3>1
  <2>5. Grows(s, Pre(ctx, pl), From(ctx, pl), From(ctx \o none, pl), "failed")
    BY <1>6, <2>2, <2>3, <2>4, Advances
  <2> QED
    BY <2>1, <2>5
<1>9. /\ PromptOf(s) = Pre(ctx, pl) /\ PromptOf(s)' = Pre(ctx, pl)
      /\ ReplyOf(s) = From(ctx, pl) /\ ReplyOf(s)' = From(ctx, pl)
  BY <1>1, <1>5 DEF PromptOf, ReplyOf, Pre, From
<1>10. Goes(s) /\ PromptOf(s)' = PromptOf(s)
  BY <1>6, <1>7, <1>8, <1>9 DEF Goes
<1> QED
  BY <1>3, <1>10 DEF Decodes

\* A prompt that is read in changes nothing of the reply.
LEMMA PrefillDecodes == ASSUME Inv, NEW s \in Session, Prefill(s) PROVE Decodes
<1>1. /\ status[s] = "prefill" /\ UNCHANGED <<context, promptLen, reason>>
      /\ status' = [status EXCEPT ![s] = "decode"] \/ status' = status
  BY DEF Prefill
<1>2. \A r \in Session \ {s} : status'[r] = status[r]
  BY <1>1 DEF Inv, Types
<1>3. ASSUME NEW r \in Session \ {s} PROVE Stays(r) /\ PromptOf(r)' = PromptOf(r)
  BY <1>1, <1>2, SameStays
<1>4. State(s) = "running" /\ State(s)' = "running"
  <2>1. status'[s] \in {"prefill", "decode"}
    BY <1>1 DEF Inv, Types
  <2> QED
    BY <1>1, <2>1 DEF State
<1>5. Stays(s) /\ PromptOf(s)' = PromptOf(s)
  BY <1>1, <1>4 DEF Stays, PromptOf, ReplyOf, Pre, From
<1> QED
  BY <1>3, <1>5 DEF Decodes

\* A step that changes nothing takes no session further.
LEMMA IdleDecodes == ASSUME UNCHANGED vars PROVE Decodes
<1>1. UNCHANGED <<status, context, promptLen, reason>>
  BY DEF vars
<1>2. \A s \in Session : Stays(s) /\ PromptOf(s)' = PromptOf(s)
  BY <1>1, SameStays
<1> QED
  BY <1>2 DEF Decodes

\* A request that starts begins its reply, and one that is refused has none.
LEMMA StartBegins == ASSUME Inv, NEW s \in Session, Start(s) PROVE Starts(s)
<1>1. PICK p \in Prompts :
        /\ status' = [status EXCEPT ![s] = "prefill"]
        /\ context' = [context EXCEPT ![s] = p] /\ promptLen' = [promptLen EXCEPT ![s] = Len(p)]
  BY DEF Start
<1>2. status[s] = "new" /\ reason' = reason
  BY DEF Start
<1>3. p \in Seq(Token) /\ Len(p) \in Nat
  BY DecodeAssumption, LenProperties
<1>4. status'[s] = "prefill" /\ context'[s] = p /\ promptLen'[s] = Len(p)
  BY <1>1 DEF Inv, Types
<1>5. \A r \in Session \ {s} :
        status'[r] = status[r] /\ context'[r] = context[r] /\ promptLen'[r] = promptLen[r]
  BY <1>1 DEF Inv, Types
<1>6. ASSUME NEW r \in Session \ {s} PROVE Stays(r) /\ PromptOf(r)' = PromptOf(r)
  BY <1>2, <1>5, SameStays
<1>7. context[s] = <<>> /\ promptLen[s] = 0
  BY <1>2 DEF Inv, SessionOK, Sound
<1>8. State(s) = "waiting" /\ State(s)' = "running"
  BY <1>2, <1>4 DEF State
<1>9. PromptOf(s)' = p
  <2>1. PromptOf(s)' = Pre(p, Len(p))
    BY <1>4 DEF PromptOf, Pre
  <2> QED
    BY <1>3, <2>1, PreFull
<1>10. ReplyOf(s)' = <<>> /\ ReplyOf(s) = <<>>
  <2>1. ReplyOf(s)' = From(p, Len(p)) /\ ReplyOf(s) = From(<<>>, 0)
    BY <1>4, <1>7 DEF ReplyOf, From
  <2>2. From(p, Len(p)) = <<>>
    BY <1>3, SubSeqEmpty DEF From
  <2>3. From(<<>>, 0) = <<>>
    <3>1. Len(<<>>) = 0
      BY EmptySeq
    <3> QED
      BY <3>1, SubSeqEmpty DEF From
  <2> QED
    BY <2>1, <2>2, <2>3
<1> QED
  BY <1>6, <1>8, <1>9, <1>10 DEF Starts

\* A request that is refused has no reply.
LEMMA RefuseRefuses == ASSUME Inv, NEW s \in Session, Refuse(s) PROVE Refuses(s)
<1>1. /\ status[s] = "new" /\ status' = [status EXCEPT ![s] = "failed"]
      /\ UNCHANGED <<context, promptLen, reason>>
  BY DEF Refuse
<1>2. status'[s] = "failed" /\ \A r \in Session \ {s} : status'[r] = status[r]
  BY <1>1 DEF Inv, Types
<1>3. ASSUME NEW r \in Session \ {s} PROVE Stays(r) /\ PromptOf(r)' = PromptOf(r)
  BY <1>1, <1>2, SameStays
<1>4. State(s) = "waiting" /\ State(s)' = "failed"
  BY <1>1, <1>2 DEF State
<1>5. ReplyOf(s)' = ReplyOf(s) /\ PromptOf(s)' = PromptOf(s)
  BY <1>1 DEF ReplyOf, PromptOf, Pre, From
<1> QED
  BY <1>3, <1>4, <1>5 DEF Refuses

\* Every step is one of plain decoding.
LEMMA PlainSteps == ASSUME Inv, [Next]_vars PROVE Plain!Next
<1>1. CASE BatchRound \/ BatchFallback
  BY <1>1, BatchIsRound, RoundDecodes, DecodesIs DEF Plain!Next
<1>2. ASSUME NEW s \in Session, SpecRound(s) PROVE Plain!Next
  BY <1>2, SpecIsRound, RoundDecodes, DecodesIs DEF Plain!Next
<1>3. ASSUME NEW s \in Session, Prefill(s) PROVE Plain!Next
  BY <1>3, PrefillDecodes, DecodesIs DEF Plain!Next
<1>4. ASSUME NEW s \in Session, PrefillFails(s) PROVE Plain!Next
  BY <1>4, PrefillFailsDecodes, DecodesIs DEF Plain!Next
<1>5. ASSUME NEW s \in Session, Start(s) PROVE Plain!Next
  BY <1>5, StartBegins, BeginsIs DEF Plain!Next
<1>6. ASSUME NEW s \in Session, Refuse(s) PROVE Plain!Next
  BY <1>6, RefuseRefuses, RefusesIs DEF Plain!Next
<1>7. CASE UNCHANGED vars
  BY <1>7, IdleDecodes, DecodesIs DEF Plain!Next
<1> QED
  BY <1>1, <1>2, <1>3, <1>4, <1>5, <1>6, <1>7 DEF Next, Loop, Idle

\* Guessing, batching, caching and failing give the replies of plain decoding, for every
\* model: in particular a greedy reply is the model's own choice, token by token.
THEOREM PlainImplemented == Spec => ImplementsPlain
<1>1. Init => Plain!Init
  BY PlainStarts
<1>2. Inv /\ [Next]_vars => [Plain!Next]_Plain!vars
  BY PlainSteps
<1> QED
  BY <1>1, <1>2, Inductive, PTL DEF Spec, ImplementsPlain, Plain!Spec
=============================================================================
