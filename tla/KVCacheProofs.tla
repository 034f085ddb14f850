---------------------------- MODULE KVCacheProofs ----------------------------
(***************************************************************************)
(* Proofs about KVCache for every set of sequences and entries and every   *)
(* configuration: a position is in one place and is what was written       *)
(* there, a sequence's files are its own, the blocks in RAM are bounded,   *)
(* only a fault breaks a sequence, and the whole cache implements a log    *)
(* of positions.  The inductive invariant IInv is about every owner,       *)
(* whatever its status: each block a position uses is in RAM or in a       *)
(* file that is there, never both, and exactly as full as the length says  *)
(* (Sound); files bear the name of the sequence that wrote them, and what  *)
(* the prompt cache keeps has none (Named), without which one sequence's   *)
(* drop or rewrite could take another's positions; and a sequence not      *)
(* begun is empty (Fresh).                                                 *)
(***************************************************************************)
EXTENDS KVCache, FiniteSetTheorems, FunctionTheorems, TLAPS

-----------------------------------------------------------------------------
(* Positions and blocks.                                                   *)

\* Division and remainder by BlockSize.
LEMMA Division ==
  ASSUME NEW n \in Nat
  PROVE  /\ n \div BlockSize \in Nat
         /\ n % BlockSize \in Nat
         /\ n % BlockSize < BlockSize
         /\ n = (n \div BlockSize) * BlockSize + (n % BlockSize)
  BY KVCacheAssumption

\* A block before another ends no later than the other begins.
LEMMA BlockOrder ==
  ASSUME NEW a \in Nat, NEW b \in Nat, a < b
  PROVE  /\ a * BlockSize \in Nat /\ b * BlockSize \in Nat
         /\ (a + 1) * BlockSize = a * BlockSize + BlockSize
         /\ a * BlockSize + BlockSize <= b * BlockSize
<1>1. b = a + 1 + (b - a - 1) /\ b - a - 1 \in Nat
  OBVIOUS
<1> DEFINE d == b - a - 1
<1>2. BlockSize \in Nat
  BY KVCacheAssumption
<1>3. (a + 1 + d) * BlockSize = a * BlockSize + BlockSize + d * BlockSize /\ d * BlockSize \in Nat
  BY <1>1, <1>2, SMT
<1>4. /\ a * BlockSize \in Nat /\ b * BlockSize \in Nat
      /\ (a + 1) * BlockSize = a * BlockSize + BlockSize
  BY <1>2, SMT
<1>5. b * BlockSize = a * BlockSize + BlockSize + d * BlockSize
  BY <1>1, <1>3
<1> QED
  BY <1>2, <1>3, <1>4, <1>5

\* How full each block of n positions is.
LEMMA Fullness ==
  ASSUME NEW n \in Nat, NEW b \in Nat
  PROVE  /\ b < n \div BlockSize => Filled(n, b) = BlockSize
         /\ b = n \div BlockSize => Filled(n, b) = n % BlockSize
         /\ b > n \div BlockSize => Filled(n, b) = 0
<1> DEFINE q == n \div BlockSize
           r == n % BlockSize
<1>1. q \in Nat /\ r \in Nat /\ r < BlockSize /\ n = q * BlockSize + r
  BY Division
<1>2. BlockSize \in Nat \ {0}
  BY KVCacheAssumption
<1> HIDE DEF q, r
<1>3. CASE b < q
  <2>1. b * BlockSize \in Nat /\ q * BlockSize \in Nat
        /\ (b + 1) * BlockSize = b * BlockSize + BlockSize
        /\ b * BlockSize + BlockSize <= q * BlockSize
    BY <1>1, <1>3, BlockOrder
  <2> QED
    BY <1>1, <1>2, <1>3, <2>1 DEF Filled, q
<1>4. CASE b = q
  <2>1. b * BlockSize \in Nat /\ (b + 1) * BlockSize = b * BlockSize + BlockSize
    BY <1>2, SMT
  <2> QED
    BY <1>1, <1>2, <1>4, <2>1 DEF Filled, q, r
<1>5. CASE b > q
  <2>1. b * BlockSize \in Nat /\ q * BlockSize \in Nat
        /\ (q + 1) * BlockSize = q * BlockSize + BlockSize
        /\ q * BlockSize + BlockSize <= b * BlockSize
    BY <1>1, <1>5, BlockOrder
  <2>2. (b + 1) * BlockSize = b * BlockSize + BlockSize
    BY <1>2, SMT
  <2> QED
    BY <1>1, <1>2, <1>5, <2>1, <2>2 DEF Filled, q
<1> QED
  BY <1>1, <1>3, <1>4, <1>5 DEF q

\* The block of a position, from any block and offset that add up to it.
LEMMA BlockAt ==
  ASSUME NEW n \in Nat, NEW b \in Nat, NEW r \in Nat, r < BlockSize, n = b * BlockSize + r
  PROVE  n \div BlockSize = b /\ n % BlockSize = r
<1> DEFINE q == n \div BlockSize
           s == n % BlockSize
<1>1. q \in Nat /\ s \in Nat /\ s < BlockSize /\ n = q * BlockSize + s
  BY Division
<1>2. BlockSize \in Nat
  BY KVCacheAssumption
<1> HIDE DEF q, s
<1>3. ~ (q < b)
  BY <1>1, <1>2, BlockOrder
<1>4. ~ (b < q)
  BY <1>1, <1>2, BlockOrder
<1>5. q = b
  BY <1>1, <1>3, <1>4
<1>6. b * BlockSize \in Nat
  BY <1>2, SMT
<1> QED
  BY <1>1, <1>2, <1>5, <1>6 DEF q, s

\* Later positions are in later blocks.
LEMMA DivMono ==
  ASSUME NEW m \in Nat, NEW n \in Nat, m <= n
  PROVE  m \div BlockSize <= n \div BlockSize
<1> DEFINE q == m \div BlockSize
           t == n \div BlockSize
<1>1. /\ q \in Nat /\ m % BlockSize \in Nat /\ m % BlockSize < BlockSize
      /\ m = q * BlockSize + (m % BlockSize)
      /\ t \in Nat /\ n % BlockSize \in Nat /\ n % BlockSize < BlockSize
      /\ n = t * BlockSize + (n % BlockSize)
  BY Division
<1>2. BlockSize \in Nat
  BY KVCacheAssumption
<1> HIDE DEF q, t
<1>3. ~ (t < q)
  BY <1>1, <1>2, BlockOrder
<1> QED
  BY <1>1, <1>3 DEF q, t

\* The blocks that hold some of n positions.
Used(n) == {b \in Block : Filled(n, b) > 0}

\* They are those before the block of position n, and that one if n is not its first.
LEMMA UsedBlocks ==
  ASSUME NEW n \in 0..MaxPositions, NEW b
  PROVE  b \in Used(n) <=> /\ b \in Nat
                           /\ \/ b < n \div BlockSize
                              \/ b = n \div BlockSize /\ n % BlockSize > 0
<1> DEFINE q == n \div BlockSize
           r == n % BlockSize
           m == MaxPositions - 1
<1>1. n \in Nat /\ m \in Nat /\ BlockSize \in Nat \ {0}
  BY KVCacheAssumption
<1>2. q \in Nat /\ r \in Nat /\ r < BlockSize /\ n = q * BlockSize + r
  BY <1>1, Division
<1>3. m \div BlockSize \in Nat
  BY <1>1, Division
<1>4. ASSUME NEW a \in Nat, a < q \/ (a = q /\ r > 0)
      PROVE  a \in Block /\ Filled(n, a) > 0
  <2>1. a * BlockSize \in Nat /\ a * BlockSize < n
    <3>1. CASE a < q
      BY <1>1, <1>2, <1>4, <3>1, BlockOrder
    <3>2. CASE a = q /\ r > 0
      <4>1. a * BlockSize \in Nat
        BY <1>1, SMT
      <4> QED
        BY <1>1, <1>2, <3>2, <4>1
    <3> QED
      BY <1>4, <3>1, <3>2
  <2>2. a * BlockSize <= m
    <3>1. n <= m + 1
      BY KVCacheAssumption
    <3> HIDE DEF m
    <3> QED
      BY <1>1, <2>1, <3>1
  <2>3. (a * BlockSize) \div BlockSize = a
    BY <1>1, <2>1, BlockAt
  <2>4. a <= m \div BlockSize
    BY <1>1, <2>1, <2>2, <2>3, DivMono
  <2> HIDE DEF q, r
  <2>5. Filled(n, a) > 0
    BY <1>1, <1>2, <1>4, Fullness DEF q, r
  <2> QED
    BY <1>3, <2>4, <2>5 DEF Block
<1>5. ASSUME b \in Used(n)
      PROVE  b \in Nat /\ (b < q \/ (b = q /\ r > 0))
  <2>1. b \in Nat /\ Filled(n, b) > 0
    BY <1>3, <1>5 DEF Used, Block
  <2> QED
    BY <1>1, <1>2, <2>1, Fullness
<1> QED
  BY <1>4, <1>5 DEF Used

\* The block of a position is used, and full enough to hold it.
LEMMA PlaceOf ==
  ASSUME NEW n \in 0..MaxPositions, NEW p \in 0..(n - 1)
  PROVE  /\ p \div BlockSize \in Used(n)
         /\ p % BlockSize \in Nat
         /\ p % BlockSize < Filled(n, p \div BlockSize)
<1> DEFINE q == n \div BlockSize
           r == n % BlockSize
           b == p \div BlockSize
           s == p % BlockSize
<1>1. n \in Nat /\ p \in Nat /\ p < n /\ BlockSize \in Nat \ {0}
  BY KVCacheAssumption
<1>2. /\ q \in Nat /\ r \in Nat /\ r < BlockSize /\ n = q * BlockSize + r
      /\ b \in Nat /\ s \in Nat /\ s < BlockSize /\ p = b * BlockSize + s
  BY <1>1, Division
<1>3. b <= q
  BY <1>1, DivMono
<1>4. b < q => Filled(n, b) = BlockSize
  BY <1>1, <1>2, Fullness
<1>5. b = q => Filled(n, b) = r /\ r > s
  <2>1. b = q => Filled(n, b) = r
    BY <1>1, <1>2, Fullness
  <2>2. q * BlockSize \in Nat
    BY <1>1, <1>2, SMT
  <2> HIDE DEF q, r, b, s
  <2> QED
    BY <1>1, <1>2, <2>1, <2>2
<1>6. b \in Used(n)
  <2>1. b < q \/ (b = q /\ r > 0)
    BY <1>2, <1>3, <1>5
  <2> QED
    BY <1>2, <2>1, UsedBlocks
<1> QED
  BY <1>2, <1>3, <1>4, <1>5, <1>6

\* Of k members of a set the lowest k are k, and one more is one more.
LEMMA LowestMany ==
  ASSUME NEW S \in SUBSET Nat, IsFiniteSet(S), NEW k \in Nat, k <= Cardinality(S)
  PROVE  /\ Lowest(S, k) \subseteq S
         /\ IsFiniteSet(Lowest(S, k))
         /\ Cardinality(Lowest(S, k)) = k
<1> DEFINE below(b) == {a \in S : a < b}
           rank == [b \in S |-> Cardinality(below(b))]
           n == Cardinality(S)
           low == Lowest(S, k)
           first == [b \in low |-> rank[b]]
<1>1. n \in Nat
  BY FS_CardinalityType
<1>2. ASSUME NEW b \in S
      PROVE  IsFiniteSet(below(b)) /\ rank[b] \in 0..(n - 1)
  <2>1. below(b) \in SUBSET S /\ b \notin below(b)
    OBVIOUS
  <2>2. /\ IsFiniteSet(below(b)) /\ Cardinality(below(b)) <= n
        /\ Cardinality(below(b)) = n => below(b) = S
    BY <2>1, FS_Subset
  <2>3. Cardinality(below(b)) \in Nat
    BY <2>2, FS_CardinalityType
  <2> QED
    BY <1>1, <2>1, <2>2, <2>3
<1>3. ASSUME NEW a \in S, NEW b \in S, a < b
      PROVE  rank[a] < rank[b]
  <2>1. below(a) \in SUBSET below(b) /\ a \in below(b) /\ a \notin below(a)
    <3>1. a \in Nat /\ b \in Nat /\ \A x \in S : x \in Nat
      OBVIOUS
    <3>2. \A x \in S : x < a => x < b
      BY <1>3, <3>1
    <3>3. ~ (a < a)
      BY <3>1
    <3> QED
      BY <1>3, <3>2, <3>3
  <2>2. /\ IsFiniteSet(below(b)) /\ rank[a] \in Nat /\ rank[b] \in Nat
    BY <1>2
  <2>3. /\ Cardinality(below(a)) <= Cardinality(below(b))
        /\ Cardinality(below(a)) = Cardinality(below(b)) => below(b) = below(a)
    BY <2>1, <2>2, FS_Subset
  <2> QED
    BY <2>1, <2>2, <2>3
<1> HIDE DEF rank, n
<1>4. rank \in [S -> 0..(n - 1)]
  BY <1>2 DEF rank
<1>5. \A a, b \in S : rank[a] = rank[b] => a = b
  <2> SUFFICES ASSUME NEW a \in S, NEW b \in S, a # b
               PROVE  rank[a] # rank[b]
    OBVIOUS
  <2>1. a < b \/ b < a
    OBVIOUS
  <2>2. rank[a] \in Nat /\ rank[b] \in Nat
    BY <1>1, <1>4
  <2> QED
    BY <1>3, <2>1, <2>2
<1>6. rank \in Surjection(S, 0..(n - 1))
  <2>1. rank \in Injection(S, 0..(n - 1))
    BY <1>4, <1>5, Fun_IsInj
  <2>2. IsFiniteSet(0..(n - 1)) /\ Cardinality(0..(n - 1)) = n
    BY <1>1, FS_Interval
  <2> QED
    BY <2>1, <2>2, FS_Injection DEF n
<1>7. low = {b \in S : rank[b] < k}
  BY DEF Lowest, rank
<1> HIDE DEF low
<1>8. first \in [low -> 0..(k - 1)]
  <2>1. \A b \in S : rank[b] \in Nat
    BY <1>1, <1>4
  <2>2. \A b \in low : rank[b] \in 0..(k - 1)
    BY <1>7, <2>1
  <2> QED
    BY <2>2
<1>9. \A a, b \in low : first[a] = first[b] => a = b
  BY <1>5, <1>7
<1>10. \A t \in 0..(k - 1) : \E b \in low : first[b] = t
  <2> SUFFICES ASSUME NEW t \in 0..(k - 1)
               PROVE  \E b \in low : first[b] = t
    OBVIOUS
  <2>1. t \in 0..(n - 1)
    BY <1>1 DEF n
  <2>2. PICK b \in S : rank[b] = t
    <3>1. \A x \in 0..(n - 1) : \E b \in S : rank[b] = x
      BY <1>6 DEF Surjection
    <3> QED
      BY <2>1, <3>1
  <2> QED
    BY <1>7, <2>2
<1> HIDE DEF first
<1>11. first \in Injection(low, 0..(k - 1)) /\ first \in Surjection(low, 0..(k - 1))
  BY <1>8, <1>9, <1>10, Fun_IsInj, Fun_IsSurj
<1>12. IsFiniteSet(0..(k - 1)) /\ Cardinality(0..(k - 1)) = k
  <2>1. 0 \in Int /\ k - 1 \in Int
    OBVIOUS
  <2>2. IsFiniteSet(0..(k - 1)) /\ Cardinality(0..(k - 1)) = IF 0 > k - 1 THEN 0 ELSE (k - 1) - 0 + 1
    BY <2>1, FS_Interval
  <2> QED
    BY <2>2
<1> QED
  BY <1>7, <1>11, <1>12, FS_Injection DEF low

-----------------------------------------------------------------------------
(* One cache over a disk, and what each operation of KVCacheState makes of *)
(* it.                                                                     *)

\* Every field has its type.
Typed(c) ==
    /\ c \in [id : Owner, len : 0..MaxPositions, resident : {c.resident}, spilled : {c.spilled}]
    /\ c.resident \in [DOMAIN c.resident -> Seq(Value)]
    /\ c.spilled = [b \in DOMAIN c.spilled |-> Path(c.id, b)]

\* Every block is in one place, and as full as it should be.
Sound(c, d) ==
    /\ Typed(c)
    /\ DOMAIN c.resident \cap DOMAIN c.spilled = {}
    /\ DOMAIN c.resident \cup DOMAIN c.spilled = Used(c.len)
    /\ \A b \in DOMAIN c.resident : Len(c.resident[b]) = Filled(c.len, b)
    /\ \A b \in DOMAIN c.spilled : /\ Filled(c.len, b) = BlockSize
                                   /\ Path(c.id, b) \in DOMAIN d
                                   /\ d[Path(c.id, b)] \in Seq(Value)
                                   /\ Len(d[Path(c.id, b)]) = BlockSize

\* A block's positions, wherever they are.
Content(c, d, b) == IF b \in DOMAIN c.resident THEN c.resident[b] ELSE d[Path(c.id, b)]

\* No position uses no block.
LEMMA EmptyUsed == Used(0) = {}
<1>1. 0 \in 0..MaxPositions /\ BlockSize \in Nat \ {0}
  BY KVCacheAssumption
<1>2. 0 \div BlockSize = 0 /\ 0 % BlockSize = 0
  BY <1>1, BlockAt
<1> QED
  BY <1>1, <1>2, UsedBlocks

\* An empty cache is sound.
LEMMA EmptySound ==
  ASSUME NEW o \in Owner, NEW d
  PROVE  Sound(Empty(o), d)
<1>1. 0 \in 0..MaxPositions
  BY KVCacheAssumption
<1>2. Used(0) = {}
  BY EmptyUsed
<1>3. /\ Empty(o).resident = << >> /\ Empty(o).spilled = << >> /\ Empty(o).id = o
      /\ Empty(o).len = 0
      /\ Empty(o) \in [id : Owner, len : 0..MaxPositions, resident : {<< >>}, spilled : {<< >>}]
  BY <1>1 DEF Empty
<1>4. DOMAIN << >> = {} /\ << >> \in [{} -> Seq(Value)] /\ << >> = [b \in {} |-> Path(o, b)]
  OBVIOUS
<1> HIDE DEF Empty
<1> QED
  BY <1>2, <1>3, <1>4 DEF Sound, Typed

\* Another disk that holds the same files does as well.
LEMMA SameFiles ==
  ASSUME NEW c, NEW d, NEW e, Sound(c, d),
         \A b \in DOMAIN c.spilled : /\ Path(c.id, b) \in DOMAIN e
                                     /\ e[Path(c.id, b)] = d[Path(c.id, b)]
  PROVE  /\ Sound(c, e)
         /\ \A b \in Used(c.len) : Content(c, e, b) = Content(c, d, b)
  BY DEF Sound, Content

\* A sound cache holds in each used block the right number of values.
LEMMA ContentType ==
  ASSUME NEW c, NEW d, Sound(c, d), NEW b \in Used(c.len)
  PROVE  Content(c, d, b) \in Seq(Value) /\ Len(Content(c, d, b)) = Filled(c.len, b)
  BY DEF Sound, Content, Typed

\* A cache is its four fields.
LEMMA Record ==
  ASSUME NEW c, NEW i, NEW l, NEW r, NEW s,
         c \in [id : {i}, len : {l}, resident : {r}, spilled : {s}]
  PROVE  c = [id |-> i, len |-> l, resident |-> r, spilled |-> s]
  OBVIOUS

\* Length and blocks replaced.
LEMMA LenReplaced ==
  ASSUME NEW c, Typed(c), NEW l, NEW r
  PROVE  [c EXCEPT !.len = l, !.resident = r] = [id |-> c.id, len |-> l, resident |-> r, spilled |-> c.spilled]
<1> DEFINE x == [c EXCEPT !.len = l, !.resident = r]
<1>1. c = [id |-> c.id, len |-> c.len, resident |-> c.resident, spilled |-> c.spilled]
  BY DEF Typed
<1>2. x \in [id : {c.id}, len : {l}, resident : {r}, spilled : {c.spilled}]
  BY <1>1
<1> HIDE DEF x
<1>3. x = [id |-> c.id, len |-> l, resident |-> r, spilled |-> c.spilled]
  BY <1>2, Record
<1> QED
  BY <1>3 DEF x

\* Blocks and files replaced.
LEMMA BlocksReplaced ==
  ASSUME NEW c, Typed(c), NEW r, NEW s
  PROVE  [c EXCEPT !.resident = r, !.spilled = s] = [id |-> c.id, len |-> c.len, resident |-> r, spilled |-> s]
<1> DEFINE x == [c EXCEPT !.resident = r, !.spilled = s]
<1>1. c = [id |-> c.id, len |-> c.len, resident |-> c.resident, spilled |-> c.spilled]
  BY DEF Typed
<1>2. x \in [id : {c.id}, len : {c.len}, resident : {r}, spilled : {s}]
  BY <1>1
<1> HIDE DEF x
<1>3. x = [id |-> c.id, len |-> c.len, resident |-> r, spilled |-> s]
  BY <1>2, Record
<1> QED
  BY <1>3 DEF x

\* Everything but the identity replaced.
LEMMA AllReplaced ==
  ASSUME NEW c, Typed(c), NEW l, NEW r, NEW s
  PROVE  [c EXCEPT !.len = l, !.resident = r, !.spilled = s] = [id |-> c.id, len |-> l, resident |-> r, spilled |-> s]
<1> DEFINE x == [c EXCEPT !.len = l, !.resident = r, !.spilled = s]
<1>1. c = [id |-> c.id, len |-> c.len, resident |-> c.resident, spilled |-> c.spilled]
  BY DEF Typed
<1>2. x \in [id : {c.id}, len : {l}, resident : {r}, spilled : {s}]
  BY <1>1
<1> HIDE DEF x
<1>3. x = [id |-> c.id, len |-> l, resident |-> r, spilled |-> s]
  BY <1>2, Record
<1> QED
  BY <1>3 DEF x

\* The identity replaced.
LEMMA IdReplaced ==
  ASSUME NEW c, Typed(c), NEW i
  PROVE  [c EXCEPT !.id = i] = [id |-> i, len |-> c.len, resident |-> c.resident, spilled |-> c.spilled]
<1> DEFINE x == [c EXCEPT !.id = i]
<1>1. c = [id |-> c.id, len |-> c.len, resident |-> c.resident, spilled |-> c.spilled]
  BY DEF Typed
<1>2. x \in [id : {i}, len : {c.len}, resident : {c.resident}, spilled : {c.spilled}]
  BY <1>1
<1> HIDE DEF x
<1>3. x = [id |-> i, len |-> c.len, resident |-> c.resident, spilled |-> c.spilled]
  BY <1>2, Record
<1> QED
  BY <1>3 DEF x

\* A position goes into its block; the other blocks stay as they are.
LEMMA AppendedFields ==
  ASSUME NEW c, Typed(c), NEW v
  PROVE  LET a == Appended(c, v)
             idx == c.len \div BlockSize
         IN  /\ a = [id |-> c.id, len |-> c.len + 1, resident |-> a.resident, spilled |-> c.spilled]
             /\ a.resident = [b \in DOMAIN c.resident \cup {idx} |-> a.resident[b]]
             /\ \A b \in DOMAIN c.resident \ {idx} : a.resident[b] = c.resident[b]
             /\ a.resident[idx] = Append(IF idx \in DOMAIN c.resident THEN c.resident[idx] ELSE <<>>, v)
<1> DEFINE idx == c.len \div BlockSize
           old == IF idx \in DOMAIN c.resident THEN c.resident[idx] ELSE <<>>
           r == Over(c.resident, [b \in {idx} |-> Append(old, v)])
<1>1. Appended(c, v) = [id |-> c.id, len |-> c.len + 1, resident |-> r, spilled |-> c.spilled]
  BY LenReplaced DEF Appended
<1>2. r = [b \in DOMAIN c.resident \cup {idx} |-> IF b \in {idx} THEN Append(old, v) ELSE c.resident[b]]
  BY DEF Over
<1> DEFINE a == Appended(c, v)
<1> HIDE DEF idx, old, r, a
<1>3. /\ a.resident = r
      /\ a = [id |-> c.id, len |-> c.len + 1, resident |-> a.resident, spilled |-> c.spilled]
  BY <1>1 DEF a
<1>4. /\ r = [b \in DOMAIN c.resident \cup {idx} |-> r[b]]
      /\ \A b \in DOMAIN c.resident \ {idx} : r[b] = c.resident[b]
      /\ r[idx] = Append(old, v)
  BY <1>2
<1>5. /\ a.resident = [b \in DOMAIN c.resident \cup {idx} |-> a.resident[b]]
      /\ \A b \in DOMAIN c.resident \ {idx} : a.resident[b] = c.resident[b]
      /\ a.resident[idx] = Append(old, v)
  BY <1>3, <1>4
<1> QED
  BY <1>3, <1>5 DEF idx, old, a

\* What is spilled is a file of its sequence.
LEMMA SpilledFields ==
  ASSUME NEW c, Typed(c), NEW V
  PROVE  Spilled(c, V) = [id |-> c.id, len |-> c.len,
                          resident |-> [b \in DOMAIN c.resident \ V |-> c.resident[b]],
                          spilled |-> [b \in DOMAIN c.spilled \cup V |-> Path(c.id, b)]]
<1>1. Without(c.resident, V) = [b \in DOMAIN c.resident \ V |-> c.resident[b]]
  BY DEF Without, Restrict
<1>2. c.spilled = [b \in DOMAIN c.spilled |-> Path(c.id, b)]
  BY DEF Typed
<1>3. Over(c.spilled, [b \in V |-> Path(c.id, b)]) = [b \in DOMAIN c.spilled \cup V |-> Path(c.id, b)]
  BY <1>2 DEF Over
<1> DEFINE r == Without(c.resident, V)
           s == Over(c.spilled, [b \in V |-> Path(c.id, b)])
<1>4. Spilled(c, V) = [c EXCEPT !.resident = r, !.spilled = s]
  BY DEF Spilled
<1> HIDE DEF r, s
<1>5. Spilled(c, V) = [id |-> c.id, len |-> c.len, resident |-> r, spilled |-> s]
  BY <1>4, BlocksReplaced
<1> QED
  BY <1>1, <1>3, <1>5 DEF r, s

\* What is read back is what the file holds.
LEMMA ReloadedFields ==
  ASSUME NEW c, Typed(c), NEW R \in SUBSET DOMAIN c.spilled, NEW d
  PROVE  Reloaded(c, R, d) = [id |-> c.id, len |-> c.len,
                              resident |-> [b \in DOMAIN c.resident \cup R |->
                                               IF b \in R THEN d[Path(c.id, b)] ELSE c.resident[b]],
                              spilled |-> [b \in DOMAIN c.spilled \ R |-> Path(c.id, b)]]
<1>1. c.spilled = [b \in DOMAIN c.spilled |-> Path(c.id, b)]
  BY DEF Typed
<1>2. Over(c.resident, [b \in R |-> d[c.spilled[b]]]) =
         [b \in DOMAIN c.resident \cup R |-> IF b \in R THEN d[Path(c.id, b)] ELSE c.resident[b]]
  BY <1>1 DEF Over
<1>3. Without(c.spilled, R) = [b \in DOMAIN c.spilled \ R |-> Path(c.id, b)]
  BY <1>1 DEF Without, Restrict
<1> DEFINE r == Over(c.resident, [b \in R |-> d[c.spilled[b]]])
           s == Without(c.spilled, R)
<1>4. Reloaded(c, R, d) = [c EXCEPT !.resident = r, !.spilled = s]
  BY DEF Reloaded
<1> HIDE DEF r, s
<1>5. Reloaded(c, R, d) = [id |-> c.id, len |-> c.len, resident |-> r, spilled |-> s]
  BY <1>4, BlocksReplaced
<1> QED
  BY <1>2, <1>3, <1>5 DEF r, s

\* One position more fills its block by one, and no other.
LEMMA OneMore ==
  ASSUME NEW n \in Nat, n < MaxPositions
  PROVE  /\ n + 1 \in 0..MaxPositions /\ n \in 0..MaxPositions
         /\ n \div BlockSize \in Nat
         /\ Used(n + 1) = Used(n) \cup {n \div BlockSize}
         /\ Filled(n + 1, n \div BlockSize) = (n % BlockSize) + 1
         /\ \A b \in Used(n) : b # n \div BlockSize => Filled(n + 1, b) = BlockSize /\ Filled(n, b) = BlockSize
<1> DEFINE q == n \div BlockSize
           r == n % BlockSize
           t == (n + 1) \div BlockSize
           u == (n + 1) % BlockSize
<1>1. BlockSize \in Nat \ {0} /\ n + 1 \in 0..MaxPositions /\ n \in 0..MaxPositions /\ n + 1 \in Nat
  BY KVCacheAssumption
<1>2. q \in Nat /\ r \in Nat /\ r < BlockSize /\ n = q * BlockSize + r
  BY Division
<1>3. q * BlockSize \in Nat /\ (q + 1) * BlockSize = q * BlockSize + BlockSize
  BY <1>1, <1>2, SMT
<1> HIDE DEF q, r
<1>4. CASE r + 1 < BlockSize
  <2>1. t = q /\ u = r + 1
    <3>1. n + 1 = q * BlockSize + (r + 1) /\ r + 1 \in Nat
      BY <1>1, <1>2, <1>3
    <3> QED
      BY <1>1, <1>2, <1>4, <3>1, BlockAt
  <2> HIDE DEF t, u
  <2>2. \A b : b \in Used(n + 1) <=> b \in Nat /\ (b < q \/ b = q)
    BY <1>1, <1>2, <2>1, UsedBlocks DEF t, u
  <2>3. \A b : b \in Used(n) \cup {q} <=> b \in Nat /\ (b < q \/ b = q)
    BY <1>1, <1>2, UsedBlocks DEF q, r
  <2>4. Filled(n + 1, q) = r + 1
    BY <1>1, <1>2, <2>1, Fullness DEF t, u
  <2>5. \A b \in Used(n) : b # q => Filled(n + 1, b) = BlockSize /\ Filled(n, b) = BlockSize
    <3> SUFFICES ASSUME NEW b \in Used(n), b # q
                 PROVE  Filled(n + 1, b) = BlockSize /\ Filled(n, b) = BlockSize
      OBVIOUS
    <3>1. b \in Nat /\ b < q
      BY <1>1, UsedBlocks DEF q, r
    <3> QED
      BY <1>1, <1>2, <2>1, <3>1, Fullness DEF t, u, q
  <2>6. Used(n + 1) = Used(n) \cup {q}
    BY <2>2, <2>3
  <2> QED
    BY <1>1, <1>2, <2>6, <2>4, <2>5 DEF q, r
<1>5. CASE r + 1 = BlockSize
  <2>1. t = q + 1 /\ u = 0
    <3>1. n + 1 = (q + 1) * BlockSize + 0 /\ q + 1 \in Nat
      BY <1>1, <1>2, <1>3, <1>5
    <3> QED
      BY <1>1, <1>2, <1>5, <3>1, BlockAt
  <2> HIDE DEF t, u
  <2>2. \A b : b \in Used(n + 1) <=> b \in Nat /\ (b < q \/ b = q)
    BY <1>1, <1>2, <2>1, UsedBlocks DEF t, u
  <2>3. \A b : b \in Used(n) \cup {q} <=> b \in Nat /\ (b < q \/ b = q)
    BY <1>1, <1>2, UsedBlocks DEF q, r
  <2>4. Filled(n + 1, q) = r + 1
    BY <1>1, <1>2, <1>5, <2>1, Fullness DEF t, u
  <2>5. \A b \in Used(n) : b # q => Filled(n + 1, b) = BlockSize /\ Filled(n, b) = BlockSize
    <3> SUFFICES ASSUME NEW b \in Used(n), b # q
                 PROVE  Filled(n + 1, b) = BlockSize /\ Filled(n, b) = BlockSize
      OBVIOUS
    <3>1. b \in Nat /\ b < q
      BY <1>1, UsedBlocks DEF q, r
    <3> QED
      BY <1>1, <1>2, <2>1, <3>1, Fullness DEF t, u, q
  <2>6. Used(n + 1) = Used(n) \cup {q}
    BY <2>2, <2>3
  <2> QED
    BY <1>1, <1>2, <2>6, <2>4, <2>5 DEF q, r
<1> QED
  BY <1>1, <1>2, <1>4, <1>5

\* An appended position is the last of its block; nothing else changes.
LEMMA AppendedSound ==
  ASSUME NEW c, NEW d, Sound(c, d), c.len < MaxPositions, NEW v \in Value
  PROVE  LET a == Appended(c, v)
             idx == c.len \div BlockSize
         IN  /\ Sound(a, d)
             /\ a.id = c.id /\ a.len = c.len + 1 /\ idx \in DOMAIN a.resident
             /\ \A b \in Used(c.len) \ {idx} : Content(a, d, b) = Content(c, d, b)
             /\ \E old \in Seq(Value) :
                   /\ Len(old) = c.len % BlockSize
                   /\ idx \in Used(c.len) => old = Content(c, d, idx)
                   /\ Content(a, d, idx) = Append(old, v)
<1> DEFINE a == Appended(c, v)
           n == c.len
           idx == n \div BlockSize
           old == IF idx \in DOMAIN c.resident THEN c.resident[idx] ELSE <<>>
<1>1. n \in Nat /\ n < MaxPositions /\ n \in 0..MaxPositions /\ Typed(c) /\ c.id \in Owner
  BY KVCacheAssumption DEF Sound, Typed
<1>2. /\ n + 1 \in 0..MaxPositions
      /\ idx \in Nat
      /\ Used(n + 1) = Used(n) \cup {idx}
      /\ Filled(n + 1, idx) = (n % BlockSize) + 1
      /\ \A b \in Used(n) : b # idx => Filled(n + 1, b) = BlockSize /\ Filled(n, b) = BlockSize
  BY <1>1, OneMore
<1>3. Filled(n, idx) = n % BlockSize /\ n % BlockSize \in Nat /\ n % BlockSize < BlockSize
  BY <1>1, Fullness, Division
<1>4. BlockSize \in Nat
  BY KVCacheAssumption
<1>5. idx \notin DOMAIN c.spilled
  BY <1>3, <1>4 DEF Sound
<1>6. old \in Seq(Value) /\ Len(old) = n % BlockSize
  <2>1. CASE idx \in DOMAIN c.resident
    BY <1>3, <2>1 DEF Sound, Typed
  <2>2. CASE idx \notin DOMAIN c.resident
    <3>1. idx \notin Used(n)
      BY <1>5, <2>2 DEF Sound
    <3>2. ~ (n % BlockSize > 0)
      BY <1>1, <1>2, <3>1, UsedBlocks
    <3> QED
      BY <1>3, <2>2, <3>2
  <2> QED
    BY <2>1, <2>2
<1>7. Append(old, v) \in Seq(Value) /\ Len(Append(old, v)) = (n % BlockSize) + 1
  BY <1>6
<1>8. /\ a = [id |-> c.id, len |-> n + 1, resident |-> a.resident, spilled |-> c.spilled]
      /\ a.resident = [b \in DOMAIN c.resident \cup {idx} |-> a.resident[b]]
      /\ \A b \in DOMAIN c.resident \ {idx} : a.resident[b] = c.resident[b]
      /\ a.resident[idx] = Append(old, v)
  BY <1>1, AppendedFields
<1> HIDE DEF a, idx, old, n
<1>9. a.id = c.id /\ a.len = n + 1 /\ a.spilled = c.spilled /\ DOMAIN a.resident = DOMAIN c.resident \cup {idx}
  BY <1>8
<1>10. Typed(a)
  <2>1. a \in [id : Owner, len : 0..MaxPositions, resident : {a.resident}, spilled : {a.spilled}]
    BY <1>1, <1>2, <1>8, <1>9
  <2>2. \A b \in DOMAIN a.resident : a.resident[b] \in Seq(Value)
    BY <1>1, <1>7, <1>8, <1>9 DEF Typed
  <2>3. a.resident \in [DOMAIN a.resident -> Seq(Value)]
    BY <1>8, <1>9, <2>2
  <2>4. a.spilled = [b \in DOMAIN a.spilled |-> Path(a.id, b)]
    BY <1>1, <1>9 DEF Typed
  <2> QED
    BY <2>1, <2>3, <2>4 DEF Typed
<1>11. \A b \in DOMAIN a.resident : Len(a.resident[b]) = Filled(a.len, b)
  BY <1>2, <1>7, <1>8, <1>9 DEF Sound, n
<1>12. \A b \in DOMAIN a.spilled : Filled(a.len, b) = BlockSize
  BY <1>2, <1>5, <1>9 DEF Sound, n
<1>13. Sound(a, d)
  BY <1>2, <1>5, <1>9, <1>10, <1>11, <1>12 DEF Sound, n
<1>14. \A b \in Used(n) \ {idx} : Content(a, d, b) = Content(c, d, b)
  BY <1>8, <1>9 DEF Content
<1>15. Content(a, d, idx) = Append(old, v)
  BY <1>8, <1>9 DEF Content
<1>16. idx \in Used(n) => old = Content(c, d, idx)
  BY <1>5 DEF Content, Sound, old, n
<1> QED
  BY <1>6, <1>9, <1>13, <1>14, <1>15, <1>16 DEF a, idx, n

\* What is written is what the blocks hold; the other files stay as they are.
LEMMA WrittenFiles ==
  ASSUME NEW c, NEW V
  PROVE  /\ DOMAIN Written(c, V) = DOMAIN disk \cup {Path(c.id, b) : b \in V}
         /\ \A b \in V : Written(c, V)[Path(c.id, b)] = c.resident[b]
         /\ \A p \in DOMAIN disk : p \notin {Path(c.id, b) : b \in V} => Written(c, V)[p] = disk[p]
<1> DEFINE F == {Path(c.id, b) : b \in V}
           g == [p \in F |-> c.resident[p[2]]]
<1>1. Written(c, V) = [x \in DOMAIN disk \cup F |-> IF x \in F THEN g[x] ELSE disk[x]]
  BY DEF Written, Over
<1>2. \A b \in V : Path(c.id, b) \in F /\ g[Path(c.id, b)] = c.resident[b]
  BY DEF Path
<1> HIDE DEF F, g
<1> QED
  BY <1>1, <1>2 DEF F

\* Spilling full blocks moves them to files and changes none.
LEMMA SpilledSound ==
  ASSUME NEW c, Sound(c, disk), NEW V \in SUBSET DOMAIN c.resident,
         \A b \in V : Filled(c.len, b) = BlockSize
  PROVE  LET s == Spilled(c, V)
             d == Written(c, V)
         IN  /\ Sound(s, d)
             /\ s.id = c.id /\ s.len = c.len
             /\ DOMAIN s.resident = DOMAIN c.resident \ V
             /\ \A b \in Used(c.len) : Content(s, d, b) = Content(c, disk, b)
<1> DEFINE s == Spilled(c, V)
           d == Written(c, V)
<1>1. s = [id |-> c.id, len |-> c.len,
           resident |-> [b \in DOMAIN c.resident \ V |-> c.resident[b]],
           spilled |-> [b \in DOMAIN c.spilled \cup V |-> Path(c.id, b)]]
  BY SpilledFields DEF Sound
<1>2. /\ \A b \in V : Path(c.id, b) \in DOMAIN d /\ d[Path(c.id, b)] = c.resident[b]
      /\ \A b \in DOMAIN c.spilled : /\ Path(c.id, b) \in DOMAIN d
                                     /\ d[Path(c.id, b)] = disk[Path(c.id, b)]
  <2>1. /\ DOMAIN d = DOMAIN disk \cup {Path(c.id, b) : b \in V}
        /\ \A b \in V : d[Path(c.id, b)] = c.resident[b]
        /\ \A p \in DOMAIN disk : p \notin {Path(c.id, b) : b \in V} => d[p] = disk[p]
    BY WrittenFiles
  <2> HIDE DEF d
  <2>2. \A b \in V : Path(c.id, b) \in DOMAIN d
    BY <2>1
  <2>3. \A b \in DOMAIN c.spilled : /\ Path(c.id, b) \in DOMAIN disk
                                    /\ Path(c.id, b) \notin {Path(c.id, a) : a \in V}
    BY DEF Sound, Path
  <2> QED
    BY <2>1, <2>2, <2>3
<1> HIDE DEF s, d
<1>3. /\ s.id = c.id /\ s.len = c.len
      /\ s.resident = [b \in DOMAIN c.resident \ V |-> c.resident[b]]
      /\ s.spilled = [b \in DOMAIN c.spilled \cup V |-> Path(c.id, b)]
  BY <1>1
<1>4. DOMAIN s.resident = DOMAIN c.resident \ V /\ DOMAIN s.spilled = DOMAIN c.spilled \cup V
  BY <1>3
<1>5. Typed(s)
  <2>1. s \in [id : Owner, len : 0..MaxPositions, resident : {s.resident}, spilled : {s.spilled}]
    BY <1>1, <1>3 DEF Sound, Typed
  <2>2. s.resident \in [DOMAIN s.resident -> Seq(Value)]
    BY <1>3, <1>4 DEF Sound, Typed
  <2>3. s.spilled = [b \in DOMAIN s.spilled |-> Path(s.id, b)]
    BY <1>3, <1>4
  <2> QED
    BY <2>1, <2>2, <2>3 DEF Typed
<1>6. \A b \in DOMAIN s.resident : s.resident[b] = c.resident[b]
  BY <1>3
<1>7. \A b \in V : c.resident[b] \in Seq(Value) /\ Len(c.resident[b]) = BlockSize
  BY DEF Sound, Typed
<1>8. Sound(s, d)
  <2>1. DOMAIN s.resident \cap DOMAIN s.spilled = {}
    BY <1>4 DEF Sound
  <2>2. DOMAIN s.resident \cup DOMAIN s.spilled = Used(s.len)
    BY <1>3, <1>4 DEF Sound
  <2>3. \A b \in DOMAIN s.resident : Len(s.resident[b]) = Filled(s.len, b)
    BY <1>3, <1>4, <1>6 DEF Sound
  <2>4. \A b \in DOMAIN s.spilled : /\ Filled(s.len, b) = BlockSize
                                    /\ Path(s.id, b) \in DOMAIN d
                                    /\ d[Path(s.id, b)] \in Seq(Value)
                                    /\ Len(d[Path(s.id, b)]) = BlockSize
    BY <1>2, <1>3, <1>4, <1>7 DEF Sound
  <2> QED
    BY <1>5, <2>1, <2>2, <2>3, <2>4 DEF Sound
<1>9. \A b \in Used(c.len) : Content(s, d, b) = Content(c, disk, b)
  <2> SUFFICES ASSUME NEW b \in Used(c.len)
               PROVE  Content(s, d, b) = Content(c, disk, b)
    OBVIOUS
  <2>1. CASE b \in V
    BY <1>2, <1>3, <1>4, <2>1 DEF Content
  <2>2. CASE b \in DOMAIN c.resident \ V
    BY <1>4, <1>6, <2>2 DEF Content
  <2>3. CASE b \in DOMAIN c.spilled
    BY <1>2, <1>3, <1>4, <2>3 DEF Content, Sound
  <2> QED
    BY <2>1, <2>2, <2>3 DEF Sound
<1> QED
  BY <1>3, <1>4, <1>8, <1>9 DEF s, d

\* Reading blocks back moves them to RAM and changes none.
LEMMA ReloadedSound ==
  ASSUME NEW c, NEW d, Sound(c, d), NEW R \in SUBSET DOMAIN c.spilled
  PROVE  LET s == Reloaded(c, R, d)
         IN  /\ Sound(s, d)
             /\ s.id = c.id /\ s.len = c.len
             /\ DOMAIN s.resident = DOMAIN c.resident \cup R
             /\ \A b \in Used(c.len) : Content(s, d, b) = Content(c, d, b)
<1> DEFINE s == Reloaded(c, R, d)
<1>1. s = [id |-> c.id, len |-> c.len,
           resident |-> [b \in DOMAIN c.resident \cup R |->
                            IF b \in R THEN d[Path(c.id, b)] ELSE c.resident[b]],
           spilled |-> [b \in DOMAIN c.spilled \ R |-> Path(c.id, b)]]
  BY ReloadedFields DEF Sound
<1> HIDE DEF s
<1>2. /\ s.id = c.id /\ s.len = c.len
      /\ s.resident = [b \in DOMAIN c.resident \cup R |->
                          IF b \in R THEN d[Path(c.id, b)] ELSE c.resident[b]]
      /\ s.spilled = [b \in DOMAIN c.spilled \ R |-> Path(c.id, b)]
  BY <1>1
<1>3. DOMAIN s.resident = DOMAIN c.resident \cup R /\ DOMAIN s.spilled = DOMAIN c.spilled \ R
  BY <1>2
<1>4. /\ \A b \in R : s.resident[b] = d[Path(c.id, b)]
      /\ \A b \in DOMAIN c.resident : s.resident[b] = c.resident[b]
  BY <1>2 DEF Sound
<1>5. Typed(s)
  <2>1. s \in [id : Owner, len : 0..MaxPositions, resident : {s.resident}, spilled : {s.spilled}]
    BY <1>1, <1>2 DEF Sound, Typed
  <2>2. s.resident \in [DOMAIN s.resident -> Seq(Value)]
    <3>1. \A b \in DOMAIN s.resident : s.resident[b] \in Seq(Value)
      BY <1>3, <1>4 DEF Sound, Typed
    <3> QED
      BY <1>2, <1>3, <3>1
  <2>3. s.spilled = [b \in DOMAIN s.spilled |-> Path(s.id, b)]
    BY <1>2, <1>3
  <2> QED
    BY <2>1, <2>2, <2>3 DEF Typed
<1>6. Sound(s, d)
  <2>1. DOMAIN s.resident \cap DOMAIN s.spilled = {}
    BY <1>3 DEF Sound
  <2>2. DOMAIN s.resident \cup DOMAIN s.spilled = Used(s.len)
    BY <1>2, <1>3 DEF Sound
  <2>3. \A b \in DOMAIN s.resident : Len(s.resident[b]) = Filled(s.len, b)
    BY <1>2, <1>3, <1>4 DEF Sound
  <2>4. \A b \in DOMAIN s.spilled : /\ Filled(s.len, b) = BlockSize
                                    /\ Path(s.id, b) \in DOMAIN d
                                    /\ d[Path(s.id, b)] \in Seq(Value)
                                    /\ Len(d[Path(s.id, b)]) = BlockSize
    BY <1>2, <1>3 DEF Sound
  <2> QED
    BY <1>5, <2>1, <2>2, <2>3, <2>4 DEF Sound
<1>7. \A b \in Used(c.len) : Content(s, d, b) = Content(c, d, b)
  BY <1>2, <1>3, <1>4 DEF Content, Sound
<1> QED
  BY <1>2, <1>3, <1>6, <1>7 DEF s

\* What a cut keeps are the blocks its positions use, and they were that full before.
LEMMA FewerPositions ==
  ASSUME NEW m \in 0..MaxPositions, NEW n \in 0..m
  PROVE  /\ n \in 0..MaxPositions
         /\ Used(n) \subseteq Used(m)
         /\ \A b \in Nat : Kept(n, b) <=> b \in Used(n)
         /\ \A b \in Used(n) : IF b = n \div BlockSize
                               THEN Filled(n, b) = n % BlockSize /\ n % BlockSize <= Filled(m, b)
                               ELSE Filled(n, b) = BlockSize /\ Filled(m, b) = BlockSize
<1> DEFINE q == n \div BlockSize
           r == n % BlockSize
           t == m \div BlockSize
           u == m % BlockSize
<1>1. BlockSize \in Nat \ {0} /\ n \in 0..MaxPositions /\ n \in Nat /\ m \in Nat /\ n <= m
  BY KVCacheAssumption
<1>2. /\ q \in Nat /\ r \in Nat /\ r < BlockSize /\ n = q * BlockSize + r
      /\ t \in Nat /\ u \in Nat /\ u < BlockSize /\ m = t * BlockSize + u
  BY <1>1, Division
<1>3. q <= t
  BY <1>1, DivMono
<1>4. q = t => r <= u
  <2>1. q * BlockSize \in Nat
    BY <1>1, <1>2, SMT
  <2> HIDE DEF q, r, t, u
  <2> QED
    BY <1>1, <1>2, <2>1
<1>5. \A b : b \in Used(n) <=> b \in Nat /\ (b < q \/ (b = q /\ r > 0))
  BY <1>1, UsedBlocks
<1>6. \A b : b \in Used(m) <=> b \in Nat /\ (b < t \/ (b = t /\ u > 0))
  BY <1>1, UsedBlocks
<1>7. \A b \in Nat : Kept(n, b) <=> b \in Used(n)
  BY <1>5 DEF Kept
<1> HIDE DEF q, r, t, u
<1>8. Used(n) \subseteq Used(m)
  BY <1>2, <1>3, <1>4, <1>5, <1>6
<1>9. ASSUME NEW b \in Used(n)
      PROVE  IF b = q THEN Filled(n, b) = r /\ r <= Filled(m, b)
             ELSE Filled(n, b) = BlockSize /\ Filled(m, b) = BlockSize
  <2>1. b \in Nat /\ (b < q \/ b = q)
    BY <1>5
  <2>2. /\ b < q => Filled(n, b) = BlockSize
        /\ b = q => Filled(n, b) = r
        /\ b < t => Filled(m, b) = BlockSize
        /\ b = t => Filled(m, b) = u
    BY <1>1, <2>1, Fullness DEF q, r, t, u
  <2> QED
    BY <1>1, <1>2, <1>3, <1>4, <2>1, <2>2
<1> QED
  BY <1>1, <1>7, <1>8, <1>9 DEF q, r

\* A cut that is not refused keeps a sound cache, and of every block what precedes it.
LEMMA CutSound ==
  ASSUME NEW c, NEW d, Sound(c, d), NEW n \in 0..c.len, ~Refused(c, n)
  PROVE  LET s == Cut(c, n)
         IN  /\ Sound(s, d)
             /\ s.id = c.id /\ s.len = n
             /\ DOMAIN s.resident \subseteq DOMAIN c.resident
             /\ DOMAIN s.spilled = {b \in DOMAIN c.spilled : Kept(n, b)}
             /\ \A b \in Used(n) : Content(s, d, b) =
                   IF b = n \div BlockSize THEN SubSeq(Content(c, d, b), 1, n % BlockSize)
                   ELSE Content(c, d, b)
<1> DEFINE s == Cut(c, n)
           q == n \div BlockSize
           r == n % BlockSize
           res == [b \in {x \in DOMAIN c.resident : Kept(n, x)} |->
                      IF b = q THEN SubSeq(c.resident[b], 1, r) ELSE c.resident[b]]
           spl == Restrict(c.spilled, {x \in DOMAIN c.spilled : Kept(n, x)})
<1>1. /\ Typed(c) /\ c.len \in 0..MaxPositions /\ c.id \in Owner /\ n \in Nat
      /\ BlockSize \in Nat \ {0} /\ n <= c.len
  BY KVCacheAssumption DEF Sound, Typed
<1>2. s = [c EXCEPT !.len = n, !.resident = res, !.spilled = spl]
  BY DEF Cut
<1>3. spl = [b \in {x \in DOMAIN c.spilled : Kept(n, x)} |-> Path(c.id, b)]
  BY <1>1 DEF Restrict, Typed
<1>4. r \in Nat /\ q \in Nat
  BY <1>1, Division
<1> HIDE DEF s, res, spl, q, r
<1>5. s = [id |-> c.id, len |-> n, resident |-> res, spilled |-> spl]
  BY <1>1, <1>2, AllReplaced
<1>6. s.id = c.id /\ s.len = n /\ s.resident = res /\ s.spilled = spl
  BY <1>5
<1>7. /\ DOMAIN res = {x \in DOMAIN c.resident : Kept(n, x)}
      /\ \A b \in DOMAIN res : res[b] = IF b = q THEN SubSeq(c.resident[b], 1, r) ELSE c.resident[b]
      /\ res = [b \in DOMAIN res |-> res[b]]
  BY DEF res
<1>8. DOMAIN spl = {x \in DOMAIN c.spilled : Kept(n, x)}
  BY <1>3
<1>9. /\ n \in 0..MaxPositions
      /\ Used(n) \subseteq Used(c.len)
      /\ \A b \in Nat : Kept(n, b) <=> b \in Used(n)
      /\ \A b \in Used(n) : IF b = q THEN Filled(n, b) = r /\ r <= Filled(c.len, b)
                            ELSE Filled(n, b) = BlockSize /\ Filled(c.len, b) = BlockSize
  BY <1>1, FewerPositions DEF q, r
<1>10. \A b \in Used(c.len) : b \in Nat
  BY <1>1, UsedBlocks
<1>11. ASSUME NEW b \in DOMAIN res
       PROVE  /\ b \in DOMAIN c.resident /\ b \in Used(n)
              /\ res[b] \in Seq(Value) /\ Len(res[b]) = Filled(n, b)
  <2>1. b \in DOMAIN c.resident /\ Kept(n, b) /\ b \in Used(c.len)
    BY <1>7 DEF Sound
  <2>2. b \in Used(n)
    BY <1>9, <1>10, <2>1
  <2>3. c.resident[b] \in Seq(Value) /\ Len(c.resident[b]) = Filled(c.len, b)
    BY <2>1 DEF Sound, Typed
  <2>4. CASE b = q
    <3>1. r <= Len(c.resident[b]) /\ Filled(n, b) = r
      BY <1>9, <2>2, <2>3, <2>4
    <3>2. SubSeq(c.resident[b], 1, r) \in Seq(Value) /\ Len(SubSeq(c.resident[b], 1, r)) = r
      BY <1>4, <2>3, <3>1
    <3> QED
      BY <1>7, <2>1, <2>2, <2>4, <3>1, <3>2
  <2>5. CASE b # q
    BY <1>7, <1>9, <2>1, <2>2, <2>3, <2>5
  <2> QED
    BY <2>4, <2>5
<1>12. ASSUME NEW b \in DOMAIN spl
       PROVE  b \in DOMAIN c.spilled /\ b \in Used(n) /\ b # q
  <2>1. b \in DOMAIN c.spilled /\ Kept(n, b) /\ b \in Used(c.len)
    BY <1>8 DEF Sound
  <2>2. b \in Used(n)
    BY <1>9, <1>10, <2>1
  <2>3. b # q
    BY <1>1, <1>4, <2>1 DEF Refused, Kept, q, r
  <2> QED
    BY <2>1, <2>2, <2>3
<1>13. Typed(s)
  <2>1. s \in [id : Owner, len : 0..MaxPositions, resident : {s.resident}, spilled : {s.spilled}]
    BY <1>1, <1>5, <1>6, <1>9
  <2>2. s.resident \in [DOMAIN s.resident -> Seq(Value)]
    BY <1>6, <1>7, <1>11
  <2>3. s.spilled = [b \in DOMAIN s.spilled |-> Path(s.id, b)]
    BY <1>3, <1>6, <1>8
  <2> QED
    BY <2>1, <2>2, <2>3 DEF Typed
<1>14. Sound(s, d)
  <2>1. DOMAIN s.resident \cap DOMAIN s.spilled = {}
    BY <1>6, <1>7, <1>8 DEF Sound
  <2>2. DOMAIN s.resident \cup DOMAIN s.spilled = Used(s.len)
    <3>1. ASSUME NEW b \in Used(n)
          PROVE  b \in DOMAIN res \cup DOMAIN spl
      <4>1. Kept(n, b) /\ b \in Used(c.len)
        BY <1>9, <1>10
      <4> QED
        BY <1>7, <1>8, <4>1 DEF Sound
    <3> QED
      BY <1>6, <1>11, <1>12, <3>1
  <2>3. \A b \in DOMAIN s.resident : Len(s.resident[b]) = Filled(s.len, b)
    BY <1>6, <1>11
  <2>4. \A b \in DOMAIN s.spilled : /\ Filled(s.len, b) = BlockSize
                                    /\ Path(s.id, b) \in DOMAIN d
                                    /\ d[Path(s.id, b)] \in Seq(Value)
                                    /\ Len(d[Path(s.id, b)]) = BlockSize
    BY <1>6, <1>9, <1>12 DEF Sound
  <2> QED
    BY <1>13, <2>1, <2>2, <2>3, <2>4 DEF Sound
<1>15. ASSUME NEW b \in Used(n)
       PROVE  Content(s, d, b) = IF b = q THEN SubSeq(Content(c, d, b), 1, r) ELSE Content(c, d, b)
  <2>1. CASE b \in DOMAIN res
    BY <1>6, <1>7, <1>11, <2>1 DEF Content
  <2>2. CASE b \notin DOMAIN res
    <3>1. b \in DOMAIN spl
      BY <1>6, <1>14, <2>2 DEF Sound
    <3> QED
      BY <1>6, <1>12, <2>2, <3>1 DEF Content, Sound
  <2> QED
    BY <2>1, <2>2
<1> QED
  BY <1>6, <1>7, <1>8, <1>14, <1>15 DEF s, q, r

-----------------------------------------------------------------------------
(* The inductive invariant.                                                *)

\* A disk holds files of sequences of values.
DiskOK(d) == d \in [DOMAIN d -> Seq(Value)] /\ DOMAIN d \subseteq Owner \X Block

\* Each variable has its type, and the caches are sound.
Sane ==
    /\ status \in [Owner -> {"new", "prefill", "decode", "broken", "dropped", "kept"}]
    /\ floor \in [Owner -> 0..MaxPositions]
    /\ window \in Windows
    /\ DiskOK(disk)
    /\ cache = [o \in Owner |-> cache[o]]
    /\ \A o \in Owner : Sound(cache[o], disk)

\* A sequence's files bear its own name, and what the prompt cache keeps has none.
Named ==
    /\ \A s \in Session : cache[s].id = s
    /\ \A e \in Entry : DOMAIN cache[e].spilled = {}

\* A sequence not begun is empty.
Fresh == \A s \in Session : status[s] = "new" => cache[s].len = 0

IInv == Sane /\ Named /\ Fresh

-----------------------------------------------------------------------------
(* A pass over one position.                                               *)

\* What the victims are: full blocks, and never the one being written.
LEMMA VictimsFull ==
  ASSUME NEW c, NEW d, Sound(c, d), NEW n \in Nat, n < MaxPositions, c.len = n + 1
  PROVE  /\ Victims(c, n \div BlockSize) \subseteq DOMAIN c.resident \ {n \div BlockSize}
         /\ \A b \in Victims(c, n \div BlockSize) : Filled(c.len, b) = BlockSize
<1>1. Victims(c, n \div BlockSize) \subseteq DOMAIN c.resident \ {n \div BlockSize}
  BY DEF Victims, Lowest
<1>2. \A b \in DOMAIN c.resident \ {n \div BlockSize} : Filled(c.len, b) = BlockSize
  <2>1. /\ Used(n + 1) = Used(n) \cup {n \div BlockSize}
        /\ \A b \in Used(n) : b # n \div BlockSize => Filled(n + 1, b) = BlockSize
    BY OneMore
  <2>2. DOMAIN c.resident \subseteq Used(n + 1)
    BY DEF Sound
  <2> QED
    BY <2>1, <2>2
<1> QED
  BY <1>1, <1>2

\* Files written under a sequence's name leave every other sequence's files alone.
LEMMA WrittenOwn ==
  ASSUME NEW c, Sound(c, disk), DiskOK(disk), NEW V \in SUBSET DOMAIN c.resident
  PROVE  /\ DiskOK(Written(c, V))
         /\ \A p \in DOMAIN disk : p[1] # c.id => /\ p \in DOMAIN Written(c, V)
                                                 /\ Written(c, V)[p] = disk[p]
<1> DEFINE d == Written(c, V)
           F == {Path(c.id, b) : b \in V}
<1>1. /\ DOMAIN d = DOMAIN disk \cup F
      /\ \A b \in V : d[Path(c.id, b)] = c.resident[b]
      /\ \A p \in DOMAIN disk : p \notin F => d[p] = disk[p]
  BY WrittenFiles
<1>2. d = [x \in DOMAIN d |-> d[x]]
  BY DEF Written, Over
<1>3. F \subseteq Owner \X Block
  BY DEF Sound, Typed, Used, Path
<1>4. \A p \in DOMAIN d : d[p] \in Seq(Value)
  <2>1. \A p \in DOMAIN disk : disk[p] \in Seq(Value)
    BY DEF DiskOK
  <2>2. \A b \in V : c.resident[b] \in Seq(Value)
    BY DEF Sound, Typed
  <2>3. \A p \in F : \E b \in V : p = Path(c.id, b)
    OBVIOUS
  <2> HIDE DEF d, F
  <2> QED
    BY <1>1, <2>1, <2>2, <2>3
<1>5. \A p \in F : p[1] = c.id
  BY DEF Path
<1> HIDE DEF d, F
<1>6. DiskOK(d)
  BY <1>1, <1>2, <1>3, <1>4 DEF DiskOK
<1>7. \A p \in DOMAIN disk : p[1] # c.id => p \in DOMAIN d /\ d[p] = disk[p]
  BY <1>1, <1>5
<1> QED
  BY <1>6, <1>7 DEF d

\* One owner's cache and its own files change, as a position more makes them.
Grown(s, v) ==
    /\ cache' = [cache EXCEPT ![s] = cache'[s]]
    /\ Sound(cache'[s], disk')
    /\ cache'[s].id = s /\ cache'[s].len = cache[s].len + 1
    /\ DiskOK(disk')
    /\ \A p \in DOMAIN disk : p[1] # s => p \in DOMAIN disk' /\ disk'[p] = disk[p]
    /\ \A b \in Used(cache[s].len + 1) :
          Content(cache'[s], disk', b) = Content(Appended(cache[s], v), disk, b)

\* A block is finite, and so is every set of used ones.
LEMMA FiniteBlocks ==
  ASSUME NEW n, NEW S \in SUBSET Used(n)
  PROVE  S \in SUBSET Nat /\ IsFiniteSet(S)
<1>1. MaxPositions - 1 \in Nat
  BY KVCacheAssumption
<1>2. 0 \in Int /\ (MaxPositions - 1) \div BlockSize \in Int
  BY <1>1, Division
<1>3. IsFiniteSet(Block)
  BY <1>2, FS_Interval DEF Block
<1>4. S \in SUBSET Block
  BY DEF Used
<1>5. S \in SUBSET Nat
  BY <1>2, <1>4 DEF Block
<1> QED
  BY <1>3, <1>4, <1>5, FS_Subset

\* What a pass leaves when no operation on a file failed it.
Clean(s) ==
    /\ status' = status
    /\ \A p \in Reach(cache'[s]) : p \div BlockSize \in DOMAIN cache'[s].resident
    /\ \E v \in Value :
          LET a == Appended(cache[s], v)
              V == Victims(a, cache[s].len \div BlockSize)
          IN  DOMAIN cache'[s].resident = (DOMAIN a.resident \ V) \cup Needed(Spilled(a, V))

\* Spilled or read back, in whole or in part, the cache is the old one and a position.
LEMMA PositionGrows ==
  ASSUME IInv, NEW s \in Session, Position(s)
  PROVE  /\ \E v \in Value : Grown(s, v)
         /\ Clean(s) \/ (s \in Flaky /\ status' = [status EXCEPT ![s] = "broken"])
<1>1. /\ Sound(cache[s], disk) /\ DiskOK(disk) /\ cache[s].id = s /\ s \in Owner
      /\ cache[s].len \in Nat /\ cache[s].len < MaxPositions /\ cache = [o \in Owner |-> cache[o]]
      /\ window \in Nat
  <2>1. s \in Owner /\ window \in Nat
    BY KVCacheAssumption DEF Owner, IInv, Sane
  <2>2. Sound(cache[s], disk) /\ DiskOK(disk) /\ cache[s].id = s /\ cache = [o \in Owner |-> cache[o]]
    BY <2>1 DEF IInv, Sane, Named
  <2>3. cache[s].len \in Nat
    BY <2>2 DEF Sound, Typed
  <2>4. cache[s].len < MaxPositions
    BY DEF Position
  <2> QED
    BY <2>1, <2>2, <2>3, <2>4
<1> DEFINE n == cache[s].len
           c(v) == Appended(cache[s], v)
           V(v) == Victims(c(v), n \div BlockSize)
           spilt(v) == Spilled(c(v), V(v))
           files(v) == Written(c(v), V(v))
           need(v) == Needed(spilt(v))
           lost(v) == {b \in need(v) : spilt(v).spilled[b] \notin DOMAIN files(v)}
           back(v) == Reloaded(spilt(v), need(v), files(v))
           Whole1(v) ==
              /\ lost(v) = {}
              /\ cache' = [cache EXCEPT ![s] = back(v)]
              /\ disk' = files(v)
              /\ status' = IF \A p \in Reach(back(v)) : InRam(back(v), p) THEN status
                           ELSE [status EXCEPT ![s] = "broken"]
           Spill1(v) ==
              /\ s \in Flaky
              /\ \E k \in 0..(Cardinality(V(v)) - 1) :
                       LET W == Lowest(V(v), k) IN
                       /\ cache' = [cache EXCEPT ![s] = Spilled(c(v), W)]
                       /\ disk' = Written(c(v), W)
              /\ status' = [status EXCEPT ![s] = "broken"]
           Load1(v) ==
              /\ \E k \in 0..(Cardinality(need(v)) - 1) :
                       LET R == Lowest(need(v), k)
                           next == Lowest(need(v), k + 1) \ R IN
                       /\ s \in Flaky \/ next \subseteq lost(v)
                       /\ R \cap lost(v) = {}
                       /\ cache' = [cache EXCEPT ![s] = Reloaded(spilt(v), R, files(v))]
              /\ disk' = files(v)
              /\ status' = [status EXCEPT ![s] = "broken"]
<1>2. PICK v \in Value : Whole1(v) \/ Spill1(v) \/ Load1(v)
  <2>1. Writes(s) \subseteq Value
    BY KVCacheAssumption
  <2>2. \E v \in Writes(s) : Whole1(v) \/ Spill1(v) \/ Load1(v)
    BY DEF Position
  <2> HIDE DEF Whole1, Spill1, Load1
  <2> QED
    BY <2>1, <2>2
<1>3. Sound(c(v), disk) /\ c(v).id = s /\ c(v).len = n + 1
  BY <1>1, AppendedSound
<1>4. /\ V(v) \subseteq DOMAIN c(v).resident
      /\ \A b \in V(v) : Filled(c(v).len, b) = BlockSize
  <2> HIDE DEF c
  <2> QED
    BY <1>1, <1>3, VictimsFull
<1>5. ASSUME NEW W \in SUBSET V(v)
      PROVE  LET sp == Spilled(c(v), W)
                 d == Written(c(v), W)
             IN  /\ Sound(sp, d) /\ sp.id = s /\ sp.len = n + 1
                 /\ DOMAIN sp.resident = DOMAIN c(v).resident \ W
                 /\ \A b \in Used(n + 1) : Content(sp, d, b) = Content(c(v), disk, b)
                 /\ DiskOK(d)
                 /\ \A p \in DOMAIN disk : p[1] # s => p \in DOMAIN d /\ d[p] = disk[p]
  <2> HIDE DEF c, V
  <2>1. W \in SUBSET DOMAIN c(v).resident /\ \A b \in W : Filled(c(v).len, b) = BlockSize
    BY <1>4
  <2>2. /\ Sound(Spilled(c(v), W), Written(c(v), W))
        /\ Spilled(c(v), W).id = s /\ Spilled(c(v), W).len = n + 1
        /\ DOMAIN Spilled(c(v), W).resident = DOMAIN c(v).resident \ W
        /\ \A b \in Used(n + 1) : Content(Spilled(c(v), W), Written(c(v), W), b) = Content(c(v), disk, b)
    BY <1>3, <2>1, SpilledSound
  <2>3. /\ DiskOK(Written(c(v), W))
        /\ \A p \in DOMAIN disk : p[1] # s => /\ p \in DOMAIN Written(c(v), W)
                                              /\ Written(c(v), W)[p] = disk[p]
    BY <1>1, <1>3, <2>1, WrittenOwn
  <2> QED
    BY <2>2, <2>3
<1>6. /\ Sound(spilt(v), files(v)) /\ spilt(v).id = s /\ spilt(v).len = n + 1
      /\ DOMAIN spilt(v).resident = DOMAIN c(v).resident \ V(v)
      /\ \A b \in Used(n + 1) : Content(spilt(v), files(v), b) = Content(c(v), disk, b)
      /\ DiskOK(files(v))
      /\ \A p \in DOMAIN disk : p[1] # s => p \in DOMAIN files(v) /\ files(v)[p] = disk[p]
  BY <1>5
<1>7. need(v) \subseteq DOMAIN spilt(v).spilled /\ lost(v) = {}
  <2>1. need(v) \subseteq DOMAIN spilt(v).spilled
    BY DEF Needed
  <2> HIDE DEF spilt, files, need
  <2>2. \A b \in need(v) : spilt(v).spilled[b] \in DOMAIN files(v)
    BY <1>6, <2>1 DEF Sound, Typed
  <2> QED
    BY <2>1, <2>2
<1>8. ASSUME NEW R \in SUBSET need(v)
      PROVE  LET b1 == Reloaded(spilt(v), R, files(v))
             IN  /\ Sound(b1, files(v)) /\ b1.id = s /\ b1.len = n + 1
                 /\ DOMAIN b1.resident = DOMAIN spilt(v).resident \cup R
                 /\ \A b \in Used(n + 1) : Content(b1, files(v), b) = Content(c(v), disk, b)
  <2> HIDE DEF spilt, files, need, c
  <2>1. R \in SUBSET DOMAIN spilt(v).spilled
    BY <1>7
  <2> QED
    BY <1>6, <2>1, ReloadedSound
<1>9. ASSUME NEW x, cache' = [cache EXCEPT ![s] = x], Sound(x, disk'), x.id = s, x.len = n + 1,
             DiskOK(disk'),
             \A p \in DOMAIN disk : p[1] # s => p \in DOMAIN disk' /\ disk'[p] = disk[p],
             \A b \in Used(n + 1) : Content(x, disk', b) = Content(c(v), disk, b)
      PROVE  Grown(s, v) /\ cache'[s] = x
  <2>1. cache'[s] = x
    BY <1>1, <1>9
  <2> QED
    BY <1>9, <2>1 DEF Grown
<1>10. CASE Whole1(v)
  <2>1. /\ Sound(back(v), files(v)) /\ back(v).id = s /\ back(v).len = n + 1
        /\ DOMAIN back(v).resident = DOMAIN spilt(v).resident \cup need(v)
        /\ \A b \in Used(n + 1) : Content(back(v), files(v), b) = Content(c(v), disk, b)
    BY <1>8
  <2>2. cache' = [cache EXCEPT ![s] = back(v)] /\ disk' = files(v)
    BY <1>10
  <2>3. Grown(s, v) /\ cache'[s] = back(v)
    <3> HIDE DEF back, files, c, spilt, need
    <3> QED
      BY <1>6, <1>9, <2>1, <2>2
  <2>4. ASSUME NEW p \in Reach(back(v))
        PROVE  p \div BlockSize \in DOMAIN back(v).resident /\ InRam(back(v), p)
    <3>1. back(v).len \in 0..MaxPositions /\ n + 1 \in 0..MaxPositions
      BY <1>1, <2>1, OneMore
    <3>2. p \in 0..(n + 1 - 1)
      <4> HIDE DEF back
      <4> QED
        BY <1>1, <2>1 DEF Reach
    <3>3. /\ p \div BlockSize \in Used(n + 1) /\ p % BlockSize < Filled(n + 1, p \div BlockSize)
      <4>0. n \in Nat
        BY <1>1
      <4> HIDE DEF back, n
      <4> DEFINE m == n + 1
      <4>1. m \in 0..MaxPositions
        BY <3>1
      <4>2. p \in 0..(m - 1)
        BY <4>0, <3>2
      <4> HIDE DEF m
      <4>3. p \div BlockSize \in Used(m) /\ p % BlockSize < Filled(m, p \div BlockSize)
        BY <4>1, <4>2, PlaceOf
      <4> QED
        BY <4>3 DEF m
    <3>4. p \div BlockSize \in DOMAIN back(v).resident
      <4>1. Reach(spilt(v)) = Reach(back(v))
        <5> HIDE DEF back, spilt
        <5> QED
          BY <1>6, <2>1 DEF Reach
      <4>2. CASE p \div BlockSize \in DOMAIN spilt(v).spilled
        <5>1. p \div BlockSize \in need(v)
          BY <4>1, <4>2 DEF Needed
        <5> HIDE DEF back, spilt, need
        <5> QED
          BY <2>1, <5>1
      <4>3. CASE p \div BlockSize \notin DOMAIN spilt(v).spilled
        <5> HIDE DEF back, spilt, need
        <5> QED
          BY <1>6, <2>1, <3>3, <4>3 DEF Sound
      <4> QED
        BY <4>2, <4>3
    <3>5. InRam(back(v), p)
      <4> HIDE DEF back, files
      <4> QED
        BY <2>1, <3>3, <3>4 DEF InRam, Sound
    <3> QED
      BY <3>4, <3>5
  <2>5. status' = status
    <3> HIDE DEF back
    <3> QED
      BY <1>10, <2>4 DEF Whole1
  <2>6. DOMAIN cache'[s].resident = (DOMAIN c(v).resident \ V(v)) \cup Needed(Spilled(c(v), V(v)))
    <3>1. DOMAIN cache'[s].resident = (DOMAIN c(v).resident \ V(v)) \cup need(v)
      <4> HIDE DEF back, spilt, need, c, V
      <4> QED
        BY <1>6, <2>1, <2>3
    <3> QED
      BY <3>1
  <2>7. \A p \in Reach(cache'[s]) : p \div BlockSize \in DOMAIN cache'[s].resident
    <3> HIDE DEF back
    <3> QED
      BY <2>3, <2>4
  <2>8. Clean(s)
    BY <2>5, <2>6, <2>7 DEF Clean
  <2> QED
    BY <2>3, <2>8
<1>11. CASE Spill1(v)
  <2>1. PICK W \in SUBSET V(v) : /\ cache' = [cache EXCEPT ![s] = Spilled(c(v), W)]
                                 /\ disk' = Written(c(v), W)
    <3>1. \A k : Lowest(V(v), k) \in SUBSET V(v)
      BY DEF Lowest
    <3> HIDE DEF c, V
    <3> QED
      BY <1>11, <3>1
  <2>2. Grown(s, v)
    <3> HIDE DEF c, V
    <3> QED
      BY <1>5, <1>9, <2>1
  <2>3. s \in Flaky /\ status' = [status EXCEPT ![s] = "broken"]
    BY <1>11
  <2> QED
    BY <2>2, <2>3
<1>12. CASE Load1(v)
  <2>1. PICK k \in 0..(Cardinality(need(v)) - 1) :
           /\ s \in Flaky \/ (Lowest(need(v), k + 1) \ Lowest(need(v), k)) \subseteq lost(v)
           /\ cache' = [cache EXCEPT ![s] = Reloaded(spilt(v), Lowest(need(v), k), files(v))]
    BY <1>12
  <2>2. Lowest(need(v), k) \in SUBSET need(v)
    BY DEF Lowest
  <2>3. disk' = files(v) /\ status' = [status EXCEPT ![s] = "broken"]
    BY <1>12
  <2>4. Grown(s, v)
    <3> HIDE DEF c, V, spilt, need, files
    <3> QED
      <4> DEFINE b1 == Reloaded(spilt(v), Lowest(need(v), k), files(v))
      <4>1. /\ Sound(b1, files(v)) /\ b1.id = s /\ b1.len = n + 1
            /\ \A b \in Used(n + 1) : Content(b1, files(v), b) = Content(c(v), disk, b)
        BY <1>8, <2>2
      <4>2. cache' = [cache EXCEPT ![s] = b1] /\ disk' = files(v)
        BY <2>1, <2>3
      <4> HIDE DEF b1, n
      <4> QED
        BY <1>6, <1>9, <4>1, <4>2
  <2>5. s \in Flaky
    <3> HIDE DEF c, V, spilt, files, need, lost
    <3>1. need(v) \in SUBSET Used(n + 1)
      BY <1>6, <1>7 DEF Sound
    <3>2. need(v) \in SUBSET Nat /\ IsFiniteSet(need(v))
      BY <3>1, FiniteBlocks
    <3>3. Cardinality(need(v)) \in Nat
      BY <3>2, FS_CardinalityType
    <3>4. k \in Nat /\ k + 1 \in Nat /\ k + 1 <= Cardinality(need(v)) /\ k <= Cardinality(need(v))
      BY <3>3
    <3>5. Cardinality(Lowest(need(v), k)) = k /\ Cardinality(Lowest(need(v), k + 1)) = k + 1
          /\ IsFiniteSet(Lowest(need(v), k))
      BY <3>2, <3>4, LowestMany
    <3>6. Lowest(need(v), k + 1) \ Lowest(need(v), k) # {}
      <4>1. Lowest(need(v), k + 1) \in SUBSET Lowest(need(v), k) =>
               Cardinality(Lowest(need(v), k + 1)) <= Cardinality(Lowest(need(v), k))
        BY <3>5, FS_Subset
      <4> QED
        BY <3>4, <3>5, <4>1
    <3> QED
      BY <1>7, <2>1, <3>6
  <2> QED
    BY <2>3, <2>4, <2>5
<1> HIDE DEF Whole1, Spill1, Load1
<1> QED
  BY <1>2, <1>10, <1>11, <1>12

-----------------------------------------------------------------------------
(* The invariant is inductive.                                             *)

\* What the other owners have in files stays, when one owner's files change.
LEMMA OthersKept ==
  ASSUME Sane, Named, NEW s \in Owner, NEW d,
         \A p \in DOMAIN disk : p[1] # s => p \in DOMAIN d /\ d[p] = disk[p],
         NEW o \in Owner, o # s
  PROVE  /\ Sound(cache[o], d)
         /\ \A b \in Used(cache[o].len) : Content(cache[o], d, b) = Content(cache[o], disk, b)
<1>1. Sound(cache[o], disk)
  BY DEF Sane
<1>2. \A b \in DOMAIN cache[o].spilled : Path(cache[o].id, b)[1] # s
  <2>1. CASE o \in Session
    BY <2>1 DEF Named, Path
  <2>2. CASE o \in Entry
    BY <2>2 DEF Named
  <2> QED
    BY <2>1, <2>2 DEF Owner
<1>3. \A b \in DOMAIN cache[o].spilled : /\ Path(cache[o].id, b) \in DOMAIN d
                                         /\ d[Path(cache[o].id, b)] = disk[Path(cache[o].id, b)]
  BY <1>1, <1>2 DEF Sound
<1> QED
  BY <1>1, <1>3, SameFiles

\* One owner's cache and its own files may change, to a sound cache.
LEMMA OwnChange ==
  ASSUME Sane, Named, NEW s \in Owner, NEW x,
         cache' = [cache EXCEPT ![s] = x], Sound(x, disk'), DiskOK(disk'),
         s \in Session => x.id = s,
         s \in Entry => DOMAIN x.spilled = {},
         \A p \in DOMAIN disk : p[1] # s => p \in DOMAIN disk' /\ disk'[p] = disk[p]
  PROVE  /\ cache' = [o \in Owner |-> cache'[o]]
         /\ cache'[s] = x /\ \A o \in Owner \ {s} : cache'[o] = cache[o]
         /\ \A o \in Owner : Sound(cache'[o], disk')
         /\ Named'
<1>1. cache = [o \in Owner |-> cache[o]]
  BY DEF Sane
<1>2. /\ cache' = [o \in Owner |-> cache'[o]]
      /\ cache'[s] = x /\ \A o \in Owner \ {s} : cache'[o] = cache[o]
  BY <1>1
<1>3. \A o \in Owner : Sound(cache'[o], disk')
  BY <1>2, OthersKept
<1>4. Named'
  BY <1>2, KVCacheAssumption DEF Named, Owner
<1> QED
  BY <1>2, <1>3, <1>4

\* Removing files of one owner.
LEMMA FilesRemoved ==
  ASSUME DiskOK(disk), NEW s, NEW F, \A p \in F : p[1] = s
  PROVE  /\ DiskOK(Without(disk, F))
         /\ \A p \in DOMAIN disk : p \notin F => /\ p \in DOMAIN Without(disk, F)
                                                 /\ Without(disk, F)[p] = disk[p]
  BY DEF Without, Restrict, DiskOK

\* Nothing is begun: the caches are empty, and each has its owner's name.
LEMMA InitHolds == Init => IInv
<1> SUFFICES ASSUME Init PROVE IInv
  OBVIOUS
<1>1. \A o \in Owner : Sound(Empty(o), disk)
  BY EmptySound
<1>2. DiskOK(disk)
  BY DEF Init, DiskOK
<1>3. cache = [o \in Owner |-> cache[o]] /\ \A o \in Owner : cache[o] = Empty(o)
  BY DEF Init
<1>4. \A o : Empty(o).id = o /\ Empty(o).len = 0 /\ DOMAIN Empty(o).spilled = {}
  BY DEF Empty
<1>5. Sane
  <2>1. 0 \in 0..MaxPositions
    BY KVCacheAssumption
  <2> QED
    BY <1>1, <1>2, <1>3, <2>1 DEF Init, Sane
<1>6. Named
  BY <1>3, <1>4 DEF Named, Owner
<1>7. Fresh
  BY <1>3, <1>4 DEF Fresh, Owner
<1> QED
  BY <1>5, <1>6, <1>7 DEF IInv

\* Begin changes no cache.
LEMMA BeginHolds ==
  ASSUME IInv, NEW s \in Session, Begin(s)
  PROVE  IInv'
  BY DEF IInv, Sane, Named, Fresh, Begin, Owner

\* A hit starts a sequence with a sound copy under its own name; the copy of a cache
\* with files never happens, since the prompt cache keeps none.
LEMMA HitCopies ==
  ASSUME IInv, NEW s \in Session, NEW e \in Entry, Hit(s, e)
  PROVE  LET x == Rekeyed(cache[e], s) IN
         /\ status' = [status EXCEPT ![s] = "decode"]
         /\ cache' = [cache EXCEPT ![s] = x]
         /\ x.resident = cache[e].resident /\ x.spilled = cache[e].spilled
         /\ x.len = cache[e].len /\ x.id = s
         /\ Sound(x, disk)
         /\ \A b \in Used(x.len) : Content(x, disk, b) = Content(cache[e], disk, b)
<1> DEFINE x == Rekeyed(cache[e], s)
<1>1. Sound(cache[e], disk) /\ DOMAIN cache[e].spilled = {} /\ s \in Owner
  BY DEF IInv, Sane, Named, Owner
<1>2. x = [id |-> s, len |-> cache[e].len, resident |-> cache[e].resident, spilled |-> cache[e].spilled]
  BY <1>1, IdReplaced DEF Rekeyed, Sound
<1>3. status' = [status EXCEPT ![s] = "decode"] /\ cache' = [cache EXCEPT ![s] = x]
  BY <1>1 DEF Hit, HasSpill
<1> HIDE DEF x
<1>4. /\ x.resident = cache[e].resident /\ x.spilled = cache[e].spilled
      /\ x.len = cache[e].len /\ x.id = s
  BY <1>2
<1>5. Typed(x)
  <2>1. x \in [id : Owner, len : 0..MaxPositions, resident : {x.resident}, spilled : {x.spilled}]
    BY <1>1, <1>2, <1>4 DEF Sound, Typed
  <2>2. x.spilled = [b \in DOMAIN x.spilled |-> Path(x.id, b)]
    BY <1>1, <1>4 DEF Sound, Typed
  <2> QED
    BY <1>1, <1>4, <2>1, <2>2 DEF Sound, Typed
<1>6. Sound(x, disk)
  BY <1>1, <1>4, <1>5 DEF Sound
<1>7. \A b \in Used(x.len) : Content(x, disk, b) = Content(cache[e], disk, b)
  BY <1>1, <1>4 DEF Content, Sound
<1> QED
  BY <1>3, <1>4, <1>6, <1>7 DEF x

\* A hit keeps the invariant: the copy is sound, and is the session's own.
LEMMA HitHolds ==
  ASSUME IInv, NEW s \in Session, NEW e \in Entry, Hit(s, e)
  PROVE  IInv'
<1> DEFINE x == Rekeyed(cache[e], s)
<1>1. /\ status' = [status EXCEPT ![s] = "decode"]
      /\ cache' = [cache EXCEPT ![s] = x]
      /\ x.id = s
      /\ Sound(x, disk)
  BY HitCopies
<1>2. UNCHANGED <<floor, disk, window>>
  BY DEF Hit
<1> HIDE DEF x
<1>3. s \in Owner /\ s \notin Entry
  BY KVCacheAssumption DEF Owner
<1>4. /\ cache' = [o \in Owner |-> cache'[o]]
      /\ cache'[s] = x /\ \A o \in Owner \ {s} : cache'[o] = cache[o]
      /\ \A o \in Owner : Sound(cache'[o], disk')
      /\ Named'
  <2>1. Sound(x, disk') /\ DiskOK(disk')
    BY <1>1, <1>2 DEF IInv, Sane
  <2> QED
    BY <1>1, <1>2, <1>3, <2>1, OwnChange DEF IInv
<1>5. Sane'
  BY <1>1, <1>2, <1>4 DEF IInv, Sane
<1>6. Fresh'
  BY <1>1, <1>3, <1>4 DEF IInv, Sane, Fresh, Owner
<1> QED
  BY <1>4, <1>5, <1>6 DEF IInv

\* The end of a prompt keeps the invariant: what it stores has no files.
LEMMA FinishHolds ==
  ASSUME IInv, NEW s \in Session, Finish(s)
  PROVE  IInv'
<1>1. CASE status' = [status EXCEPT ![s] = "decode"] /\ UNCHANGED cache
  BY <1>1 DEF Finish, IInv, Sane, Named, Fresh, Owner
<1>2. ASSUME NEW e \in Entry, ~HasSpill(cache[s]),
             status' = [status EXCEPT ![s] = "decode", ![e] = "kept"],
             cache' = [cache EXCEPT ![e] = cache[s]]
      PROVE  IInv'
  <2>1. UNCHANGED <<floor, disk, window>>
    BY DEF Finish
  <2>2. s \in Owner /\ e \in Owner /\ e \notin Session
    BY KVCacheAssumption DEF Owner
  <2>3. Sound(cache[s], disk') /\ DiskOK(disk') /\ DOMAIN cache[s].spilled = {}
    BY <1>2, <2>1, <2>2 DEF IInv, Sane, HasSpill
  <2>4. /\ cache' = [o \in Owner |-> cache'[o]]
        /\ cache'[e] = cache[s] /\ \A o \in Owner \ {e} : cache'[o] = cache[o]
        /\ \A o \in Owner : Sound(cache'[o], disk')
        /\ Named'
    BY <1>2, <2>1, <2>2, <2>3, OwnChange DEF IInv
  <2>5. Sane'
    BY <1>2, <2>1, <2>2, <2>4 DEF IInv, Sane
  <2>6. Fresh'
    BY <1>2, <2>2, <2>4 DEF IInv, Sane, Fresh, Owner
  <2> QED
    BY <2>4, <2>5, <2>6 DEF IInv
<1> QED
  BY <1>1, <1>2 DEF Finish

\* A pass keeps the invariant, whatever it spills and reads back and wherever it fails.
LEMMA PositionHolds ==
  ASSUME IInv, NEW s \in Session, Position(s)
  PROVE  IInv'
<1>1. PICK v \in Value : Grown(s, v)
  BY PositionGrows
<1>2. status' = status \/ status' = [status EXCEPT ![s] = "broken"]
  BY PositionGrows DEF Clean
<1>3. floor' \in [Owner -> 0..MaxPositions] /\ window' = window
  <2>1. cache[s].len + 1 \in 0..MaxPositions
    <3>1. cache[s].len < MaxPositions
      BY DEF Position
    <3>2. Sound(cache[s], disk)
      BY DEF IInv, Sane, Owner
    <3>3. cache[s].len \in Nat
      BY <3>2 DEF Sound, Typed
    <3> QED
      BY <3>1, <3>3, KVCacheAssumption
  <2>2. floor \in [Owner -> 0..MaxPositions]
    BY DEF IInv, Sane
  <2> QED
    <3>1. /\ floor' = floor \/ floor' = [floor EXCEPT ![s] = cache[s].len + 1]
          /\ window' = window
      BY DEF Position
    <3> QED
      BY <2>1, <2>2, <3>1
<1>4. s \in Owner /\ s \notin Entry
  BY KVCacheAssumption DEF Owner
<1>5. /\ cache' = [o \in Owner |-> cache'[o]]
      /\ \A o \in Owner \ {s} : cache'[o] = cache[o]
      /\ \A o \in Owner : Sound(cache'[o], disk')
      /\ Named'
  <2> DEFINE x == cache'[s]
  <2>1. /\ cache' = [cache EXCEPT ![s] = x] /\ Sound(x, disk') /\ x.id = s /\ DiskOK(disk')
        /\ \A p \in DOMAIN disk : p[1] # s => p \in DOMAIN disk' /\ disk'[p] = disk[p]
    BY <1>1 DEF Grown
  <2> HIDE DEF x
  <2> QED
    BY <1>4, <2>1, OwnChange DEF IInv
<1>6. Sane'
  BY <1>1, <1>2, <1>3, <1>5 DEF IInv, Sane, Grown
<1>7. Fresh'
  <2>1. status[s] # "new" /\ status'[s] # "new"
    BY <1>2, <1>4 DEF Position, IInv, Sane
  <2> QED
    BY <1>2, <1>4, <1>5, <2>1 DEF IInv, Sane, Fresh, Owner
<1> QED
  BY <1>5, <1>6, <1>7 DEF IInv

\* What a cut that is not refused makes of the state.
CutBack(s, n) ==
    /\ n \in 0..cache[s].len /\ n >= floor[s] /\ n < cache[s].len /\ ~Refused(cache[s], n)
    /\ cache' = [cache EXCEPT ![s] = Cut(cache[s], n)]
    /\ floor' = [floor EXCEPT ![s] = n]
    /\ Sound(Cut(cache[s], n), disk) /\ Sound(Cut(cache[s], n), disk')
    /\ Cut(cache[s], n).id = s /\ Cut(cache[s], n).len = n
    /\ \A b \in Used(n) : Content(Cut(cache[s], n), disk', b) = Content(Cut(cache[s], n), disk, b)
    /\ DiskOK(disk')
    /\ \A p \in DOMAIN disk : p[1] # s => p \in DOMAIN disk' /\ disk'[p] = disk[p]
    /\ UNCHANGED status

\* A round's end is refused, and fails the pass, or cuts the cache and its own files.
LEMMA TruncateCuts ==
  ASSUME IInv, NEW s \in Session, Truncate(s)
  PROVE  \E n \in floor[s]..(cache[s].len - 1) :
            \/ /\ Refused(cache[s], n)
               /\ status' = [status EXCEPT ![s] = "broken"]
               /\ UNCHANGED <<cache, floor, disk>>
            \/ CutBack(s, n)
<1>1. s \in Owner /\ Sound(cache[s], disk) /\ cache[s].id = s /\ DiskOK(disk) /\ floor[s] \in Nat
  <2>1. s \in Owner
    BY DEF Owner
  <2>2. floor[s] \in 0..MaxPositions /\ MaxPositions \in Nat
    BY <2>1, KVCacheAssumption DEF IInv, Sane
  <2> QED
    BY <2>1, <2>2 DEF IInv, Sane, Named
<1>2. cache[s].len \in Nat /\ Typed(cache[s])
  BY <1>1 DEF Sound, Typed
<1>3. PICK n \in floor[s]..(cache[s].len - 1) :
         IF Refused(cache[s], n)
         THEN /\ status' = [status EXCEPT ![s] = "broken"]
              /\ UNCHANGED <<cache, floor, disk>>
         ELSE /\ cache' = [cache EXCEPT ![s] = Cut(@, n)]
              /\ floor' = [floor EXCEPT ![s] = n]
              /\ \E files \in Removals(s, Stale(cache[s], n)) : disk' = Without(disk, files)
              /\ UNCHANGED status
  BY DEF Truncate
<1>4. CASE Refused(cache[s], n)
  BY <1>3, <1>4
<1>5. CASE ~Refused(cache[s], n)
  <2> DEFINE x == Cut(cache[s], n)
  <2>1. n \in 0..cache[s].len /\ n >= floor[s] /\ n < cache[s].len
    BY <1>1, <1>2
  <2>2. /\ Sound(x, disk) /\ x.id = s /\ x.len = n
        /\ DOMAIN x.spilled = {b \in DOMAIN cache[s].spilled : Kept(n, b)}
    BY <1>1, <1>5, <2>1, CutSound
  <2>3. PICK files \in Removals(s, Stale(cache[s], n)) : disk' = Without(disk, files)
    BY <1>3, <1>5
  <2>4. files \subseteq Stale(cache[s], n)
    BY DEF Removals
  <2>5. \A p \in files : \E b \in DOMAIN cache[s].spilled : ~Kept(n, b) /\ p = Path(s, b)
    BY <1>1, <1>2, <2>4 DEF Stale, Typed
  <2>6. \A p \in files : p[1] = s
    BY <2>5 DEF Path
  <2>7. /\ DiskOK(disk')
        /\ \A p \in DOMAIN disk : p \notin files => p \in DOMAIN disk' /\ disk'[p] = disk[p]
    <3>1. /\ DiskOK(Without(disk, files))
          /\ \A p \in DOMAIN disk :
               p \notin files => /\ p \in DOMAIN Without(disk, files)
                              /\ Without(disk, files)[p] = disk[p]
      BY <1>1, <2>6, FilesRemoved
    <3> QED
      BY <2>3, <3>1
  <2> HIDE DEF x
  <2>8. \A b \in DOMAIN x.spilled : Path(s, b) \notin files /\ Path(s, b) \in DOMAIN disk
    BY <2>2, <2>5 DEF Path, Sound
  <2>9. /\ Sound(x, disk')
        /\ \A b \in Used(n) : Content(x, disk', b) = Content(x, disk, b)
    BY <2>2, <2>7, <2>8, SameFiles
  <2>10. cache' = [cache EXCEPT ![s] = x]
    BY <1>3, <1>5 DEF x
  <2> QED
    BY <1>3, <1>5, <2>1, <2>2, <2>6, <2>7, <2>9, <2>10 DEF CutBack, x
<1> QED
  BY <1>4, <1>5

\* The end of a round keeps the invariant, refused or not.
LEMMA TruncateHolds ==
  ASSUME IInv, NEW s \in Session, Truncate(s)
  PROVE  IInv'
<1>1. s \in Owner /\ s \notin Entry /\ window' = window /\ status[s] = "decode"
  BY KVCacheAssumption DEF Owner, Truncate
<1>2. PICK n \in floor[s]..(cache[s].len - 1) :
            \/ /\ Refused(cache[s], n)
               /\ status' = [status EXCEPT ![s] = "broken"]
               /\ UNCHANGED <<cache, floor, disk>>
            \/ CutBack(s, n)
  BY TruncateCuts
<1>3. CASE /\ status' = [status EXCEPT ![s] = "broken"]
           /\ UNCHANGED <<cache, floor, disk>>
  BY <1>1, <1>3 DEF IInv, Sane, Named, Fresh, Owner
<1>4. CASE CutBack(s, n)
  <2> DEFINE x == Cut(cache[s], n)
  <2>1. /\ cache' = [cache EXCEPT ![s] = x] /\ Sound(x, disk') /\ x.id = s /\ DiskOK(disk')
        /\ x.len = n
        /\ \A p \in DOMAIN disk : p[1] # s => p \in DOMAIN disk' /\ disk'[p] = disk[p]
        /\ floor' = [floor EXCEPT ![s] = n] /\ UNCHANGED status
    BY <1>4 DEF CutBack
  <2> HIDE DEF x
  <2>2. /\ cache' = [o \in Owner |-> cache'[o]]
        /\ \A o \in Owner \ {s} : cache'[o] = cache[o]
        /\ \A o \in Owner : Sound(cache'[o], disk')
        /\ Named'
    BY <1>1, <2>1, OwnChange DEF IInv
  <2>3. n \in 0..MaxPositions
    BY <2>1 DEF Sound, Typed
  <2>4. Sane'
    BY <1>1, <2>1, <2>2, <2>3 DEF IInv, Sane
  <2>5. Fresh'
    BY <1>1, <2>1, <2>2 DEF IInv, Fresh, Owner
  <2> QED
    BY <2>2, <2>4, <2>5 DEF IInv
<1> QED
  BY <1>2, <1>3, <1>4

\* What a drop leaves is an empty cache, and the others' files.
LEMMA DropPurges ==
  ASSUME IInv, NEW o \in Owner, Drop(o)
  PROVE  /\ DiskOK(disk')
         /\ cache' = [cache EXCEPT ![o] = Empty(o)]
         /\ \A p \in DOMAIN disk : p[1] # o => p \in DOMAIN disk' /\ disk'[p] = disk[p]
<1>1. PICK files \in Removals(o, Range(cache[o].spilled)) : disk' = Without(disk, files)
  BY DEF Drop
<1>2. Sound(cache[o], disk) /\ Typed(cache[o])
  BY DEF IInv, Sane, Sound
<1>3. files \subseteq Range(cache[o].spilled)
  BY DEF Removals
<1>4. \A p \in files : \E b \in DOMAIN cache[o].spilled : p = Path(cache[o].id, b)
  BY <1>2, <1>3 DEF Typed, Range
<1>5. \A p \in files : p[1] = o
  BY <1>4 DEF IInv, Named, Owner, Path
<1>6. /\ DiskOK(disk')
      /\ \A p \in DOMAIN disk : p \notin files => p \in DOMAIN disk' /\ disk'[p] = disk[p]
  <2>1. DiskOK(disk)
    BY DEF IInv, Sane
  <2> QED
    <3>1. /\ DiskOK(Without(disk, files))
          /\ \A p \in DOMAIN disk :
               p \notin files => /\ p \in DOMAIN Without(disk, files)
                              /\ Without(disk, files)[p] = disk[p]
      BY <1>5, <2>1, FilesRemoved
    <3> QED
      BY <1>1, <3>1
<1> QED
  BY <1>5, <1>6 DEF Drop

\* A drop keeps the invariant, also when files of the sequence cannot be removed.
LEMMA DropHolds ==
  ASSUME IInv, NEW o \in Owner, Drop(o)
  PROVE  IInv'
<1>1. /\ status' = [status EXCEPT ![o] = IF o \in Entry THEN "new" ELSE "dropped"]
      /\ floor' = [floor EXCEPT ![o] = 0] /\ window' = window
  BY DEF Drop
<1>2. Empty(o).id = o /\ DOMAIN Empty(o).spilled = {} /\ Empty(o).len = 0
  BY DEF Empty
<1>3. Sound(Empty(o), disk')
  BY EmptySound
<1>4. /\ cache' = [q \in Owner |-> cache'[q]]
      /\ cache'[o] = Empty(o) /\ \A q \in Owner \ {o} : cache'[q] = cache[q]
      /\ \A q \in Owner : Sound(cache'[q], disk')
      /\ Named'
  BY <1>2, <1>3, DropPurges, OwnChange DEF IInv
<1>5. Sane'
  <2>1. 0 \in 0..MaxPositions
    BY KVCacheAssumption
  <2> QED
    BY <1>1, <1>4, <2>1, DropPurges DEF IInv, Sane
<1>6. Fresh'
  BY <1>1, <1>2, <1>4 DEF IInv, Sane, Fresh, Owner
<1> QED
  BY <1>4, <1>5, <1>6 DEF IInv

\* Every step keeps the invariant.
LEMMA StepHolds == IInv /\ [Next]_vars => IInv'
<1> SUFFICES ASSUME IInv, [Next]_vars PROVE IInv'
  OBVIOUS
<1>1. CASE UNCHANGED vars
  BY <1>1 DEF vars, IInv, Sane, Named, Fresh
<1>2. ASSUME NEW s \in Session, Begin(s) PROVE IInv'
  BY <1>2, BeginHolds
<1>3. ASSUME NEW s \in Session, Finish(s) PROVE IInv'
  BY <1>3, FinishHolds
<1>4. ASSUME NEW s \in Session, Position(s) PROVE IInv'
  BY <1>4, PositionHolds
<1>5. ASSUME NEW s \in Session, Truncate(s) PROVE IInv'
  BY <1>5, TruncateHolds
<1>6. ASSUME NEW s \in Session, NEW e \in Entry, Hit(s, e) PROVE IInv'
  BY <1>6, HitHolds
<1>7. ASSUME NEW o \in Owner, Drop(o) PROVE IInv'
  BY <1>7, DropHolds
<1>8. Idle => UNCHANGED vars
  BY DEF Idle
<1> QED
  BY <1>1, <1>2, <1>3, <1>4, <1>5, <1>6, <1>7, <1>8 DEF Next

\* The invariant holds in every state, for every configuration.
THEOREM Inductive == Spec => []IInv
<1>1. Init => IInv
  BY InitHolds
<1>2. IInv /\ [Next]_vars => IInv'
  BY StepHolds
<1> QED
  BY <1>1, <1>2, PTL DEF Spec

\* Every position of every sequence is in exactly one place, in RAM or in a file that is
\* there, however blocks are spilled, read back, cut, copied and lost to errors.
THEOREM WholeAlways == Spec => []Whole
<1>1. IInv => Whole
  <2> SUFFICES ASSUME IInv PROVE Whole
    OBVIOUS
  <2>1. TypeOK
    <3>1. DOMAIN cache = Owner
      BY DEF IInv, Sane
    <3>2. ASSUME NEW o \in Owner
          PROVE  LET c == cache[o] IN
                 /\ c.id \in Owner /\ c.len \in 0..MaxPositions
                 /\ DOMAIN c.resident \subseteq Block /\ DOMAIN c.spilled \subseteq Block
                 /\ \A b \in DOMAIN c.resident : c.resident[b] \in Seq(Value)
                 /\ \A b \in DOMAIN c.spilled : c.spilled[b] = Path(c.id, b)
      <4>1. Sound(cache[o], disk)
        BY DEF IInv, Sane
      <4>2. cache[o].id \in Owner /\ cache[o].len \in 0..MaxPositions
        BY <4>1 DEF Sound, Typed
      <4>3. DOMAIN cache[o].resident \subseteq Block /\ DOMAIN cache[o].spilled \subseteq Block
        BY <4>1 DEF Sound, Used
      <4>4. \A b \in DOMAIN cache[o].resident : cache[o].resident[b] \in Seq(Value)
        BY <4>1 DEF Sound, Typed
      <4>5. \A b \in DOMAIN cache[o].spilled : cache[o].spilled[b] = Path(cache[o].id, b)
        BY <4>1 DEF Sound, Typed
      <4> QED
        BY <4>2, <4>3, <4>4, <4>5
    <3>3. DOMAIN disk \subseteq Owner \X Block /\ \A p \in DOMAIN disk : disk[p] \in Seq(Value)
      BY DEF IInv, Sane, DiskOK
    <3> QED
      BY <3>1, <3>2, <3>3 DEF TypeOK, IInv, Sane
  <2>2. ASSUME NEW o \in Owner
        PROVE  LET c == cache[o] IN
               /\ DOMAIN c.resident \cap DOMAIN c.spilled = {}
               /\ DOMAIN c.resident \cup DOMAIN c.spilled = {b \in Block : Filled(c.len, b) > 0}
               /\ \A b \in DOMAIN c.resident : Len(c.resident[b]) = Filled(c.len, b)
               /\ \A b \in DOMAIN c.spilled : /\ Filled(c.len, b) = BlockSize
                                              /\ c.spilled[b] \in DOMAIN disk
                                              /\ Len(disk[c.spilled[b]]) = BlockSize
    <3>1. Sound(cache[o], disk)
      BY DEF IInv, Sane
    <3>2. \A b \in DOMAIN cache[o].spilled : cache[o].spilled[b] = Path(cache[o].id, b)
      BY <3>1 DEF Sound, Typed
    <3> QED
      BY <3>1, <3>2 DEF Sound, Used
  <2> QED
    BY <2>1, <2>2 DEF Whole
<1> QED
  BY <1>1, Inductive, PTL

\* No spill file belongs to two caches: rekey gives every copy an identity of its own,
\* and what has files is never copied.
THEOREM PathsApartAlways == Spec => []PathsApart
<1>1. IInv => PathsApart
  <2> SUFFICES ASSUME IInv, NEW o \in Owner, NEW q \in Owner, o # q
               PROVE  Range(cache[o].spilled) \cap Range(cache[q].spilled) = {}
    BY DEF PathsApart
  <2>1. Typed(cache[o]) /\ Typed(cache[q])
    BY DEF IInv, Sane, Sound
  <2>2. /\ \A p \in Range(cache[o].spilled) : p[1] = cache[o].id
        /\ \A p \in Range(cache[q].spilled) : p[1] = cache[q].id
    BY <2>1 DEF Typed, Range, Path
  <2>3. CASE o \in Session /\ q \in Session
    BY <2>2, <2>3 DEF IInv, Named
  <2>4. CASE o \in Entry \/ q \in Entry
    BY <2>4 DEF IInv, Named, Range
  <2> QED
    BY <2>3, <2>4 DEF Owner
<1> QED
  BY <1>1, Inductive, PTL

-----------------------------------------------------------------------------
(* Only a fault of the disk breaks a sequence.                             *)

\* The sliding windows reach as far back as a round of decoding goes: nothing in the code
\* checks it, and with a window of one position and a lookahead of four a cut is refused.
WindowsReach == \A w \in Windows : Lookahead <= w

\* The positions of a round that may still be cut off are in RAM.
RoundsInRam ==
    \A s \in Session :
        /\ status[s] \in {"new", "prefill"} => floor[s] = 0
        /\ status[s] = "decode" /\ floor[s] > 0 =>
              \A p \in floor[s]..(cache[s].len - 1) : p \div BlockSize \in DOMAIN cache[s].resident

BInv == IInv /\ RoundsInRam /\ BreaksOnlyByFault

\* After a pass, what its round may cut off is what attention just reached.
LEMMA PositionInRam ==
  ASSUME WindowsReach, BInv, NEW s \in Session, Position(s)
  PROVE  RoundsInRam' /\ BreaksOnlyByFault'
<1>1. /\ status \in [Owner -> {"new", "prefill", "decode", "broken", "dropped", "kept"}]
      /\ floor \in [Owner -> 0..MaxPositions] /\ window \in Windows /\ s \in Owner
  BY DEF BInv, IInv, Sane, Owner
<1>2. window \in Nat /\ Lookahead \in Nat /\ Lookahead <= window /\ MaxPositions \in Nat
  BY <1>1, KVCacheAssumption DEF WindowsReach
<1>3. status[s] \in {"prefill", "decode"}
  BY DEF Position
<1>4. /\ cache' = [cache EXCEPT ![s] = cache'[s]] /\ cache'[s].len = cache[s].len + 1
      /\ cache[s].len \in Nat /\ cache = [o \in Owner |-> cache[o]]
  <2>1. PICK v \in Value : Grown(s, v)
    BY PositionGrows DEF BInv
  <2>2. Sound(cache[s], disk) /\ cache = [o \in Owner |-> cache[o]]
    BY <1>1 DEF BInv, IInv, Sane
  <2>3. cache[s].len \in Nat
    BY <2>2 DEF Sound, Typed
  <2> QED
    BY <2>1, <2>2, <2>3 DEF Grown
<1>5. \A q \in Session \ {s} : cache'[q] = cache[q]
  BY <1>1, <1>4 DEF Owner
<1>6. \/ floor' = [floor EXCEPT ![s] = cache[s].len + 1] /\ status[s] = "decode"
      \/ /\ UNCHANGED floor
         /\ status[s] = "prefill" \/ cache[s].len + 1 - floor[s] \in 1..Lookahead
         /\ status[s] = "decode" => floor[s] > 0
  BY DEF Position
<1>7. window' = window
  BY DEF Position
<1>8. CASE s \in Flaky /\ status' = [status EXCEPT ![s] = "broken"]
  <2>1. BreaksOnlyByFault'
    BY <1>1, <1>8 DEF BInv, BreaksOnlyByFault, Owner
  <2>2. ASSUME NEW q \in Session
        PROVE  /\ status'[q] \in {"new", "prefill"} => floor'[q] = 0
               /\ status'[q] = "decode" /\ floor'[q] > 0 =>
                    \A p \in floor'[q]..(cache'[q].len - 1) : p \div BlockSize \in DOMAIN cache'[q].resident
    <3>1. CASE q = s
      BY <1>1, <1>8, <3>1
    <3>2. CASE q # s
      <4>1. floor'[q] = floor[q] /\ status'[q] = status[q] /\ cache'[q] = cache[q]
        BY <1>1, <1>5, <1>6, <1>8, <3>2 DEF Owner
      <4> QED
        BY <4>1 DEF BInv, RoundsInRam
    <3> QED
      BY <3>1, <3>2
  <2> QED
    BY <2>1, <2>2 DEF RoundsInRam
<1>9. CASE Clean(s)
  <2>1. status' = status
    BY <1>9 DEF Clean
  <2>2. ASSUME NEW q \in Session
        PROVE  /\ status'[q] \in {"new", "prefill"} => floor'[q] = 0
               /\ status'[q] = "decode" /\ floor'[q] > 0 =>
                    \A p \in floor'[q]..(cache'[q].len - 1) : p \div BlockSize \in DOMAIN cache'[q].resident
    <3>1. CASE q = s
      <4>1. CASE floor' = [floor EXCEPT ![s] = cache[s].len + 1] /\ status[s] = "decode"
        <5>1. floor'[s] = cache[s].len + 1
          BY <1>1, <4>1
        <5>2. floor'[s]..(cache'[s].len - 1) = {}
          BY <1>4, <5>1
        <5> QED
          BY <2>1, <3>1, <4>1, <5>2
      <4>2. CASE /\ UNCHANGED floor
                 /\ status[s] = "prefill" \/ cache[s].len + 1 - floor[s] \in 1..Lookahead
                 /\ status[s] = "decode" => floor[s] > 0
        <5>1. status'[s] \in {"new", "prefill"} => floor'[s] = 0
          BY <2>1, <4>2 DEF BInv, RoundsInRam
        <5>2. ASSUME status[s] = "decode", NEW p \in floor[s]..(cache[s].len + 1 - 1)
              PROVE  p \div BlockSize \in DOMAIN cache'[s].resident
          <6>1. cache[s].len + 1 - floor[s] <= Lookahead /\ floor[s] \in Nat
            BY <1>1, <1>2, <4>2, <5>2
          <6>2. p \in Reach(cache'[s])
            BY <1>2, <1>4, <6>1 DEF Reach
          <6>3. \A x \in Reach(cache'[s]) : x \div BlockSize \in DOMAIN cache'[s].resident
            BY <1>9 DEF Clean
          <6> QED
            BY <6>2, <6>3
        <5>3. cache'[s].len = cache[s].len + 1 /\ floor'[s] = floor[s] /\ status'[s] = status[s]
          BY <1>4, <2>1, <4>2
        <5>4. status[s] = "decode" =>
                 \A p \in floor'[s]..(cache'[s].len - 1) : p \div BlockSize \in DOMAIN cache'[s].resident
          <6> SUFFICES ASSUME status[s] = "decode", NEW p \in floor'[s]..(cache'[s].len - 1)
                       PROVE  p \div BlockSize \in DOMAIN cache'[s].resident
            OBVIOUS
          <6>1. p \in floor[s]..(cache[s].len + 1 - 1)
            BY <1>4, <5>3
          <6> QED
            BY <5>2, <6>1
        <5> QED
          BY <3>1, <5>1, <5>3, <5>4
      <4> QED
        BY <1>6, <4>1, <4>2
    <3>2. CASE q # s
      <4>1. floor'[q] = floor[q] /\ status'[q] = status[q] /\ cache'[q] = cache[q]
        BY <1>1, <1>5, <1>6, <2>1, <3>2 DEF Owner
      <4> QED
        BY <4>1 DEF BInv, RoundsInRam
    <3> QED
      BY <3>1, <3>2
  <2> QED
    BY <2>1, <2>2 DEF RoundsInRam, BreaksOnlyByFault, BInv
<1> QED
  BY <1>8, <1>9, PositionGrows DEF BInv

\* What a round may cut off is in RAM, so the cut is not refused.
LEMMA TruncateInRam ==
  ASSUME BInv, NEW s \in Session, Truncate(s)
  PROVE  RoundsInRam' /\ BreaksOnlyByFault'
<1>1. /\ status \in [Owner -> {"new", "prefill", "decode", "broken", "dropped", "kept"}]
      /\ floor \in [Owner -> 0..MaxPositions] /\ s \in Owner /\ MaxPositions \in Nat
      /\ cache = [o \in Owner |-> cache[o]]
  BY KVCacheAssumption DEF BInv, IInv, Sane, Owner
<1>2. status[s] = "decode" /\ floor[s] > 0
  BY DEF Truncate
<1>3. PICK n \in floor[s]..(cache[s].len - 1) :
            \/ /\ Refused(cache[s], n)
               /\ status' = [status EXCEPT ![s] = "broken"]
               /\ UNCHANGED <<cache, floor, disk>>
            \/ CutBack(s, n)
  BY TruncateCuts DEF BInv
<1>4. ~Refused(cache[s], n)
  <2>1. n \div BlockSize \in DOMAIN cache[s].resident
    BY <1>2 DEF BInv, RoundsInRam
  <2> QED
    BY <1>1, <2>1 DEF Refused, BInv, IInv, Sane, Sound
<1>5. /\ cache' = [cache EXCEPT ![s] = Cut(cache[s], n)] /\ Cut(cache[s], n).len = n
      /\ floor' = [floor EXCEPT ![s] = n] /\ status' = status /\ n \in Nat
  BY <1>1, <1>3, <1>4 DEF CutBack
<1>6. ASSUME NEW q \in Session
      PROVE  /\ status'[q] \in {"new", "prefill"} => floor'[q] = 0
             /\ status'[q] = "decode" /\ floor'[q] > 0 =>
                  \A p \in floor'[q]..(cache'[q].len - 1) : p \div BlockSize \in DOMAIN cache'[q].resident
  <2>1. CASE q = s
    <3>1. floor'[q] = n /\ cache'[q].len = n
      BY <1>1, <1>5, <2>1
    <3>2. floor'[q]..(cache'[q].len - 1) = {}
      BY <1>5, <3>1
    <3> QED
      BY <1>2, <1>5, <2>1, <3>2
  <2>2. CASE q # s
    <3>1. floor'[q] = floor[q] /\ status'[q] = status[q] /\ cache'[q] = cache[q]
      BY <1>1, <1>5, <2>2 DEF Owner
    <3> QED
      BY <3>1 DEF BInv, RoundsInRam
  <2> QED
    BY <2>1, <2>2
<1> QED
  BY <1>5, <1>6 DEF RoundsInRam, BreaksOnlyByFault, BInv

\* A pass fails only when a file operation fails, if the windows reach as far back as a
\* round: what attention reads and what a round's end cuts are in RAM by then, "resident
\* by construction" (truncate).
THEOREM BreaksOnlyByFaultAlways ==
  ASSUME WindowsReach
  PROVE  Spec => []BreaksOnlyByFault
<1>1. Init => BInv
  <2> SUFFICES ASSUME Init PROVE BInv
    OBVIOUS
  <2>1. \A s \in Session : status[s] = "new" /\ floor[s] = 0
    BY DEF Init, Owner
  <2> QED
    BY <2>1, InitHolds DEF BInv, RoundsInRam, BreaksOnlyByFault
<1>2. BInv /\ [Next]_vars => BInv'
  <2> SUFFICES ASSUME BInv, [Next]_vars PROVE RoundsInRam' /\ BreaksOnlyByFault'
    BY StepHolds DEF BInv
  <2> USE DEF BInv
  <2>1. /\ status \in [Owner -> {"new", "prefill", "decode", "broken", "dropped", "kept"}]
        /\ floor \in [Owner -> 0..MaxPositions]
        /\ cache = [o \in Owner |-> cache[o]] /\ Session \cap Entry = {}
    BY KVCacheAssumption DEF IInv, Sane
  <2>2. CASE UNCHANGED vars
    BY <2>2 DEF vars, RoundsInRam, BreaksOnlyByFault
  <2>3. ASSUME NEW s \in Session, Begin(s) PROVE RoundsInRam' /\ BreaksOnlyByFault'
    BY <2>1, <2>3 DEF Begin, RoundsInRam, BreaksOnlyByFault, Owner
  <2>4. ASSUME NEW s \in Session, Finish(s) PROVE RoundsInRam' /\ BreaksOnlyByFault'
    <3>1. status[s] = "prefill" /\ floor[s] = 0 /\ UNCHANGED floor
      BY <2>4 DEF Finish, RoundsInRam
    <3>2. /\ status'[s] = "decode"
          /\ \A q \in Session \ {s} : status'[q] = status[q]
          /\ \A q \in Session : cache'[q] = cache[q]
      BY <2>1, <2>4 DEF Finish, Owner
    <3> QED
      BY <3>1, <3>2 DEF RoundsInRam, BreaksOnlyByFault
  <2>5. ASSUME NEW s \in Session, Position(s) PROVE RoundsInRam' /\ BreaksOnlyByFault'
    BY <2>5, PositionInRam
  <2>6. ASSUME NEW s \in Session, Truncate(s) PROVE RoundsInRam' /\ BreaksOnlyByFault'
    BY <2>6, TruncateInRam
  <2>7. ASSUME NEW s \in Session, NEW e \in Entry, Hit(s, e) PROVE RoundsInRam' /\ BreaksOnlyByFault'
    <3>1. status[s] = "new" /\ floor[s] = 0 /\ UNCHANGED floor
      BY <2>7 DEF Hit, RoundsInRam
    <3>2. /\ status'[s] = "decode"
          /\ \A q \in Session \ {s} : status'[q] = status[q] /\ cache'[q] = cache[q]
      <4>1. /\ status' = [status EXCEPT ![s] = "decode"]
            /\ cache' = [cache EXCEPT ![s] = Rekeyed(cache[e], s)]
        BY <2>7, HitCopies
      <4> QED
        BY <2>1, <4>1 DEF Owner
    <3> QED
      BY <3>1, <3>2 DEF RoundsInRam, BreaksOnlyByFault
  <2>8. ASSUME NEW o \in Owner, Drop(o) PROVE RoundsInRam' /\ BreaksOnlyByFault'
    <3>1. /\ status'[o] \in {"new", "dropped"} /\ floor'[o] = 0 
          /\ o \in Session => status'[o] = "dropped"
          /\ \A q \in Owner \ {o} : /\ status'[q] = status[q] /\ cache'[q] = cache[q]
                                    /\ floor'[q] = floor[q]
      BY <2>1, <2>8 DEF Drop, Owner
    <3> QED
      BY <3>1 DEF RoundsInRam, BreaksOnlyByFault, Owner
  <2>9. Idle => UNCHANGED vars
    BY DEF Idle
  <2> QED
    BY <2>2, <2>3, <2>4, <2>5, <2>6, <2>7, <2>8, <2>9 DEF Next
<1>3. BInv => BreaksOnlyByFault
  BY DEF BInv
<1> QED
  BY <1>1, <1>2, <1>3, PTL DEF Spec

-----------------------------------------------------------------------------
(* How many blocks are in RAM.                                             *)

\* max_resident_blocks and what attention reaches besides the block being written.
Bound == MaxResident + ((window + BlockSize - 2) \div BlockSize)

\* Bounded, of what a sequence may be copied from as well.
AllBounded ==
    \A o \in Owner : status[o] # "broken" => Cardinality(DOMAIN cache[o].resident) <= Bound

\* The blocks a window reaches, but for the last.
LEMMA WindowBlocks ==
  ASSUME NEW n \in Nat, NEW lo \in 0..n, NEW w \in Nat \ {0}, n + 1 - lo <= w
  PROVE  /\ n \div BlockSize \in Nat /\ lo \div BlockSize \in Nat
         /\ (w + BlockSize - 2) \div BlockSize \in Nat
         /\ lo \div BlockSize <= n \div BlockSize
         /\ (n \div BlockSize) - (lo \div BlockSize) <= (w + BlockSize - 2) \div BlockSize
<1> DEFINE q == n \div BlockSize
           r == n % BlockSize
           t == lo \div BlockSize
           u == lo % BlockSize
           m == w + BlockSize - 2
<1>1. BlockSize \in Nat \ {0} /\ lo \in Nat /\ m \in Nat
  BY KVCacheAssumption
<1>2. /\ q \in Nat /\ r \in Nat /\ r < BlockSize /\ n = q * BlockSize + r
      /\ t \in Nat /\ u \in Nat /\ u < BlockSize /\ lo = t * BlockSize + u
      /\ m \div BlockSize \in Nat
  BY <1>1, Division
<1>3. t <= q
  BY <1>1, DivMono
<1> HIDE DEF q, r, t, u
<1> DEFINE x == q - t
<1>4. x \in Nat /\ q = t + x
  BY <1>2, <1>3
<1> HIDE DEF x
<1>5. q * BlockSize = t * BlockSize + x * BlockSize /\ x * BlockSize \in Nat /\ t * BlockSize \in Nat
  BY <1>1, <1>2, <1>4, SMT
<1>6. x * BlockSize <= m
  <2>1. x * BlockSize = n - r - lo + u
    BY <1>1, <1>2, <1>5
  <2> QED
    BY <1>1, <1>2, <2>1
<1> HIDE DEF m
<1>7. (x * BlockSize) \div BlockSize = x
  <2>1. x * BlockSize = x * BlockSize + 0
    BY <1>5
  <2> QED
    BY <1>1, <1>4, <1>5, <2>1, BlockAt
<1>8. x <= m \div BlockSize
  BY <1>1, <1>5, <1>6, <1>7, DivMono
<1> QED
  BY <1>2, <1>3, <1>4, <1>8 DEF q, t, m

\* Spilling leaves no more blocks in RAM than may stay.
LEMMA SpilledMany ==
  ASSUME NEW D \in SUBSET Nat, IsFiniteSet(D), NEW cur \in D
  PROVE  Cardinality(D \ Lowest(D \ {cur}, Cardinality(D) - MaxResident)) <= MaxResident
<1> DEFINE k == Cardinality(D) - MaxResident
           S == D \ {cur}
           V == Lowest(S, k)
<1>1. Cardinality(D) \in Nat /\ MaxResident \in Nat \ {0}
  BY FS_CardinalityType, KVCacheAssumption
<1>2. V \subseteq D
  BY DEF Lowest
<1>3. IsFiniteSet(D \ V) /\ Cardinality(D \ V) <= Cardinality(D)
  BY FS_Subset
<1>4. CASE Cardinality(D) <= MaxResident
  <2>1. Cardinality(D \ V) \in Nat
    BY <1>3, FS_CardinalityType
  <2> QED
    BY <1>1, <1>3, <1>4, <2>1
<1>5. CASE Cardinality(D) > MaxResident
  <2>1. IsFiniteSet(S) /\ Cardinality(S) = Cardinality(D) - 1 /\ S \in SUBSET Nat
    BY FS_RemoveElement
  <2>2. k \in Nat /\ k <= Cardinality(S)
    BY <1>1, <1>5, <2>1
  <2> HIDE DEF S, k
  <2>3. Cardinality(V) = k
    BY <2>1, <2>2, LowestMany
  <2>4. D \cap V = V
    BY <1>2
  <2>5. Cardinality(D \ V) = Cardinality(D) - Cardinality(D \cap V)
    BY FS_Difference
  <2>6. Cardinality(D \ V) = Cardinality(D) - k
    BY <2>3, <2>4, <2>5
  <2> QED
    BY <1>1, <2>6 DEF k, S
<1> QED
  BY <1>1, <1>4, <1>5

\* A clean pass leaves in RAM what may stay there and what attention reaches.
LEMMA PositionBounded ==
  ASSUME IInv, NEW s \in Session, Position(s), Clean(s)
  PROVE  Cardinality(DOMAIN cache'[s].resident) <= Bound
<1> DEFINE n == cache[s].len
<1>1. /\ Sound(cache[s], disk) /\ n \in Nat /\ n < MaxPositions /\ window \in Nat \ {0}
      /\ MaxResident \in Nat
  <2>1. Sound(cache[s], disk) /\ window \in Nat \ {0} /\ MaxResident \in Nat
    BY KVCacheAssumption DEF IInv, Sane, Owner
  <2>2. n \in Nat
    BY <2>1 DEF Sound, Typed
  <2>3. n < MaxPositions
    BY DEF Position
  <2> QED
    BY <2>1, <2>2, <2>3
<1>2. PICK v \in Value :
         LET a == Appended(cache[s], v)
             V == Victims(a, cache[s].len \div BlockSize)
         IN  DOMAIN cache'[s].resident = (DOMAIN a.resident \ V) \cup Needed(Spilled(a, V))
  BY DEF Clean
<1> DEFINE a == Appended(cache[s], v)
           cur == n \div BlockSize
           D == DOMAIN a.resident
           V == Victims(a, cur)
           N == Needed(Spilled(a, V))
           lo == IF n + 1 < window THEN 0 ELSE n + 1 - window
<1>3. Sound(a, disk) /\ a.len = n + 1 /\ cur \in D
  BY <1>1, AppendedSound
<1>4. D \in SUBSET Nat /\ IsFiniteSet(D)
  <2>1. D \in SUBSET Used(n + 1)
    BY <1>3 DEF Sound
  <2> QED
    BY <2>1, FiniteBlocks
<1>5. Cardinality(D \ V) <= MaxResident /\ IsFiniteSet(D \ V)
  <2>1. Cardinality(D \ Lowest(D \ {cur}, Cardinality(D) - MaxResident)) <= MaxResident
    <3> HIDE DEF D, cur
    <3> QED
      BY <1>3, <1>4, SpilledMany
  <2>2. IsFiniteSet(D \ V)
    <3> HIDE DEF D, V
    <3> QED
      BY <1>4, FS_Difference
  <2> QED
    BY <2>1, <2>2 DEF Victims
<1>6. /\ Sound(Spilled(a, V), Written(a, V)) /\ Spilled(a, V).len = n + 1
      /\ DOMAIN Spilled(a, V).resident = D \ V /\ cur \notin V
  <2> HIDE DEF a, n
  <2>1. /\ V \subseteq D \ {cur}
        /\ \A b \in V : Filled(a.len, b) = BlockSize
    BY <1>1, <1>3, VictimsFull
  <2>2. V \in SUBSET DOMAIN a.resident /\ cur \notin V
    BY <2>1
  <2> HIDE DEF V
  <2> QED
    BY <1>3, <2>1, <2>2, SpilledSound
<1>7. /\ cur \in Nat /\ lo \in 0..n /\ n + 1 - lo <= window
      /\ lo \div BlockSize \in Nat /\ (window + BlockSize - 2) \div BlockSize \in Nat
      /\ lo \div BlockSize <= cur
      /\ cur - (lo \div BlockSize) <= (window + BlockSize - 2) \div BlockSize
  <2>1. lo \in 0..n /\ n + 1 - lo <= window
    BY <1>1
  <2> HIDE DEF lo, n
  <2> QED
    BY <1>1, <2>1, WindowBlocks
<1>8. N \subseteq (lo \div BlockSize)..(cur - 1)
  <2> SUFFICES ASSUME NEW b \in N PROVE b \in (lo \div BlockSize)..(cur - 1)
    OBVIOUS
  <2> HIDE DEF a, V
  <2>1. b \in DOMAIN Spilled(a, V).spilled /\ \E p \in Reach(Spilled(a, V)) : p \div BlockSize = b
    BY DEF Needed
  <2>2. PICK p \in Reach(Spilled(a, V)) : p \div BlockSize = b
    BY <2>1
  <2>3. p \in lo..n
    <3>1. Reach(Spilled(a, V)) = lo..(n + 1 - 1)
      <4> DEFINE x == Spilled(a, V)
      <4>1. x.len = n + 1 /\ n \in Nat /\ window \in Nat
        BY <1>1, <1>6
      <4> HIDE DEF x, n
      <4>2. Reach(x) = lo..(n + 1 - 1)
        BY <4>1 DEF Reach
      <4> QED
        BY <4>2 DEF x
    <3> HIDE DEF n
    <3> QED
      BY <1>1, <1>7, <2>2, <3>1
  <2>4. p \in Nat /\ lo \in Nat /\ lo <= p /\ p <= n
    <3> HIDE DEF lo, n
    <3> QED
      BY <1>1, <1>7, <2>3
  <2>5. lo \div BlockSize <= b /\ b <= cur /\ b \in Nat
    <3>1. p \div BlockSize \in Nat
      BY <2>4, Division
    <3> HIDE DEF lo, n
    <3> QED
      BY <1>1, <2>2, <2>4, <3>1, DivMono
  <2>6. b # cur
    BY <1>3, <1>6, <2>1 DEF Sound
  <2> HIDE DEF cur, lo
  <2> QED
    BY <1>7, <2>5, <2>6
<1>9. IsFiniteSet(N) /\ Cardinality(N) <= (window + BlockSize - 2) \div BlockSize
  <2> DEFINE i == lo \div BlockSize
             j == cur - 1
  <2>1. i \in Int /\ j \in Int
    BY <1>7
  <2>2. IsFiniteSet(i..j) /\ Cardinality(i..j) = IF i > j THEN 0 ELSE j - i + 1
    <3> HIDE DEF i, j
    <3> QED
      BY <2>1, FS_Interval
  <2> HIDE DEF N, lo, cur
  <2>3. IsFiniteSet(N) /\ Cardinality(N) <= Cardinality(i..j)
    BY <1>8, <2>2, FS_Subset
  <2>4. Cardinality(N) \in Nat
    BY <2>3, FS_CardinalityType
  <2> QED
    BY <1>7, <2>2, <2>3, <2>4
<1>10. Cardinality((D \ V) \cup N) <= Bound
  <2> HIDE DEF D, V, N
  <2>1. /\ IsFiniteSet((D \ V) \cap N)
        /\ Cardinality((D \ V) \cup N) = Cardinality(D \ V) + Cardinality(N) - Cardinality((D \ V) \cap N)
    BY <1>5, <1>9, FS_Union, FS_Intersection
  <2>2. Cardinality(D \ V) \in Nat /\ Cardinality(N) \in Nat /\ Cardinality((D \ V) \cap N) \in Nat
    BY <1>5, <1>9, <2>1, FS_CardinalityType
  <2> QED
    BY <1>1, <1>5, <1>7, <1>9, <2>1, <2>2 DEF Bound
<1> QED
  BY <1>2, <1>10

\* A window's bound is a number, and no block is within it.
LEMMA BoundType ==
  ASSUME Sane
  PROVE  /\ Bound \in Nat
         /\ \A o \in Owner : cache[o].len = 0 => Cardinality(DOMAIN cache[o].resident) <= Bound
<1>1. Bound \in Nat
  <2>1. window \in Nat \ {0} /\ MaxResident \in Nat /\ BlockSize \in Nat \ {0}
    BY KVCacheAssumption DEF Sane
  <2>2. window + BlockSize - 2 \in Nat
    BY <2>1
  <2> QED
    BY <2>1, <2>2, Division DEF Bound
<1>2. ASSUME NEW o \in Owner, cache[o].len = 0
      PROVE  Cardinality(DOMAIN cache[o].resident) <= Bound
  <2>1. DOMAIN cache[o].resident \subseteq Used(0)
    BY <1>2 DEF Sane, Sound
  <2>2. Used(0) = {}
    BY EmptyUsed
  <2> QED
    BY <1>1, <2>1, <2>2, FS_EmptySet
<1> QED
  BY <1>1, <1>2

\* max_resident_blocks bounds the blocks in RAM, but for those attention reaches, whatever
\* the window, the block size and the order of passes, cuts and copies.
THEOREM BoundedAlways == Spec => []Bounded
<1> DEFINE Inv == IInv /\ AllBounded
<1>1. Init => Inv
  <2> SUFFICES ASSUME Init PROVE AllBounded
    BY InitHolds
  <2>1. Sane
    BY InitHolds DEF IInv
  <2>2. \A o \in Owner : cache[o].len = 0
    BY DEF Init, Empty
  <2> QED
    BY <2>1, <2>2, BoundType DEF AllBounded
<1>2. Inv /\ [Next]_vars => Inv'
  <2> SUFFICES ASSUME Inv, [Next]_vars PROVE AllBounded'
    BY StepHolds
  <2>1. /\ status \in [Owner -> {"new", "prefill", "decode", "broken", "dropped", "kept"}]
        /\ cache = [o \in Owner |-> cache[o]] /\ Sane
    BY DEF IInv, Sane
  <2>2. CASE UNCHANGED vars
    BY <2>2 DEF vars, AllBounded, Bound
  <2>3. ASSUME NEW s \in Session, Begin(s) PROVE AllBounded'
    BY <2>1, <2>3 DEF Begin, AllBounded, Bound, Owner
  <2>4. ASSUME NEW s \in Session, Finish(s) PROVE AllBounded'
    <3>1. status[s] = "prefill" /\ window' = window /\ s \in Owner
      BY <2>4 DEF Finish, Owner
    <3>2. CASE status' = [status EXCEPT ![s] = "decode"] /\ UNCHANGED cache
      BY <2>1, <3>1, <3>2 DEF AllBounded, Bound
    <3>3. ASSUME NEW e \in Entry, status' = [status EXCEPT ![s] = "decode", ![e] = "kept"],
                 cache' = [cache EXCEPT ![e] = cache[s]]
          PROVE  AllBounded'
      <4>1. e \in Owner /\ e # s
        BY KVCacheAssumption DEF Owner
      <4>2. \A o \in Owner \ {s, e} : status'[o] = status[o] /\ cache'[o] = cache[o]
        BY <2>1, <3>3
      <4>3. cache'[e] = cache[s] /\ cache'[s] = cache[s]
        BY <2>1, <3>1, <3>3, <4>1
      <4> QED
        BY <3>1, <4>2, <4>3 DEF AllBounded, Bound
    <3> QED
      BY <2>4, <3>2, <3>3 DEF Finish
  <2>5. ASSUME NEW s \in Session, Position(s) PROVE AllBounded'
    <3>1. s \in Owner /\ window' = window /\ status[s] # "broken"
      BY <2>5 DEF Position, Owner
    <3>2. PICK v \in Value : Grown(s, v)
      BY <2>5, PositionGrows
    <3>3. \A o \in Owner \ {s} : cache'[o] = cache[o]
      BY <2>1, <3>2 DEF Grown
    <3>4. CASE status' = [status EXCEPT ![s] = "broken"]
      <4>1. status'[s] = "broken" /\ \A o \in Owner \ {s} : status'[o] = status[o]
        BY <2>1, <3>1, <3>4
      <4> QED
        BY <3>1, <3>3, <4>1 DEF AllBounded, Bound
    <3>5. CASE Clean(s)
      <4>1. Cardinality(DOMAIN cache'[s].resident) <= Bound
        BY <2>5, <3>5, PositionBounded
      <4>2. status' = status
        BY <3>5 DEF Clean
      <4> QED
        BY <3>1, <3>3, <4>1, <4>2 DEF AllBounded, Bound
    <3> QED
      BY <2>5, <3>4, <3>5, PositionGrows
  <2>6. ASSUME NEW s \in Session, Truncate(s) PROVE AllBounded'
    <3>1. s \in Owner /\ window' = window /\ status[s] # "broken" /\ Sound(cache[s], disk)
      BY <2>1, <2>6 DEF Truncate, Owner, Sane
    <3>2. PICK n \in floor[s]..(cache[s].len - 1) :
            \/ /\ Refused(cache[s], n)
               /\ status' = [status EXCEPT ![s] = "broken"]
               /\ UNCHANGED <<cache, floor, disk>>
            \/ CutBack(s, n)
      BY <2>6, TruncateCuts
    <3>3. CASE status' = [status EXCEPT ![s] = "broken"] /\ UNCHANGED cache
      <4>1. status'[s] = "broken" /\ \A o \in Owner \ {s} : status'[o] = status[o]
        BY <2>1, <3>1, <3>3
      <4> QED
        BY <3>1, <3>3, <4>1 DEF AllBounded, Bound
    <3>4. CASE CutBack(s, n)
      <4>1. /\ cache' = [cache EXCEPT ![s] = Cut(cache[s], n)] /\ status' = status
            /\ n \in 0..cache[s].len /\ ~Refused(cache[s], n)
        BY <3>4 DEF CutBack
      <4>2. DOMAIN Cut(cache[s], n).resident \in SUBSET DOMAIN cache[s].resident
        BY <3>1, <4>1, CutSound
      <4>3. /\ DOMAIN cache'[s].resident \in SUBSET DOMAIN cache[s].resident
            /\ \A o \in Owner \ {s} : cache'[o] = cache[o]
        BY <2>1, <3>1, <4>1, <4>2
      <4>4. IsFiniteSet(DOMAIN cache[s].resident)
        <5>1. DOMAIN cache[s].resident \in SUBSET Used(cache[s].len)
          BY <3>1 DEF Sound
        <5> QED
          BY <5>1, FiniteBlocks
      <4>5. /\ Cardinality(DOMAIN cache'[s].resident) <= Cardinality(DOMAIN cache[s].resident)
            /\ IsFiniteSet(DOMAIN cache'[s].resident)
        BY <4>3, <4>4, FS_Subset
      <4>6. /\ Cardinality(DOMAIN cache'[s].resident) \in Nat
            /\ Cardinality(DOMAIN cache[s].resident) \in Nat /\ Bound \in Nat
        BY <2>1, <4>4, <4>5, FS_CardinalityType, BoundType
      <4>7. Cardinality(DOMAIN cache[s].resident) <= Bound
        BY <3>1 DEF AllBounded
      <4>8. Cardinality(DOMAIN cache'[s].resident) <= Bound
        BY <4>5, <4>6, <4>7
      <4>9. Bound' = Bound
        BY <3>1 DEF Bound
      <4> QED
        BY <3>1, <4>1, <4>3, <4>8, <4>9 DEF AllBounded
    <3> QED
      BY <3>2, <3>3, <3>4
  <2>7. ASSUME NEW s \in Session, NEW e \in Entry, Hit(s, e) PROVE AllBounded'
    <3>1. s \in Owner /\ e \in Owner /\ window' = window /\ status[e] = "kept"
      BY <2>7 DEF Hit, Owner
    <3>2. /\ status' = [status EXCEPT ![s] = "decode"]
          /\ cache' = [cache EXCEPT ![s] = Rekeyed(cache[e], s)]
          /\ Rekeyed(cache[e], s).resident = cache[e].resident
      BY <2>7, HitCopies
    <3>3. /\ cache'[s].resident = cache[e].resident
          /\ \A o \in Owner \ {s} : cache'[o] = cache[o] /\ status'[o] = status[o]
      BY <2>1, <3>1, <3>2
    <3> QED
      BY <3>1, <3>3 DEF AllBounded, Bound
  <2>8. ASSUME NEW o \in Owner, Drop(o) PROVE AllBounded'
    <3>1. window' = window /\ status' = [status EXCEPT ![o] = IF o \in Entry THEN "new" ELSE "dropped"]
      BY <2>8 DEF Drop
    <3>2. cache' = [cache EXCEPT ![o] = Empty(o)]
      BY <2>8, DropPurges
    <3>3. cache'[o].resident = << >> /\ \A q \in Owner \ {o} : cache'[q] = cache[q] /\ status'[q] = status[q]
      BY <2>1, <3>1, <3>2 DEF Empty
    <3>4. Cardinality(DOMAIN cache'[o].resident) = 0
      BY <3>3, FS_EmptySet
    <3>5. Bound \in Nat /\ Bound' = Bound
      BY <2>1, <3>1, BoundType DEF Bound
    <3> QED
      BY <3>3, <3>4, <3>5 DEF AllBounded
  <2>9. Idle => UNCHANGED vars
    BY DEF Idle
  <2> QED
    BY <2>2, <2>3, <2>4, <2>5, <2>6, <2>7, <2>8, <2>9 DEF Next
<1>3. Inv => Bounded
  BY DEF AllBounded, Bounded, Bound, Owner
<1> HIDE DEF Inv
<1> QED
  BY <1>1, <1>2, <1>3, PTL DEF Spec

-----------------------------------------------------------------------------
(* The cache implements the log of positions.                              *)

\* What position p of c holds on disk d, found block by block.
At(c, d, p) == Content(c, d, p \div BlockSize)[(p % BlockSize) + 1]

\* All that c holds, in order.
Positions(c, d) == [i \in 1..c.len |-> At(c, d, i - 1)]

\* Held, of any disk.
HeldOn(c, d, p) ==
    LET b == p \div BlockSize IN
    IF InRam(c, p) THEN c.resident[b][(p % BlockSize) + 1]
    ELSE IF b \in DOMAIN c.spilled /\ c.spilled[b] \in DOMAIN d
         THEN d[c.spilled[b]][(p % BlockSize) + 1]
         ELSE None

\* A sound cache holds every position where its block says, and a value there.
LEMMA HeldAt ==
  ASSUME NEW c, NEW d, Sound(c, d), NEW p \in 0..(c.len - 1)
  PROVE  HeldOn(c, d, p) = At(c, d, p) /\ At(c, d, p) \in Value
<1> DEFINE b == p \div BlockSize
           r == p % BlockSize
<1>1. c.len \in 0..MaxPositions
  BY DEF Sound, Typed
<1>2. b \in Used(c.len) /\ r \in Nat /\ r < Filled(c.len, b)
  <2> DEFINE n == c.len
  <2>1. n \in 0..MaxPositions /\ p \in 0..(n - 1)
    BY <1>1
  <2> HIDE DEF n
  <2>2. /\ p \div BlockSize \in Used(n) /\ p % BlockSize \in Nat
        /\ p % BlockSize < Filled(n, p \div BlockSize)
    BY <2>1, PlaceOf
  <2> QED
    BY <2>2 DEF n
<1>3. Content(c, d, b) \in Seq(Value) /\ Len(Content(c, d, b)) = Filled(c.len, b)
  BY <1>2, ContentType
<1>4. At(c, d, p) = Content(c, d, b)[r + 1]
  BY DEF At
<1>5. HeldOn(c, d, p) = IF b \in DOMAIN c.resident /\ r < Len(c.resident[b])
                        THEN c.resident[b][r + 1]
                        ELSE IF b \in DOMAIN c.spilled /\ c.spilled[b] \in DOMAIN d
                             THEN d[c.spilled[b]][r + 1]
                             ELSE None
  BY DEF HeldOn, InRam
<1> HIDE DEF b, r
<1>6. At(c, d, p) \in Value
  <2>1. r + 1 \in 1..Len(Content(c, d, b))
    BY <1>2, <1>3
  <2> QED
    BY <1>3, <1>4, <2>1
<1>7. CASE b \in DOMAIN c.resident
  BY <1>2, <1>4, <1>5, <1>6, <1>7 DEF Sound, Content
<1>8. CASE b \notin DOMAIN c.resident
  <2>1. b \in DOMAIN c.spilled /\ c.spilled[b] = Path(c.id, b) /\ Path(c.id, b) \in DOMAIN d
    BY <1>2, <1>8 DEF Sound, Typed
  <2> QED
    BY <1>4, <1>5, <1>6, <1>8, <2>1 DEF Content
<1> QED
  BY <1>7, <1>8

\* What a sound cache holds is a sequence of values.
LEMMA HeldPositions ==
  ASSUME NEW c, NEW d, Sound(c, d)
  PROVE  /\ [i \in 1..c.len |-> HeldOn(c, d, i - 1)] = Positions(c, d)
         /\ Positions(c, d) \in Seq(Value)
         /\ Len(Positions(c, d)) = c.len
         /\ c.len \in Nat
         /\ \A i \in 1..c.len : Positions(c, d)[i] = At(c, d, i - 1)
<1>1. c.len \in Nat
  BY DEF Sound, Typed
<1>2. \A i \in 1..c.len : i - 1 \in 0..(c.len - 1)
  BY <1>1
<1>3. \A i \in 1..c.len : HeldOn(c, d, i - 1) = At(c, d, i - 1) /\ At(c, d, i - 1) \in Value
  BY <1>2, HeldAt
<1>4. [i \in 1..c.len |-> HeldOn(c, d, i - 1)] = Positions(c, d)
  BY <1>3 DEF Positions
<1>5. Positions(c, d) \in [1..c.len -> Value]
  BY <1>3 DEF Positions
<1>6. Positions(c, d) \in Seq(Value) /\ Len(Positions(c, d)) = c.len
  BY <1>1, <1>5
<1> QED
  BY <1>1, <1>4, <1>6 DEF Positions

\* Caches with the same blocks hold the same.
LEMMA SamePositions ==
  ASSUME NEW c, NEW d, NEW a, NEW e, c.len \in 0..MaxPositions, a.len = c.len,
         \A b \in Used(c.len) : Content(a, e, b) = Content(c, d, b)
  PROVE  Positions(a, e) = Positions(c, d)
<1> DEFINE n == c.len
<1>1. n \in 0..MaxPositions /\ a.len = n
  OBVIOUS
<1>2. ASSUME NEW i \in 1..n
      PROVE  At(a, e, i - 1) = At(c, d, i - 1)
  <2>1. i - 1 \in 0..(n - 1)
    BY <1>1
  <2> HIDE DEF n
  <2>2. (i - 1) \div BlockSize \in Used(n)
    BY <1>1, <2>1, PlaceOf
  <2> QED
    BY <2>2 DEF At, n
<1> QED
  BY <1>1, <1>2 DEF Positions

\* A position more is appended to what is held.
LEMMA AppendedPositions ==
  ASSUME NEW c, NEW d, Sound(c, d), c.len < MaxPositions, NEW v \in Value
  PROVE  LET new == Positions(Appended(c, v), d)
             old == Positions(c, d)
         IN  /\ Len(new) = Len(old) + 1
             /\ new[Len(new)] = v
             /\ \A i \in 1..Len(old) : new[i] = old[i]
<1> DEFINE a == Appended(c, v)
           n == c.len
           idx == n \div BlockSize
<1>1. n \in Nat /\ n < MaxPositions /\ n \in 0..MaxPositions
  <2>1. n \in Nat
    BY DEF Sound, Typed
  <2> QED
    BY <2>1, KVCacheAssumption
<1>2. /\ Sound(a, d) /\ a.len = n + 1
      /\ \A b \in Used(n) \ {idx} : Content(a, d, b) = Content(c, d, b)
  BY AppendedSound
<1>3. PICK old \in Seq(Value) : /\ Len(old) = n % BlockSize
                                /\ idx \in Used(n) => old = Content(c, d, idx)
                                /\ Content(a, d, idx) = Append(old, v)
  BY AppendedSound
<1> HIDE DEF a, n
<1>4. At(a, d, n) = v
  <2>1. n % BlockSize \in Nat
    BY <1>1, Division
  <2> QED
    BY <1>3, <2>1 DEF At
<1>5. ASSUME NEW p \in 0..(n - 1)
      PROVE  At(a, d, p) = At(c, d, p)
  <2> DEFINE b == p \div BlockSize
             r == p % BlockSize
  <2>1. b \in Used(n) /\ r \in Nat /\ r < Filled(n, b)
    BY <1>1, PlaceOf
  <2>2. CASE b # idx
    BY <1>2, <2>1, <2>2 DEF At
  <2>3. CASE b = idx
    <3>1. old = Content(c, d, b) /\ Content(a, d, b) = Append(old, v)
      BY <1>3, <2>1, <2>3
    <3>2. Len(old) = Filled(n, b)
      BY <2>1, <3>1, ContentType DEF n
    <3>3. Append(old, v)[r + 1] = old[r + 1]
      <4> HIDE DEF b, r
      <4> QED
        BY <2>1, <3>2
    <3> QED
      BY <3>1, <3>3 DEF At
  <2> QED
    BY <2>2, <2>3
<1>6. /\ Len(Positions(c, d)) = n /\ Len(Positions(a, d)) = n + 1
      /\ \A i \in 1..n : Positions(c, d)[i] = At(c, d, i - 1)
      /\ \A i \in 1..(n + 1) : Positions(a, d)[i] = At(a, d, i - 1)
  BY <1>2, HeldPositions DEF n
<1>7. Positions(a, d)[n + 1] = v
  <2>1. n + 1 \in 1..(n + 1) /\ n + 1 - 1 = n
    BY <1>1
  <2> QED
    BY <1>4, <1>6, <2>1
<1>8. ASSUME NEW i \in 1..n
      PROVE  Positions(a, d)[i] = Positions(c, d)[i]
  <2>1. i - 1 \in 0..(n - 1) /\ i \in 1..(n + 1)
    BY <1>1
  <2> QED
    BY <1>5, <1>6, <2>1
<1> QED
  BY <1>6, <1>7, <1>8 DEF a

\* A cut keeps what precedes it.
LEMMA CutPositions ==
  ASSUME NEW c, NEW d, Sound(c, d), NEW n \in 0..c.len, ~Refused(c, n)
  PROVE  LET new == Positions(Cut(c, n), d)
             old == Positions(c, d)
         IN  /\ Len(new) <= Len(old)
             /\ \A i \in 1..Len(new) : new[i] = old[i]
<1> DEFINE a == Cut(c, n)
           q == n \div BlockSize
           m == c.len
<1>1. m \in 0..MaxPositions /\ m \in Nat /\ n \in Nat /\ n <= m /\ n \in 0..m
  <2>1. m \in Nat /\ m \in 0..MaxPositions
    BY DEF Sound, Typed
  <2> QED
    BY <2>1
<1>2. /\ Sound(a, d) /\ a.len = n
      /\ \A b \in Used(n) : Content(a, d, b) =
            IF b = q THEN SubSeq(Content(c, d, b), 1, n % BlockSize) ELSE Content(c, d, b)
  BY CutSound
<1> HIDE DEF a, m, q
<1>3. /\ n \in 0..MaxPositions /\ Used(n) \subseteq Used(m)
      /\ \A b \in Used(n) : b = q => Filled(n, b) = n % BlockSize /\ n % BlockSize <= Filled(m, b)
  BY <1>1, FewerPositions DEF q
<1>4. ASSUME NEW p \in 0..(n - 1)
      PROVE  At(a, d, p) = At(c, d, p)
  <2> DEFINE b == p \div BlockSize
             r == p % BlockSize
             t == n % BlockSize
  <2>1. b \in Used(n) /\ r \in Nat /\ r < Filled(n, b)
    BY <1>3, PlaceOf
  <2>2. t \in Nat
    BY <1>1, Division
  <2>3. Content(c, d, b) \in Seq(Value) /\ Len(Content(c, d, b)) = Filled(m, b)
    BY <1>3, <2>1, ContentType DEF m
  <2>4. CASE b # q
    BY <1>2, <2>1, <2>4 DEF At
  <2>5. CASE b = q
    <3>1. Content(a, d, b) = SubSeq(Content(c, d, b), 1, t) /\ r < t /\ t <= Len(Content(c, d, b))
      BY <1>2, <1>3, <2>1, <2>3, <2>5
    <3>2. SubSeq(Content(c, d, b), 1, t)[r + 1] = Content(c, d, b)[r + 1]
      <4> HIDE DEF b, r, t
      <4> QED
        BY <2>1, <2>2, <2>3, <3>1
    <3> QED
      BY <3>1, <3>2 DEF At
  <2> QED
    BY <2>4, <2>5
<1>5. /\ Len(Positions(c, d)) = m /\ Len(Positions(a, d)) = n
      /\ \A i \in 1..m : Positions(c, d)[i] = At(c, d, i - 1)
      /\ \A i \in 1..n : Positions(a, d)[i] = At(a, d, i - 1)
  BY <1>2, HeldPositions DEF m
<1>6. ASSUME NEW i \in 1..n
      PROVE  Positions(a, d)[i] = Positions(c, d)[i]
  <2>1. i - 1 \in 0..(n - 1) /\ i \in 1..m
    BY <1>1
  <2> QED
    BY <1>4, <1>5, <2>1
<1> QED
  BY <1>1, <1>5, <1>6 DEF a

\* The abstract log, as the refinement mapping gives it.
Now == [o \in Owner |-> IF status[o] \in {"new", "dropped"} THEN None
                        ELSE [i \in 1..cache[o].len |-> Held(cache[o], i - 1)]]

\* Which owners have a log, and what is in it.
LEMMA NowIs ==
  ASSUME IInv, NEW o \in Owner
  PROVE  /\ status[o] \in {"new", "dropped"} => Now[o] = None
         /\ status[o] \notin {"new", "dropped"} => Now[o] = Positions(cache[o], disk) /\ Now[o] # None
<1>1. Sound(cache[o], disk)
  BY DEF IInv, Sane
<1>2. /\ [i \in 1..cache[o].len |-> HeldOn(cache[o], disk, i - 1)] = Positions(cache[o], disk)
      /\ Positions(cache[o], disk) \in Seq(Value)
  BY <1>1, HeldPositions
<1>3. [i \in 1..cache[o].len |-> Held(cache[o], i - 1)] =
         [i \in 1..cache[o].len |-> HeldOn(cache[o], disk, i - 1)]
  BY DEF Held, HeldOn
<1>4. Now[o] = IF status[o] \in {"new", "dropped"} THEN None ELSE Positions(cache[o], disk)
  BY <1>2, <1>3 DEF Now
<1> QED
  BY <1>2, <1>4, KVCacheAssumption

\* The same after a step.
LEMMA NowIsNext ==
  ASSUME IInv', NEW o \in Owner
  PROVE  /\ status'[o] \in {"new", "dropped"} => Now'[o] = None
         /\ status'[o] \notin {"new", "dropped"} =>
               Now'[o] = Positions(cache'[o], disk') /\ Now'[o] # None
<1>1. Sound(cache'[o], disk')
  BY DEF IInv, Sane
<1>2. /\ [i \in 1..cache'[o].len |-> HeldOn(cache'[o], disk', i - 1)] = Positions(cache'[o], disk')
      /\ Positions(cache'[o], disk') \in Seq(Value)
  BY <1>1, HeldPositions
<1>3. [i \in 1..cache'[o].len |-> Held(cache[o], i - 1)'] =
         [i \in 1..cache'[o].len |-> HeldOn(cache'[o], disk', i - 1)]
  BY DEF Held, HeldOn
<1>4. Now'[o] = IF status'[o] \in {"new", "dropped"} THEN None ELSE Positions(cache'[o], disk')
  BY <1>2, <1>3 DEF Now
<1> QED
  BY <1>2, <1>4, KVCacheAssumption

\* A status in which an owner has a log.
Live(st) == st \notin {"new", "dropped"}

\* The logs of the owners a step does not concern stay as they are.
LEMMA OtherLogs ==
  ASSUME IInv, IInv', NEW s \in Owner,
         \A o \in Owner \ {s} : Live(status'[o]) = Live(status[o]) /\ cache'[o] = cache[o],
         \A p \in DOMAIN disk : p[1] # s => p \in DOMAIN disk' /\ disk'[p] = disk[p]
  PROVE  DOMAIN Now' = Owner /\ \A o \in Owner \ {s} : Now'[o] = Now[o]
<1>1. DOMAIN Now' = Owner
  BY DEF Now
<1>2. ASSUME NEW o \in Owner, o # s
      PROVE  Now'[o] = Now[o]
  <2>1. CASE Live(status[o])
    <3>1. cache'[o] = cache[o] /\ Live(status'[o]) = Live(status[o])
      BY <1>2
    <3>2. Sound(cache[o], disk) /\ cache[o].len \in 0..MaxPositions
      BY DEF IInv, Sane, Sound, Typed
    <3>3. \A b \in Used(cache[o].len) : Content(cache[o], disk', b) = Content(cache[o], disk, b)
      BY <1>2, OthersKept DEF IInv
    <3>4. Positions(cache[o], disk') = Positions(cache[o], disk)
      BY <3>2, <3>3, SamePositions
    <3> QED
      BY <2>1, <3>1, <3>4, NowIs, NowIsNext DEF Live
  <2>2. CASE ~Live(status[o])
    <3>1. Live(status'[o]) = Live(status[o])
      BY <1>2
    <3> QED
      BY <2>2, <3>1, NowIs, NowIsNext DEF Live
  <2> QED
    BY <2>1, <2>2
<1> QED
  BY <1>1, <1>2

\* A step that takes one owner's log on as it may go is a step of the log.
LEMMA Advances ==
  ASSUME IInv, IInv', NEW s \in Owner,
         \A o \in Owner \ {s} : Live(status'[o]) = Live(status[o]) /\ cache'[o] = cache[o],
         \A p \in DOMAIN disk : p[1] # s => p \in DOMAIN disk' /\ disk'[p] = disk[p],
         Log!Goes(Now[s], Now'[s])
  PROVE  Log!Next
<1>1. DOMAIN Now' = Owner /\ \A o \in Owner \ {s} : Now'[o] = Now[o]
  BY OtherLogs
<1>2. \A p \in Owner \ {s} : Now'[p] = Now[p]
  BY <1>1
<1> QED
  BY <1>1, <1>2 DEF Log!Next, Now

\* A step that changes no owner's log is no step of the log.
LEMMA Stutters ==
  ASSUME IInv, IInv', NEW s \in Owner,
         \A o \in Owner \ {s} : Live(status'[o]) = Live(status[o]) /\ cache'[o] = cache[o],
         \A p \in DOMAIN disk : p[1] # s => p \in DOMAIN disk' /\ disk'[p] = disk[p],
         Now[s] = Now'[s]
  PROVE  Now' = Now
<1>1. DOMAIN Now' = Owner /\ \A o \in Owner \ {s} : Now'[o] = Now[o]
  BY OtherLogs
<1> QED
  BY <1>1 DEF Now

\* Starting a request opens its log.
LEMMA BeginOpens ==
  ASSUME IInv, IInv', NEW s \in Session, Begin(s)
  PROVE  Log!Next
<1>1. s \in Owner /\ status \in [Owner -> {"new", "prefill", "decode", "broken", "dropped", "kept"}]
  BY DEF Owner, IInv, Sane
<1>2. /\ status[s] = "new" /\ status' = [status EXCEPT ![s] = "prefill"]
      /\ cache' = cache /\ disk' = disk
  BY DEF Begin
<1>3. Sound(cache'[s], disk') /\ cache'[s].len = 0
  BY <1>1, <1>2 DEF IInv, Sane, Fresh
<1>4. Now[s] = None /\ Now'[s] = Positions(cache'[s], disk')
  BY <1>1, <1>2, NowIs, NowIsNext
<1>5. Now'[s] = << >>
  BY <1>3, <1>4, HeldPositions
<1>6. Log!Goes(Now[s], Now'[s])
  BY <1>4, <1>5 DEF Log!Goes, Log!Open
<1>7. \A o \in Owner \ {s} : status'[o] = status[o]
  BY <1>1, <1>2
<1> QED
  BY <1>1, <1>2, <1>6, <1>7, Advances

\* A hit starts a log as a copy of the entry's.
LEMMA HitCopiesLog ==
  ASSUME IInv, IInv', NEW s \in Session, NEW e \in Entry, Hit(s, e)
  PROVE  Log!Next
<1> DEFINE x == Rekeyed(cache[e], s)
<1>1. /\ s \in Owner /\ e \in Owner /\ cache = [o \in Owner |-> cache[o]]
      /\ status \in [Owner -> {"new", "prefill", "decode", "broken", "dropped", "kept"}]
  BY DEF Owner, IInv, Sane
<1>2. /\ status' = [status EXCEPT ![s] = "decode"] /\ cache' = [cache EXCEPT ![s] = x]
      /\ x.len = cache[e].len
      /\ \A b \in Used(x.len) : Content(x, disk, b) = Content(cache[e], disk, b)
  BY HitCopies
<1>3. status[s] = "new" /\ status[e] = "kept" /\ disk' = disk
  BY DEF Hit
<1> HIDE DEF x
<1>4. cache'[s] = x /\ status'[s] = "decode"
  BY <1>1, <1>2
<1>5. cache[e].len \in 0..MaxPositions
  BY <1>1 DEF IInv, Sane, Sound, Typed
<1>6. Positions(x, disk) = Positions(cache[e], disk)
  BY <1>2, <1>5, SamePositions
<1>7. Now[s] = None /\ Now'[s] = Now[e]
  BY <1>1, <1>3, <1>4, <1>6, NowIs, NowIsNext
<1>8. Log!Goes(Now[s], Now'[s])
  BY <1>1, <1>7 DEF Log!Goes, Log!Copy, Now
<1>9. \A o \in Owner \ {s} : status'[o] = status[o] /\ cache'[o] = cache[o]
  BY <1>1, <1>2
<1> QED
  BY <1>1, <1>3, <1>8, <1>9, Advances

\* The end of the prompt changes no log, or starts an entry's as a copy.
LEMMA FinishCopiesLog ==
  ASSUME IInv, IInv', NEW s \in Session, Finish(s)
  PROVE  Log!Next \/ Now' = Now
<1>1. /\ s \in Owner /\ cache = [o \in Owner |-> cache[o]]
      /\ status \in [Owner -> {"new", "prefill", "decode", "broken", "dropped", "kept"}]
  BY DEF Owner, IInv, Sane
<1>2. status[s] = "prefill" /\ disk' = disk
  BY DEF Finish
<1>3. CASE status' = [status EXCEPT ![s] = "decode"] /\ UNCHANGED cache
  <2>1. Now[s] = Now'[s]
    BY <1>1, <1>2, <1>3, NowIs, NowIsNext
  <2>2. \A o \in Owner \ {s} : status'[o] = status[o] /\ cache'[o] = cache[o]
    BY <1>1, <1>3
  <2> QED
    BY <1>1, <1>2, <2>1, <2>2, Stutters
<1>4. ASSUME NEW e \in Entry, status[e] = "new",
             status' = [status EXCEPT ![s] = "decode", ![e] = "kept"],
             cache' = [cache EXCEPT ![e] = cache[s]]
      PROVE  Log!Next
  <2>1. e \in Owner /\ e # s
    BY KVCacheAssumption DEF Owner
  <2>2. /\ status'[e] = "kept" /\ cache'[e] = cache[s] /\ status'[s] = "decode"
        /\ \A o \in Owner \ {s, e} : status'[o] = status[o]
        /\ \A o \in Owner \ {e} : cache'[o] = cache[o]
    BY <1>1, <1>4, <2>1
  <2>3. Now[e] = None /\ Now'[e] = Now[s]
    BY <1>1, <1>2, <1>4, <2>1, <2>2, NowIs, NowIsNext
  <2>4. Log!Goes(Now[e], Now'[e])
    BY <1>1, <2>3 DEF Log!Goes, Log!Copy, Now
  <2>5. \A o \in Owner \ {e} : Live(status'[o]) = Live(status[o]) /\ cache'[o] = cache[o]
    BY <1>2, <2>2 DEF Live
  <2> QED
    BY <1>2, <2>1, <2>4, <2>5, Advances
<1> QED
  BY <1>3, <1>4 DEF Finish

\* A pass, failed or not, extends its log by a position.
LEMMA PositionExtends ==
  ASSUME IInv, IInv', NEW s \in Session, Position(s)
  PROVE  Log!Next
<1>1. /\ s \in Owner /\ cache = [o \in Owner |-> cache[o]]
      /\ status \in [Owner -> {"new", "prefill", "decode", "broken", "dropped", "kept"}]
  BY DEF Owner, IInv, Sane
<1>2. Sound(cache[s], disk) /\ cache[s].len \in 0..MaxPositions
  BY <1>1 DEF IInv, Sane, Sound, Typed
<1>3. cache[s].len < MaxPositions /\ status[s] \in {"prefill", "decode"}
  BY DEF Position
<1>4. PICK v \in Value : Grown(s, v)
  BY PositionGrows
<1>5. status' = status \/ status' = [status EXCEPT ![s] = "broken"]
  BY PositionGrows DEF Clean
<1> DEFINE a == Appended(cache[s], v)
           old == Positions(cache[s], disk)
           new == Positions(cache'[s], disk')
<1>6. Sound(a, disk) /\ a.len = cache[s].len + 1
  BY <1>2, <1>3, AppendedSound
<1>7. new = Positions(a, disk)
  <2>1. a.len \in 0..MaxPositions
    BY <1>6 DEF Sound, Typed
  <2>2. cache'[s].len = a.len
    BY <1>4, <1>6 DEF Grown
  <2>3. \A b \in Used(a.len) : Content(cache'[s], disk', b) = Content(a, disk, b)
    BY <1>4, <1>6 DEF Grown
  <2> HIDE DEF a
  <2> QED
    BY <2>1, <2>2, <2>3, SamePositions
<1>8. Len(new) = Len(old) + 1 /\ new[Len(new)] = v /\ \A i \in 1..Len(old) : new[i] = old[i]
  BY <1>2, <1>3, <1>7, AppendedPositions
<1>9. Len(old) < MaxPositions
  BY <1>2, <1>3, HeldPositions
<1>10. Now[s] = old /\ Now'[s] = new /\ Now[s] # None
  BY <1>1, <1>3, <1>5, NowIs, NowIsNext
<1> HIDE DEF old, new, a
<1>11. Log!Goes(Now[s], Now'[s])
  BY <1>8, <1>9, <1>10 DEF Log!Goes, Log!Extend
<1>12. \A o \in Owner \ {s} : status'[o] = status[o] /\ cache'[o] = cache[o]
  BY <1>1, <1>4, <1>5 DEF Grown
<1>13. \A p \in DOMAIN disk : p[1] # s => p \in DOMAIN disk' /\ disk'[p] = disk[p]
  BY <1>4 DEF Grown
<1> QED
  BY <1>1, <1>11, <1>12, <1>13, Advances

\* The end of a round shortens its log, or leaves it.
LEMMA TruncateShortens ==
  ASSUME IInv, IInv', NEW s \in Session, Truncate(s)
  PROVE  Log!Next \/ Now' = Now
<1>1. /\ s \in Owner /\ cache = [o \in Owner |-> cache[o]] /\ Sound(cache[s], disk)
      /\ status \in [Owner -> {"new", "prefill", "decode", "broken", "dropped", "kept"}]
  BY DEF Owner, IInv, Sane
<1>2. status[s] = "decode"
  BY DEF Truncate
<1>3. PICK n \in floor[s]..(cache[s].len - 1) :
            \/ /\ Refused(cache[s], n)
               /\ status' = [status EXCEPT ![s] = "broken"]
               /\ UNCHANGED <<cache, floor, disk>>
            \/ CutBack(s, n)
  BY TruncateCuts
<1>4. CASE /\ status' = [status EXCEPT ![s] = "broken"]
           /\ UNCHANGED <<cache, floor, disk>>
  <2>1. Now[s] = Now'[s]
    BY <1>1, <1>2, <1>4, NowIs, NowIsNext
  <2>2. \A o \in Owner \ {s} : status'[o] = status[o] /\ cache'[o] = cache[o]
    BY <1>1, <1>4
  <2> QED
    BY <1>1, <1>4, <2>1, <2>2, Stutters
<1>5. CASE CutBack(s, n)
  <2> DEFINE x == Cut(cache[s], n)
             old == Positions(cache[s], disk)
             new == Positions(x, disk')
  <2>1. /\ cache' = [cache EXCEPT ![s] = x] /\ n \in 0..cache[s].len /\ ~Refused(cache[s], n)
        /\ Sound(x, disk) /\ x.len = n /\ status' = status
        /\ \A b \in Used(n) : Content(x, disk', b) = Content(x, disk, b)
        /\ \A p \in DOMAIN disk : p[1] # s => p \in DOMAIN disk' /\ disk'[p] = disk[p]
    BY <1>5 DEF CutBack
  <2>2. new = Positions(x, disk)
    <3>1. x.len \in 0..MaxPositions
      BY <2>1 DEF Sound, Typed
    <3> HIDE DEF x
    <3> QED
      BY <2>1, <3>1, SamePositions
  <2>3. Len(new) <= Len(old) /\ \A i \in 1..Len(new) : new[i] = old[i]
    BY <1>1, <2>1, <2>2, CutPositions
  <2> HIDE DEF x
  <2>4. cache'[s] = x
    BY <1>1, <2>1
  <2>5. Now[s] = old /\ Now'[s] = new /\ Now[s] # None
    BY <1>1, <1>2, <2>1, <2>4, NowIs, NowIsNext
  <2> HIDE DEF old, new
  <2>6. Log!Goes(Now[s], Now'[s])
    BY <2>3, <2>5 DEF Log!Goes, Log!Shorten
  <2>7. \A o \in Owner \ {s} : status'[o] = status[o] /\ cache'[o] = cache[o]
    BY <1>1, <2>1
  <2> QED
    BY <1>1, <2>1, <2>6, <2>7, Advances
<1> QED
  BY <1>3, <1>4, <1>5

\* A drop closes its log.
LEMMA DropCloses ==
  ASSUME IInv, IInv', NEW o \in Owner, Drop(o)
  PROVE  Log!Next
<1>1. /\ cache = [q \in Owner |-> cache[q]]
      /\ status \in [Owner -> {"new", "prefill", "decode", "broken", "dropped", "kept"}]
  BY DEF IInv, Sane
<1>2. /\ status[o] \notin {"new", "dropped"}
      /\ status' = [status EXCEPT ![o] = IF o \in Entry THEN "new" ELSE "dropped"]
  BY DEF Drop
<1>3. /\ cache' = [cache EXCEPT ![o] = Empty(o)]
      /\ \A p \in DOMAIN disk : p[1] # o => p \in DOMAIN disk' /\ disk'[p] = disk[p]
  BY DropPurges
<1>4. Now[o] # None /\ Now'[o] = None
  BY <1>1, <1>2, NowIs, NowIsNext
<1>5. Log!Goes(Now[o], Now'[o])
  BY <1>4 DEF Log!Goes, Log!Close
<1>6. \A q \in Owner \ {o} : status'[q] = status[q] /\ cache'[q] = cache[q]
  BY <1>1, <1>2, <1>3
<1> QED
  BY <1>3, <1>5, <1>6, Advances

\* Spilled, read back, cut, rewritten and copied, with file operations failing wherever
\* they may, the paged cache is the log of positions: what a position holds changes only
\* when it is cut off.
THEOREM LogImplemented == Spec => ImplementsLog
<1>1. Init => Log!Init
  <2> SUFFICES ASSUME Init PROVE Now = [o \in Owner |-> None]
    BY DEF Log!Init, Now
  <2>1. \A o \in Owner : status[o] = "new"
    BY DEF Init
  <2> QED
    BY <2>1 DEF Now
<1>2. IInv /\ IInv' /\ [Next]_vars => [Log!Next]_Now
  <2> SUFFICES ASSUME IInv, IInv', [Next]_vars PROVE Log!Next \/ Now' = Now
    OBVIOUS
  <2>1. CASE UNCHANGED vars
    BY <2>1 DEF vars, Now, Held, InRam
  <2>2. ASSUME NEW s \in Session, Begin(s) PROVE Log!Next
    BY <2>2, BeginOpens
  <2>3. ASSUME NEW s \in Session, Finish(s) PROVE Log!Next \/ Now' = Now
    BY <2>3, FinishCopiesLog
  <2>4. ASSUME NEW s \in Session, Position(s) PROVE Log!Next
    BY <2>4, PositionExtends
  <2>5. ASSUME NEW s \in Session, Truncate(s) PROVE Log!Next \/ Now' = Now
    BY <2>5, TruncateShortens
  <2>6. ASSUME NEW s \in Session, NEW e \in Entry, Hit(s, e) PROVE Log!Next
    BY <2>6, HitCopiesLog
  <2>7. ASSUME NEW o \in Owner, Drop(o) PROVE Log!Next
    BY <2>7, DropCloses
  <2>8. Idle => UNCHANGED vars
    BY DEF Idle
  <2> QED
    BY <2>1, <2>2, <2>3, <2>4, <2>5, <2>6, <2>7, <2>8 DEF Next
<1>3. IInv /\ IInv' /\ [Next]_vars => [Log!Next]_[o \in Owner |->
                       IF status[o] \in {"new", "dropped"} THEN None
                       ELSE [i \in 1..cache[o].len |-> Held(cache[o], i - 1)]]
  BY <1>2 DEF Now
<1> QED
  BY <1>1, <1>3, Inductive, PTL DEF Spec, ImplementsLog, Log!Spec
=============================================================================
