-------------------------- MODULE StreamedEngineProofs --------------------------
EXTENDS StreamedEngine, SequenceTheorems, FiniteSetTheorems, WellFoundedInduction, TLAPS

(***************************************************************************)
(* That what a server multiplies by is its checkpoint, byte for byte: what *)
(* a loader accepts (LoadedWhole), what it pins and what it leaves to the  *)
(* ring (PinnedOrStreamed), what the ring hands to the forward passes      *)
(* (OwnBytes) and what is warmed ahead of an expert (ExpertsWarmed), for   *)
(* any files, configurations and interleavings.                            *)
(***************************************************************************)

-----------------------------------------------------------------------------
(* The ring, with any pinned blocks and any number of passes and readers.  *)
(* OwnBytes is not inductive: it speaks of the slots a pass computes from, *)
(* and what is in them was put there step by step, often by a reader,      *)
(* under the lock of someone else.  The inductive invariant is IInv: a     *)
(* slot that says it is ready holds the block it names, whole; one that is *)
(* being filled promises nothing, and its first pieces are the block's;    *)
(* its lock is held by the one worker that fills it or computes from it,   *)
(* so nobody else touches it meanwhile.                                    *)

Worker == Passes \cup Readers
Ring == 0..(Slots - 1)

(* Where a worker stands at the ring: whether it fills, whether it holds   *)
(* a slot, and the block it is after.                                      *)
Filling(w) == IF w \in Passes THEN pass[w].at = "fill" ELSE reader[w].at = "fill"
Computing(w) == w \in Passes /\ pass[w].at \in Guarded /\ Streams(pass[w].l)
Holding(w) == Filling(w) \/ Computing(w)
BlockOf(w) == IF w \in Passes THEN pass[w].l ELSE reader[w].block

(* The first n pieces of a block are in a slot.                            *)
Filled(slot, b, n) ==
  /\ DOMAIN slot.buf = 1..Span(b).len
  /\ \A i \in 1..n : slot.buf[i] = Span(b).start + i - 1

Vacant(slot) == slot.block = None /\ ~slot.ready

TypesOK ==
  /\ pinned \subseteq Blocks
  /\ DOMAIN slots = Ring /\ owner \in [Ring -> Worker \cup {NoOne}]
  /\ \A i \in Ring : slots[i].ready \in BOOLEAN
  /\ queue \in Seq(Nat) /\ Len(queue) <= Cardinality(Readers)
  /\ reader \in [Readers -> [at : {"idle", "fetch", "fill"}, block : Nat]]
  /\ \A r \in Readers : reader[r].at # "idle" => Streams(reader[r].block)
  /\ pass \in [Passes -> [at : {"idle", "hint", "borrow", "fill"} \cup Guarded,
                          l : Blocks, ahead : 1..(Depth + 1)]]
  /\ \A p \in Passes : pass[p].at \in {"borrow", "fill"} => Streams(pass[p].l)
  /\ filled \in [Worker -> Nat]

(* A slot is locked by the one worker that fills it or computes from it.   *)
LocksOK ==
  \A i \in Ring, w \in Worker : owner[i] = w <=> Holding(w) /\ i = SlotOf(BlockOf(w))

(* What is ready is the block it says, and whole.                          *)
SlotOK(i) ==
  \/ Vacant(slots[i])
  \/ /\ slots[i].ready /\ Streams(slots[i].block) /\ SlotOf(slots[i].block) = i
     /\ Filled(slots[i], slots[i].block, Span(slots[i].block).len)

(* Who fills has filled so far, and nobody is told before the end; who     *)
(* computes does so from its own block, or from one that could not be read. *)
WorkOK(w) ==
  /\ Filling(w) => /\ Vacant(slots[SlotOf(BlockOf(w))]) /\ filled[w] < Span(BlockOf(w)).len
                   /\ Filled(slots[SlotOf(BlockOf(w))], BlockOf(w), filled[w])
  /\ ~Filling(w) => filled[w] = 0
  /\ Computing(w) => \/ IsThere(BlockOf(w))
                     \/ Vacant(slots[SlotOf(BlockOf(w))]) /\ BlockOf(w) \in failed

RingOK == (\A i \in Ring : SlotOK(i)) /\ (\A w \in Worker : WorkOK(w))

IInv == TypesOK /\ LocksOK /\ RingOK

-----------------------------------------------------------------------------
(* Arithmetic.                                                             *)

\* A set of naturals that is not empty has a least one, and Min is it.
LEMMA LeastOf ==
  ASSUME NEW T, T \subseteq Nat, T # {}
  PROVE  Min(T) \in T /\ \A y \in T : Min(T) <= y
<1>1. PICK x \in T : \A y \in T : ~(<<y, x>> \in OpToRel(<, Nat))
  BY NatLessThanWellFounded, WFMin
<1>2. \A y \in T : x <= y
  <2> SUFFICES ASSUME NEW y \in T PROVE x <= y
    OBVIOUS
  <2>1. ~(y < x)
    BY <1>1 DEF OpToRel
  <2> QED
    BY <2>1
<1> QED
  BY <1>2 DEF Min

\* Nothing climbs for ever in a finite set.
LEMMA NoEndlessClimb ==
  ASSUME NEW T, T \subseteq Nat, IsFiniteSet(T)
  PROVE  ~ \E f \in [Nat -> T] : \A n \in Nat : f[n + 1] > f[n]
<1>f. SUFFICES ASSUME NEW f \in [Nat -> T], \A n \in Nat : f[n + 1] > f[n]
               PROVE  FALSE
  OBVIOUS
<1> DEFINE Stops == {d \in Nat \ {0} : \E n \in Nat : f[n + d] <= f[n]}
<1>0. \A n \in Nat : f[n] \in Nat
  OBVIOUS
<1>1. Stops = {}
  <2> SUFFICES ASSUME Stops # {} PROVE FALSE
    OBVIOUS
  <2>1. Min(Stops) \in Stops /\ \A y \in Stops : Min(Stops) <= y
    BY LeastOf
  <2> DEFINE d == Min(Stops)
  <2>2. d \in Nat \ {0} /\ \E n \in Nat : f[n + d] <= f[n]
    BY <2>1
  <2>3. \A y \in Nat \ {0} : (\E n \in Nat : f[n + y] <= f[n]) => d <= y
    BY <2>1
  <2> HIDE DEF d, Stops
  <2>4. PICK n \in Nat : f[n + d] <= f[n]
    BY <2>2
  <2>5. d - 1 \in Nat \ {0}
    <3>1. f[n + 1] > f[n] /\ f[n + 1] \in Nat /\ f[n] \in Nat
      BY <1>f, <1>0
    <3>2. d # 1
      BY <2>4, <3>1
    <3> QED
      BY <2>2, <3>2
  <2> DEFINE h == n + (d - 1)
  <2>6. h \in Nat /\ h + 1 = n + d
    BY <2>2, <2>5
  <2>7. ~(f[h] <= f[n])
    BY <2>2, <2>3, <2>5
  <2> HIDE DEF h
  <2>8. f[h + 1] > f[h] /\ f[h + 1] <= f[n]
    BY <1>f, <2>4, <2>6
  <2>9. f[h + 1] \in Nat /\ f[h] \in Nat /\ f[n] \in Nat
    BY <1>0, <2>6
  <2> QED
    BY <2>7, <2>8, <2>9
<1>2. \A m, n \in Nat : m < n => f[m] # f[n]
  <2> SUFFICES ASSUME NEW m \in Nat, NEW n \in Nat, m < n, f[m] = f[n] PROVE FALSE
    OBVIOUS
  <2> DEFINE d == n - m
  <2>1. d \in Nat \ {0} /\ m + d = n
    OBVIOUS
  <2> HIDE DEF d
  <2>2. f[m + d] <= f[m]
    BY <1>0, <2>1
  <2>3. d \in Stops
    BY <2>1, <2>2
  <2> QED
    BY <1>1, <2>3
<1>3. Cardinality(T) \in Nat
  BY FS_CardinalityType
<1> DEFINE k == Cardinality(T) + 1
<1>4. IsFiniteSet(1..k) /\ Cardinality(1..k) = k
  BY <1>3, FS_Interval
<1> DEFINE g == [n \in 1..k |-> f[n]]
<1>5. g \in [1..k -> T]
  BY <1>3
<1>6. \E m, n \in 1..k : m # n /\ g[m] = g[n]
  <2>1. Cardinality(T) < Cardinality(1..k)
    BY <1>3, <1>4
  <2> HIDE DEF k, g
  <2> QED
    BY <1>4, <1>5, <2>1, FS_PigeonHole
<1> QED
  BY <1>2, <1>3, <1>6

\* A finite set of naturals that is not empty has a greatest one, and Max is it.
LEMMA GreatestOf ==
  ASSUME NEW T, T \subseteq Nat, T # {}, IsFiniteSet(T)
  PROVE  Max(T) \in T /\ \A y \in T : y <= Max(T)
<1> DEFINE R == OpToRel(>, T)
<1>1. IsWellFoundedOn(R, T)
  <2> SUFFICES ASSUME NEW f \in [Nat -> T], \A n \in Nat : <<f[n + 1], f[n]>> \in R
               PROVE  FALSE
    BY DEF IsWellFoundedOn
  <2>1. \A n \in Nat : f[n + 1] > f[n]
    BY DEF OpToRel
  <2> QED
    BY <2>1, NoEndlessClimb
<1>2. PICK x \in T : \A y \in T : ~(<<y, x>> \in R)
  BY <1>1, WFMin
<1>3. \A y \in T : y <= x
  <2> SUFFICES ASSUME NEW y \in T PROVE y <= x
    OBVIOUS
  <2>1. ~(y > x)
    BY <1>2 DEF OpToRel
  <2> QED
    BY <2>1
<1> QED
  BY <1>3 DEF Max

\* A block's span begins and ends with its tensors (block_spans).
LEMMA SpanOf ==
  ASSUME NEW b
  PROVE  /\ Span(b).start \in Nat /\ Span(b).len \in Nat
         /\ \A t \in Tensors : t.block = b =>
              /\ Span(b).start <= t.start
              /\ t.start + t.len <= Span(b).start + Span(b).len
<1> DEFINE ts == {t \in Tensors : t.block = b}
           S == {t.start : t \in ts}
           E == {t.start + t.len : t \in ts}
<1>1. CASE ts = {}
  <2>1. Span(b) = [start |-> 0, len |-> 0]
    BY <1>1 DEF Span
  <2> QED
    BY <1>1, <2>1
<1>2. CASE ts # {}
  <2>1. \A t \in ts : t.start \in Nat /\ t.len \in Nat /\ t.start + t.len \in Nat
    BY StreamAssumption
  <2>2. S \subseteq Nat /\ E \subseteq Nat /\ S # {} /\ E # {}
    BY <1>2, <2>1
  <2>3. IsFiniteSet(E)
    <3>1. IsFiniteSet(ts)
      BY StreamAssumption, FS_Subset
    <3> DEFINE f == [t \in ts |-> t.start + t.len]
    <3>2. f \in Surjection(ts, E)
      BY DEF Surjection
    <3> QED
      BY <3>1, <3>2, FS_Surjection
  <2>4. /\ Min(S) \in S /\ \A y \in S : Min(S) <= y
        /\ Max(E) \in E /\ \A y \in E : y <= Max(E)
    BY <2>2, <2>3, LeastOf, GreatestOf
  <2>5. Span(b) = [start |-> Min(S), len |-> Max(E) - Min(S)]
    BY <1>2 DEF Span
  <2>6. \A t \in ts : t.start \in S /\ t.start + t.len \in E
    OBVIOUS
  <2> HIDE DEF S, E
  <2>7. \A t \in ts : Min(S) <= t.start /\ t.start + t.len <= Max(E)
    BY <2>4, <2>6
  <2>8. Min(S) \in Nat /\ Max(E) \in Nat
    BY <2>2, <2>4
  <2>9. PICK t \in ts : TRUE
    BY <1>2
  <2>10. Min(S) <= Max(E)
    BY <2>1, <2>7, <2>8, <2>9
  <2>11. Span(b).start = Min(S) /\ Span(b).len = Max(E) - Min(S)
    BY <2>5
  <2>12. Span(b).start + Span(b).len = Max(E) /\ Span(b).len \in Nat
    BY <2>8, <2>10, <2>11
  <2> QED
    BY <2>7, <2>8, <2>11, <2>12
<1> QED
  BY <1>1, <1>2

\* Every block has a slot.
LEMMA SlotIn ==
  ASSUME NEW b \in Nat
  PROVE  SlotOf(b) \in Ring
  BY StreamAssumption DEF SlotOf, Ring

\* A block that is streamed is one of the checkpoint's, and has bytes to read.
LEMMA StreamsIn ==
  ASSUME NEW b, Streams(b)
  PROVE  b \in Blocks /\ b \in Nat /\ SlotOf(b) \in Ring /\ Span(b).len \in Nat \ {0} /\ b # None
<1>1. b \in Blocks /\ Span(b).len > 0
  BY DEF Streams
<1>2. b \in Nat
  BY <1>1, StreamAssumption DEF Blocks
<1>3. Span(b).len \in Nat
  BY SpanOf
<1> QED
  BY <1>1, <1>2, <1>3, SlotIn DEF None

-----------------------------------------------------------------------------
(* What a step does to the ring.                                           *)

\* The other workers stand where they stood.
Still(w) ==
  \A v \in Worker \ {w} :
    /\ Filling(v)' <=> Filling(v)
    /\ Computing(v)' <=> Computing(v)
    /\ BlockOf(v)' = BlockOf(v)
    /\ filled'[v] = filled[v]

\* A step of one worker at one slot that is its own or nobody's.
LEMMA AtOneSlot ==
  ASSUME IInv, NEW w \in Worker, NEW i \in Ring, Still(w),
         pinned' = pinned, failed \subseteq failed',
         owner[i] \in {NoOne, w}, Holding(w) => SlotOf(BlockOf(w)) = i,
         \A j \in Ring \ {i} : slots'[j] = slots[j] /\ owner'[j] = owner[j],
         owner'[i] = IF Holding(w)' THEN w ELSE NoOne,
         Holding(w)' => SlotOf(BlockOf(w)') = i,
         SlotOK(i)', WorkOK(w)'
  PROVE  LocksOK' /\ RingOK'
<1>1. NoOne \notin Worker
  BY StreamAssumption DEF Worker
<1>2. \A v \in Worker : Holding(v) => owner[SlotOf(BlockOf(v))] = v /\ SlotOf(BlockOf(v)) \in Ring
  <2> SUFFICES ASSUME NEW v \in Worker, Holding(v)
               PROVE  owner[SlotOf(BlockOf(v))] = v /\ SlotOf(BlockOf(v)) \in Ring
    OBVIOUS
  <2>1. Streams(BlockOf(v))
    BY DEF IInv, TypesOK, Holding, Filling, Computing, BlockOf, Worker
  <2>2. SlotOf(BlockOf(v)) \in Ring
    BY <2>1, StreamsIn
  <2> QED
    BY <2>2 DEF IInv, LocksOK
<1>3. \A b : Streams(b)' <=> Streams(b)
  BY DEF Streams
<1>4. \A v \in Worker \ {w} : Holding(v)' <=> Holding(v)
  BY DEF Still, Holding
<1>5. \A v \in Worker \ {w} : Holding(v) => SlotOf(BlockOf(v)) # i
  BY <1>1, <1>2
<1>6. LocksOK'
  <2> SUFFICES ASSUME NEW j \in Ring, NEW v \in Worker
               PROVE  owner'[j] = v <=> Holding(v)' /\ j = SlotOf(BlockOf(v)')
    BY DEF LocksOK, SlotOf
  <2>1. owner[j] = v <=> Holding(v) /\ j = SlotOf(BlockOf(v))
    BY DEF IInv, LocksOK
  <2>2. CASE v = w
    <3>1. CASE j = i
      BY <1>1, <2>2, <3>1
    <3>2. CASE j # i
      BY <2>1, <2>2, <3>2
    <3> QED
      BY <3>1, <3>2
  <2>3. CASE v # w
    <3>1. BlockOf(v)' = BlockOf(v) /\ (Holding(v)' <=> Holding(v))
      BY <1>4, <2>3 DEF Still
    <3>2. CASE j = i
      BY <1>1, <1>5, <2>3, <3>1, <3>2
    <3>3. CASE j # i
      BY <2>1, <3>1, <3>3
    <3> QED
      BY <3>2, <3>3
  <2> QED
    BY <2>2, <2>3
<1>7. ASSUME NEW j \in Ring PROVE SlotOK(j)'
  <2>1. CASE j = i
    BY <2>1
  <2>2. CASE j # i
    <3>1. SlotOK(j) /\ slots'[j] = slots[j]
      BY <2>2 DEF IInv, RingOK
    <3> QED
      BY <1>3, <3>1 DEF SlotOK, Vacant, Filled, SlotOf
  <2> QED
    BY <2>1, <2>2
<1>8. ASSUME NEW v \in Worker PROVE WorkOK(v)'
  <2>1. CASE v = w
    BY <2>1
  <2>2. CASE v # w
    <3>1. WorkOK(v)
      BY DEF IInv, RingOK
    <3>2. /\ Filling(v)' <=> Filling(v)
          /\ Computing(v)' <=> Computing(v)
          /\ BlockOf(v)' = BlockOf(v) /\ filled'[v] = filled[v]
      BY <2>2 DEF Still
    <3>3. Holding(v) => slots'[SlotOf(BlockOf(v))] = slots[SlotOf(BlockOf(v))]
      BY <1>2, <1>5, <2>2
    <3> QED
      BY <3>1, <3>2, <3>3 DEF WorkOK, Holding, IsThere, Vacant, Filled, SlotOf
  <2> QED
    BY <2>1, <2>2
<1> QED
  BY <1>6, <1>7, <1>8 DEF RingOK

\* A step that leaves the ring alone.
LEMMA OffTheRing ==
  ASSUME IInv, UNCHANGED <<pinned, slots, owner, filled, failed>>,
         \A v \in Worker : /\ Filling(v)' <=> Filling(v)
                           /\ Computing(v)' <=> Computing(v)
                           /\ Holding(v) => BlockOf(v)' = BlockOf(v)
  PROVE  LocksOK' /\ RingOK'
<1>1. \A b : Streams(b)' <=> Streams(b)
  BY DEF Streams
<1>2. LocksOK'
  <2> SUFFICES ASSUME NEW j \in Ring, NEW v \in Worker
               PROVE  owner[j] = v <=> Holding(v)' /\ j = SlotOf(BlockOf(v)')
    BY DEF LocksOK, SlotOf
  <2>1. owner[j] = v <=> Holding(v) /\ j = SlotOf(BlockOf(v))
    BY DEF IInv, LocksOK
  <2>2. Holding(v)' <=> Holding(v)
    BY DEF Holding
  <2> QED
    BY <2>1, <2>2
<1>3. ASSUME NEW j \in Ring PROVE SlotOK(j)'
  <2>1. SlotOK(j)
    BY DEF IInv, RingOK
  <2> QED
    BY <1>1, <2>1 DEF SlotOK, Vacant, Filled, SlotOf
<1>4. ASSUME NEW v \in Worker PROVE WorkOK(v)'
  <2>1. WorkOK(v)
    BY DEF IInv, RingOK
  <2> QED
    BY <2>1 DEF WorkOK, Holding, IsThere, Vacant, Filled, SlotOf
<1> QED
  BY <1>2, <1>3, <1>4 DEF RingOK

\* The ring's part of the types.
RingTypes ==
  /\ DOMAIN slots = Ring /\ owner \in [Ring -> Worker \cup {NoOne}]
  /\ \A i \in Ring : slots[i].ready \in BOOLEAN
  /\ filled \in [Worker -> Nat]

\* A lock taken: the bytes are there, or are about to be read.
LEMMA LockHolds ==
  ASSUME IInv, NEW w \in Worker, NEW b, Streams(b), Lock(w, b), Still(w),
         ~Holding(w), pinned' = pinned, failed' = failed, BlockOf(w)' = b,
         Computing(w)' <=> IsThere(b), Filling(w)' <=> ~IsThere(b)
  PROVE  LocksOK' /\ RingOK' /\ RingTypes'
<1> DEFINE i == SlotOf(b)
<1>1. /\ i \in Ring /\ b \in Nat /\ b # None
      /\ Span(b).len \in Nat \ {0} /\ Span(b).start \in Nat
  BY StreamsIn, SpanOf
<1>2. /\ owner[i] = NoOne /\ owner' = [owner EXCEPT ![i] = w]
      /\ slots' = IF IsThere(b) THEN slots ELSE [slots EXCEPT ![i] = Cleared(@, b)]
      /\ filled' = filled
  BY DEF Lock, Free
<1>3. /\ DOMAIN slots = Ring /\ owner \in [Ring -> Worker \cup {NoOne}]
      /\ \A j \in Ring : slots[j].ready \in BOOLEAN
      /\ filled \in [Worker -> Nat]
  BY DEF IInv, TypesOK
<1>4. owner'[i] = w /\ \A j \in Ring \ {i} : owner'[j] = owner[j] /\ slots'[j] = slots[j]
  BY <1>1, <1>2, <1>3
<1>5. filled[w] = 0 /\ WorkOK(w)
  BY DEF IInv, RingOK, WorkOK, Holding
<1>6. Streams(b)'
  BY DEF Streams
<1>7. CASE IsThere(b)
  <2>1. slots' = slots
    BY <1>2, <1>7
  <2>2. SlotOK(i)'
    <3>1. SlotOK(i)
      BY <1>1 DEF IInv, RingOK
    <3>2. \A x : Streams(x)' <=> Streams(x)
      BY DEF Streams
    <3> QED
      BY <2>1, <3>1, <3>2 DEF SlotOK, Vacant, Filled, SlotOf
  <2>3. IsThere(b)'
    BY <1>7, <2>1 DEF IsThere, SlotOf
  <2>4. WorkOK(w)'
    BY <1>2, <1>5, <1>7, <2>3 DEF WorkOK
  <2>5. LocksOK' /\ RingOK'
    BY <1>1, <1>2, <1>4, <1>7, <2>2, <2>4, AtOneSlot DEF Holding
  <2> QED
    BY <1>2, <1>3, <2>1, <2>5 DEF RingTypes
<1>8. CASE ~IsThere(b)
  <2>1. slots'[i] = Cleared(slots[i], b) /\ DOMAIN slots' = Ring
    BY <1>1, <1>2, <1>3, <1>8
  <2>2. /\ Vacant(slots'[i]) /\ slots'[i].ready = FALSE
        /\ DOMAIN slots'[i].buf = 1..Span(b).len
    BY <2>1 DEF Cleared, Vacant
  <2>3. SlotOK(i)'
    BY <2>2 DEF SlotOK, Vacant
  <2>4. WorkOK(w)'
    BY <1>1, <1>2, <1>5, <1>8, <2>2 DEF WorkOK, Filled, Vacant, SlotOf
  <2>5. LocksOK' /\ RingOK'
    BY <1>1, <1>2, <1>4, <1>8, <2>3, <2>4, AtOneSlot DEF Holding
  <2>6. \A j \in Ring : slots'[j].ready \in BOOLEAN
    BY <1>3, <1>4, <2>2
  <2> QED
    BY <1>2, <1>3, <2>1, <2>5, <2>6 DEF RingTypes
<1> QED
  BY <1>7, <1>8

\* Who fills holds its slot, which promises nothing yet.
LEMMA FillerHolds ==
  ASSUME IInv, NEW w \in Worker, Filling(w)
  PROVE  LET b == BlockOf(w)
             i == SlotOf(b)
         IN /\ Streams(b) /\ b \in Nat /\ b # None /\ i \in Ring
            /\ Span(b).len \in Nat \ {0} /\ Span(b).start \in Nat
            /\ owner[i] = w /\ Vacant(slots[i])
            /\ filled[w] \in 0..(Span(b).len - 1) /\ Filled(slots[i], b, filled[w])
<1> DEFINE b == BlockOf(w)
<1>1. Streams(b)
  BY DEF IInv, TypesOK, Filling, BlockOf, Worker
<1>2. /\ b \in Nat /\ b # None /\ SlotOf(b) \in Ring
      /\ Span(b).len \in Nat \ {0} /\ Span(b).start \in Nat
  BY <1>1, StreamsIn, SpanOf
<1>3. owner[SlotOf(b)] = w
  BY <1>2 DEF IInv, LocksOK, Holding
<1>4. filled[w] \in Nat
  BY DEF IInv, TypesOK
<1>5. /\ Vacant(slots[SlotOf(b)]) /\ filled[w] < Span(b).len
      /\ Filled(slots[SlotOf(b)], b, filled[w])
  BY DEF IInv, RingOK, WorkOK
<1> QED
  BY <1>1, <1>2, <1>3, <1>4, <1>5

\* A read that failed leaves the slot promising nothing.
LEMMA FailHolds ==
  ASSUME IInv, NEW w \in Worker, Filling(w), NEW b, b = BlockOf(w), ReadFails(w, b), Still(w),
         pinned' = pinned, ~Filling(w)', Computing(w)' => BlockOf(w)' = b,
         owner' = [owner EXCEPT ![SlotOf(b)] = IF Computing(w)' THEN w ELSE NoOne]
  PROVE  LocksOK' /\ RingOK' /\ RingTypes'
<1> DEFINE i == SlotOf(b)
<1>1. /\ Streams(b) /\ i \in Ring /\ owner[i] = w /\ Vacant(slots[i])
  BY FillerHolds
<1>2. failed' = failed \cup {b} /\ filled' = [filled EXCEPT ![w] = 0] /\ slots' = slots
  BY DEF ReadFails
<1>3. /\ DOMAIN slots = Ring /\ owner \in [Ring -> Worker \cup {NoOne}]
      /\ \A j \in Ring : slots[j].ready \in BOOLEAN
      /\ filled \in [Worker -> Nat]
  BY DEF IInv, TypesOK
<1>4. /\ owner'[i] = IF Computing(w)' THEN w ELSE NoOne
      /\ \A j \in Ring \ {i} : owner'[j] = owner[j] /\ slots'[j] = slots[j]
  BY <1>1, <1>2, <1>3
<1>5. SlotOK(i)'
  BY <1>1, <1>2 DEF SlotOK, Vacant
<1>6. WorkOK(w)'
  <2>1. filled'[w] = 0
    BY <1>2, <1>3
  <2>2. Computing(w)' => Vacant(slots'[SlotOf(BlockOf(w)')]) /\ BlockOf(w)' \in failed'
    BY <1>1, <1>2
  <2> QED
    BY <2>1, <2>2 DEF WorkOK, Vacant, SlotOf
<1>7. LocksOK' /\ RingOK'
  BY <1>1, <1>2, <1>4, <1>5, <1>6, AtOneSlot DEF Holding
<1>8. RingTypes'
  BY <1>2, <1>3, <1>7 DEF RingTypes
<1> QED
  BY <1>7, <1>8

\* A read brings some more of the block, and says so once it has all of it.
LEMMA ReadHolds ==
  ASSUME IInv, NEW w \in Worker, Filling(w), NEW b, b = BlockOf(w), NEW n \in 1..Span(b).len,
         Read(w, b, n), Still(w), pinned' = pinned, failed' = failed,
         Filling(w)' <=> filled'[w] # 0,
         Holding(w)' => BlockOf(w)' = b,
         owner' = [owner EXCEPT ![SlotOf(b)] = IF Holding(w)' THEN w ELSE NoOne],
         Filling(w)' => ~Computing(w)'
  PROVE  LocksOK' /\ RingOK' /\ RingTypes'
<1> DEFINE i == SlotOf(b)
           had == filled[w]
           upTo == had + n
           done == upTo = Span(b).len
<1>1. /\ Streams(b) /\ b \in Nat /\ b # None /\ i \in Ring
      /\ Span(b).len \in Nat \ {0} /\ Span(b).start \in Nat
      /\ owner[i] = w /\ Vacant(slots[i])
      /\ had \in 0..(Span(b).len - 1) /\ Filled(slots[i], b, had)
  BY FillerHolds
<1>2. /\ upTo <= Span(b).len
      /\ filled' = [filled EXCEPT ![w] = IF done THEN 0 ELSE upTo]
      /\ slots' = [slots EXCEPT ![i] =
           [block |-> IF done THEN b ELSE None, ready |-> done,
            buf |-> [k \in DOMAIN @.buf |->
                       IF k \in (had + 1)..upTo THEN Span(b).start + k - 1
                       ELSE @.buf[k]]]]
  BY DEF Read
<1>3. /\ DOMAIN slots = Ring /\ owner \in [Ring -> Worker \cup {NoOne}]
      /\ \A j \in Ring : slots[j].ready \in BOOLEAN
      /\ filled \in [Worker -> Nat]
  BY DEF IInv, TypesOK
<1>4. /\ slots'[i].block = (IF done THEN b ELSE None) /\ slots'[i].ready = done
      /\ slots'[i].buf = [k \in DOMAIN slots[i].buf |->
                       IF k \in (had + 1)..upTo THEN Span(b).start + k - 1
                       ELSE slots[i].buf[k]]
      /\ DOMAIN slots' = Ring
  BY <1>1, <1>2, <1>3
<1>5. /\ owner'[i] = IF Holding(w)' THEN w ELSE NoOne
      /\ \A j \in Ring \ {i} : owner'[j] = owner[j] /\ slots'[j] = slots[j]
  BY <1>1, <1>2, <1>3
<1>6. filled'[w] = IF done THEN 0 ELSE upTo
  BY <1>2, <1>3
<1>7. upTo \in Nat \ {0}
  BY <1>1
<1> HIDE DEF upTo
<1>8. Filled(slots'[i], b, upTo)
  <2>1. DOMAIN slots[i].buf = 1..Span(b).len
        /\ \A k \in 1..had : slots[i].buf[k] = Span(b).start + k - 1
    BY <1>1 DEF Filled
  <2>2. DOMAIN slots'[i].buf = 1..Span(b).len
    BY <1>4, <2>1
  <2>3. ASSUME NEW k \in 1..upTo PROVE slots'[i].buf[k] = Span(b).start + k - 1
    <3>1. k \in 1..Span(b).len
      BY <1>1, <1>2, <1>7
    <3>2. CASE k \in (had + 1)..upTo
      BY <1>4, <2>1, <3>1, <3>2
    <3>3. CASE k \notin (had + 1)..upTo
      <4>1. k \in 1..had
        BY <1>1, <1>7, <3>3
      <4> QED
        BY <1>4, <2>1, <3>1, <3>3, <4>1
    <3> QED
      BY <3>2, <3>3
  <2> QED
    BY <2>2, <2>3 DEF Filled
<1>9. Streams(b)' /\ (done <=> ~Filling(w)')
  BY <1>1, <1>6, <1>7 DEF Streams
<1>10. SlotOK(i)'
  <2>1. CASE done
    <3>1. slots'[i].ready /\ slots'[i].block = b /\ upTo = Span(b).len
      BY <1>4, <2>1
    <3>2. SlotOf(b) = i
      OBVIOUS
    <3> QED
      BY <1>8, <1>9, <3>1, <3>2 DEF SlotOK, Filled, SlotOf
  <2>2. CASE ~done
    BY <1>4, <2>2 DEF SlotOK, Vacant
  <2> QED
    BY <2>1, <2>2
<1>11. WorkOK(w)'
  <2>1. CASE done
    <3>1. ~Filling(w)' /\ filled'[w] = 0
      BY <1>6, <1>9, <2>1
    <3>2. Computing(w)' => BlockOf(w)' = b
      BY DEF Holding
    <3>3. slots'[SlotOf(b)].block = b /\ slots'[SlotOf(b)].ready
      BY <1>4, <2>1
    <3> QED
      BY <3>1, <3>2, <3>3 DEF WorkOK, IsThere, SlotOf
  <2>2. CASE ~done
    <3>1. Filling(w)' /\ ~Computing(w)' /\ filled'[w] = upTo /\ BlockOf(w)' = b
      BY <1>6, <1>9, <2>2 DEF Holding
    <3>2. upTo < Span(b).len
      BY <1>1, <1>2, <1>7, <2>2
    <3>3. Vacant(slots'[SlotOf(b)])
      BY <1>4, <2>2 DEF Vacant
    <3> QED
      BY <1>8, <3>1, <3>2, <3>3 DEF WorkOK, Vacant, Filled, SlotOf
  <2> QED
    BY <2>1, <2>2
<1>12. LocksOK' /\ RingOK'
  BY <1>1, <1>5, <1>10, <1>11, AtOneSlot
<1>13. RingTypes'
  <2>1. \A j \in Ring : slots'[j].ready \in BOOLEAN
    BY <1>3, <1>4, <1>5
  <2>2. owner' \in [Ring -> Worker \cup {NoOne}]
    BY <1>3
  <2>3. filled' \in [Worker -> Nat]
    BY <1>2, <1>3, <1>7
  <2> QED
    BY <1>4, <2>1, <2>2, <2>3 DEF RingTypes
<1> QED
  BY <1>12, <1>13

-----------------------------------------------------------------------------
(* The steps.                                                              *)

\* Every pass hints at one block at least (hint_ahead).
LEMMA Deep == Depth \in Nat \ {0}
<1> DEFINE T == {Slots - 1, 1}
<1>1. T \subseteq Nat /\ T # {}
  BY StreamAssumption
<1>2. IsFiniteSet(T)
  <2>1. IsFiniteSet({} \cup {1}) /\ T = ({} \cup {1}) \cup {Slots - 1}
    BY FS_EmptySet, FS_AddElement
  <2> QED
    BY <2>1, FS_AddElement
<1>3. Max(T) \in T /\ \A y \in T : y <= Max(T)
  BY <1>1, <1>2, GreatestOf
<1> QED
  BY <1>1, <1>3 DEF Depth

\* Where a pass may stand.
Spot ==
  [at : {"idle", "hint", "borrow", "fill"} \cup Guarded, l : Blocks, ahead : 1..(Depth + 1)]

\* One pass goes to another place.
LEMMA PassMoves ==
  ASSUME IInv, NEW p \in Passes, NEW x \in Spot, pass' = [pass EXCEPT ![p] = x],
         reader' = reader, pinned' = pinned,
         \A v \in Worker \ {p} : filled'[v] = filled[v]
  PROVE  /\ Still(p)
         /\ Filling(p)' <=> x.at = "fill"
         /\ Computing(p)' <=> x.at \in Guarded /\ Streams(x.l)
         /\ BlockOf(p)' = x.l
<1>1. pass'[p] = x /\ \A v \in Passes \ {p} : pass'[v] = pass[v]
  BY DEF IInv, TypesOK
<1>2. \A b : Streams(b)' <=> Streams(b)
  BY DEF Streams
<1>3. ASSUME NEW v \in Worker \ {p}
      PROVE  /\ Filling(v)' <=> Filling(v)
             /\ Computing(v)' <=> Computing(v)
             /\ BlockOf(v)' = BlockOf(v)
  BY <1>1, <1>2 DEF Filling, Computing, BlockOf
<1> QED
  BY <1>1, <1>2, <1>3 DEF Still, Filling, Computing, BlockOf

\* One reader goes to another place.
LEMMA ReaderMoves ==
  ASSUME IInv, NEW r \in Readers, NEW x, reader' = [reader EXCEPT ![r] = x],
         pass' = pass, pinned' = pinned,
         \A v \in Worker \ {r} : filled'[v] = filled[v]
  PROVE  /\ Still(r)
         /\ Filling(r)' <=> x.at = "fill"
         /\ ~Computing(r) /\ ~Computing(r)'
         /\ BlockOf(r)' = x.block
<1>1. reader'[r] = x /\ \A v \in Readers \ {r} : reader'[v] = reader[v]
  BY DEF IInv, TypesOK
<1>2. \A b : Streams(b)' <=> Streams(b)
  BY DEF Streams
<1>3. r \notin Passes
  BY StreamAssumption
<1>4. ASSUME NEW v \in Worker \ {r}
      PROVE  /\ Filling(v)' <=> Filling(v)
             /\ Computing(v)' <=> Computing(v)
             /\ BlockOf(v)' = BlockOf(v)
  BY <1>1, <1>2 DEF Filling, Computing, BlockOf, Worker
<1> QED
  BY <1>1, <1>3, <1>4 DEF Still, Filling, Computing, BlockOf

\* The types, when one pass moves.
LEMMA PassTypes ==
  ASSUME IInv, NEW p \in Passes, NEW x \in Spot, pass' = [pass EXCEPT ![p] = x],
         x.at \in {"borrow", "fill"} => Streams(x.l),
         reader' = reader, pinned' = pinned, queue' \in Seq(Nat),
         Len(queue') <= Cardinality(Readers), RingTypes'
  PROVE  TypesOK'
<1>1. pass'[p] = x /\ \A v \in Passes \ {p} : pass'[v] = pass[v]
  BY DEF IInv, TypesOK
<1>2. \A b : Streams(b)' <=> Streams(b)
  BY DEF Streams
<1>3. pass' \in [Passes -> Spot]
  BY DEF IInv, TypesOK, Spot
<1>4. \A v \in Passes : pass'[v].at \in {"borrow", "fill"} => Streams(pass[v].l)'
  BY <1>1, <1>2 DEF IInv, TypesOK
<1>5. \A r \in Readers : reader'[r].at # "idle" => Streams(reader[r].block)'
  BY <1>2 DEF IInv, TypesOK
<1>6. pinned \subseteq Blocks /\ reader \in [Readers -> [at : {"idle", "fetch", "fill"}, block : Nat]]
  BY DEF IInv, TypesOK
<1> QED
  BY <1>3, <1>4, <1>5, <1>6 DEF TypesOK, RingTypes, Spot

\* The types, when one reader moves.
LEMMA ReaderTypes ==
  ASSUME IInv, NEW r \in Readers,
         NEW x \in [at : {"idle", "fetch", "fill"}, block : Nat],
         reader' = [reader EXCEPT ![r] = x], x.at # "idle" => Streams(x.block),
         pass' = pass, pinned' = pinned, queue' \in Seq(Nat),
         Len(queue') <= Cardinality(Readers), RingTypes'
  PROVE  TypesOK'
<1>1. reader'[r] = x /\ \A v \in Readers \ {r} : reader'[v] = reader[v]
  BY DEF IInv, TypesOK
<1>2. \A b : Streams(b)' <=> Streams(b)
  BY DEF Streams
<1>3. reader' \in [Readers -> [at : {"idle", "fetch", "fill"}, block : Nat]]
  BY DEF IInv, TypesOK
<1>4. \A v \in Passes : pass'[v].at \in {"borrow", "fill"} => Streams(pass[v].l)'
  BY <1>2 DEF IInv, TypesOK
<1>5. \A v \in Readers : reader'[v].at # "idle" => Streams(reader[v].block)'
  BY <1>1, <1>2 DEF IInv, TypesOK
<1>6. pinned \subseteq Blocks /\ pass \in [Passes -> Spot]
  BY DEF IInv, TypesOK, Spot
<1> QED
  BY <1>3, <1>4, <1>5, <1>6 DEF TypesOK, RingTypes, Spot

\* A step that leaves the ring alone leaves its types.
LEMMA SameRingTypes ==
  ASSUME IInv, UNCHANGED ring
  PROVE  RingTypes'
  BY DEF IInv, TypesOK, RingTypes, ring

\* A pass that holds nothing goes where it holds nothing.
LEMMA PassPasses ==
  ASSUME IInv, NEW p \in Passes, NEW x \in Spot, pass' = [pass EXCEPT ![p] = x],
         Filling(p) <=> x.at = "fill",
         Computing(p) <=> x.at \in Guarded /\ Streams(x.l),
         Holding(p) => x.l = pass[p].l,
         x.at = "borrow" => Streams(x.l),
         queue' \in Seq(Nat), Len(queue') <= Cardinality(Readers),
         UNCHANGED <<pinned, ring, reader, failed>>
  PROVE  IInv'
<1>1. slots' = slots /\ owner' = owner /\ filled' = filled
  BY DEF ring
<1>2. /\ Still(p)
      /\ Filling(p)' <=> Filling(p)
      /\ Computing(p)' <=> Computing(p)
      /\ BlockOf(p)' = x.l
  BY <1>1, PassMoves
<1>3. Holding(p) => BlockOf(p)' = BlockOf(p)
  BY <1>2 DEF BlockOf
<1>4. LocksOK' /\ RingOK'
  BY <1>1, <1>2, <1>3, OffTheRing DEF Still
<1>5. x.at = "fill" => Streams(x.l)
  BY DEF Holding, Filling, IInv, TypesOK
<1>6. TypesOK'
  BY <1>5, PassTypes, SameRingTypes
<1> QED
  BY <1>4, <1>6 DEF IInv

\* What the invariant says of a pass.
LEMMA PassSpot ==
  ASSUME IInv, NEW p \in Passes
  PROVE  /\ pass[p] \in Spot
         /\ pass[p] = [at |-> pass[p].at, l |-> pass[p].l, ahead |-> pass[p].ahead]
         /\ Filling(p) <=> pass[p].at = "fill"
         /\ Computing(p) <=> pass[p].at \in Guarded /\ Streams(pass[p].l)
         /\ BlockOf(p) = pass[p].l
         /\ p \in Worker
         /\ queue \in Seq(Nat) /\ Len(queue) <= Cardinality(Readers)
<1>1. pass[p] \in Spot
  BY DEF IInv, TypesOK, Spot
<1>2. pass[p] = [at |-> pass[p].at, l |-> pass[p].l, ahead |-> pass[p].ahead]
  BY <1>1 DEF Spot
<1> QED
  BY <1>1, <1>2 DEF Filling, Computing, BlockOf, Worker, IInv, TypesOK

\* The same place, at another point of the block.
Standing(s, a) == [s EXCEPT !.at = a]

\* A pass goes on within its block.
LEMMA GoesTo ==
  ASSUME IInv, NEW p \in Passes, NEW a \in {"idle", "hint", "borrow", "fill"} \cup Guarded,
         pass' = [pass EXCEPT ![p].at = a]
  PROVE  /\ pass' = [pass EXCEPT ![p] = Standing(pass[p], a)] /\ Standing(pass[p], a) \in Spot
         /\ Standing(pass[p], a).at = a /\ Standing(pass[p], a).l = pass[p].l
<1>1. pass[p] \in Spot
  BY PassSpot
<1>2. Standing(pass[p], a) \in Spot /\ Standing(pass[p], a).at = a /\ Standing(pass[p], a).l = pass[p].l
  BY <1>1 DEF Standing, Spot
<1>3. pass' = [pass EXCEPT ![p] = Standing(pass[p], a)]
  BY DEF Standing
<1> QED
  BY <1>2, <1>3

\* A pass begins (forward_tail, logits_batch).
LEMMA BeginKeeps ==
  ASSUME IInv, NEW p \in Passes, Begin(p)
  PROVE  IInv'
<1> DEFINE x == Standing(pass[p], "hint")
<1>1. /\ pass[p].at = "idle" /\ pass' = [pass EXCEPT ![p].at = "hint"]
      /\ UNCHANGED <<pinned, ring, queue, reader, failed>>
  BY DEF Begin
<1>2. pass' = [pass EXCEPT ![p] = x] /\ x \in Spot /\ x.at = "hint"
  BY <1>1, GoesTo
<1> HIDE DEF x
<1>3. ~Filling(p) /\ ~Computing(p) /\ ~Holding(p)
  BY <1>1, PassSpot DEF Guarded, Holding
<1>4. queue \in Seq(Nat) /\ Len(queue) <= Cardinality(Readers)
  BY PassSpot
<1> QED
  BY <1>1, <1>2, <1>3, <1>4, PassPasses DEF Guarded

\* One try_send (hint_ahead).
LEMMA HintKeeps ==
  ASSUME IInv, NEW p \in Passes, HintAhead(p)
  PROVE  IInv'
<1> DEFINE x == [pass[p] EXCEPT !.ahead = @ + 1]
<1>1. /\ pass[p].at = "hint" /\ pass[p].ahead <= Depth
      /\ pass' = [pass EXCEPT ![p].ahead = @ + 1]
      /\ UNCHANGED <<pinned, ring, reader, failed>> /\ Hint(pass[p].l + pass[p].ahead)
  BY DEF HintAhead
<1>2. pass[p] \in Spot
  BY PassSpot
<1>3. pass[p].l \in Nat /\ pass[p].ahead \in Nat /\ pass[p].ahead + 1 \in 1..(Depth + 1)
  <2>1. pass[p].l \in Blocks /\ pass[p].ahead \in 1..(Depth + 1)
    BY <1>2 DEF Spot
  <2>2. NLayers \in Nat
    BY StreamAssumption
  <2> QED
    BY <1>1, <2>1, <2>2, Deep DEF Blocks
<1>4. x \in Spot /\ x.at = "hint"
  BY <1>1, <1>2, <1>3 DEF Spot
<1>5. pass' = [pass EXCEPT ![p] = x]
  BY <1>1
<1> HIDE DEF x
<1>6. queue' \in Seq(Nat) /\ Len(queue') <= Cardinality(Readers)
  <2> DEFINE b == pass[p].l + pass[p].ahead
  <2>1. b \in Nat
    BY <1>3
  <2>2. queue' = IF Len(queue) < Cardinality(Readers) THEN Append(queue, b) ELSE queue
    BY <1>1 DEF Hint
  <2> HIDE DEF b
  <2>3. queue \in Seq(Nat) /\ Len(queue) <= Cardinality(Readers)
    BY PassSpot
  <2>4. Append(queue, b) \in Seq(Nat) /\ Len(Append(queue, b)) = Len(queue) + 1
    BY <2>1, <2>3, AppendProperties
  <2>5. Cardinality(Readers) \in Nat /\ Len(queue) \in Nat
    BY StreamAssumption, FS_CardinalityType, <2>3, LenProperties
  <2> QED
    BY <2>2, <2>3, <2>4, <2>5
<1>7. ~Filling(p) /\ ~Computing(p) /\ ~Holding(p)
  BY <1>1, PassSpot DEF Guarded, Holding
<1> QED
  BY <1>1, <1>4, <1>5, <1>6, <1>7, PassPasses DEF Guarded

\* From the hints to the block itself (run_layer).
LEMMA RunLayerKeeps ==
  ASSUME IInv, NEW p \in Passes, RunLayer(p)
  PROVE  IInv'
<1> DEFINE a == IF Streams(pass[p].l) THEN "borrow" ELSE "mix"
           x == Standing(pass[p], a)
<1>1. /\ pass[p].at = "hint" /\ pass' = [pass EXCEPT ![p].at = a]
      /\ UNCHANGED <<pinned, ring, queue, reader, failed>>
  BY DEF RunLayer
<1>2. a \in {"borrow", "mix"} /\ (a = "borrow" <=> Streams(pass[p].l))
  BY Zenon
<1> HIDE DEF a
<1>3. pass' = [pass EXCEPT ![p] = x] /\ x \in Spot /\ x.at = a /\ x.l = pass[p].l
  BY <1>1, <1>2, GoesTo DEF Guarded
<1> HIDE DEF x
<1>4. ~Filling(p) /\ ~Computing(p) /\ ~Holding(p)
  BY <1>1, PassSpot DEF Guarded, Holding
<1>5. x.at # "fill" /\ ~(x.at \in Guarded /\ Streams(x.l)) /\ (x.at = "borrow" => Streams(x.l))
  BY <1>2, <1>3 DEF Guarded
<1>6. queue \in Seq(Nat) /\ Len(queue) <= Cardinality(Readers)
  BY PassSpot
<1> QED
  BY <1>1, <1>3, <1>4, <1>5, <1>6, PassPasses

\* borrow locks the slot, and finds the bytes there or clears it.
LEMMA BorrowKeeps ==
  ASSUME IInv, NEW p \in Passes, Borrow(p)
  PROVE  IInv'
<1> DEFINE a == IF IsThere(pass[p].l) THEN "mix" ELSE "fill"
           x == Standing(pass[p], a)
<1>1. /\ pass[p].at = "borrow" /\ Lock(p, pass[p].l) /\ filled' = filled
      /\ pass' = [pass EXCEPT ![p].at = a]
      /\ UNCHANGED <<pinned, queue, reader, begun, failed>>
  BY DEF Borrow, Lock
<1>2. /\ a \in {"mix", "fill"} /\ (a = "fill" <=> ~IsThere(pass[p].l))
      /\ (a = "mix" <=> IsThere(pass[p].l))
  BY Zenon
<1> HIDE DEF a
<1>3. pass' = [pass EXCEPT ![p] = x] /\ x \in Spot /\ x.at = a /\ x.l = pass[p].l
  BY <1>1, <1>2, GoesTo DEF Guarded
<1> HIDE DEF x
<1>4. Streams(pass[p].l)
  BY <1>1 DEF IInv, TypesOK
<1>5. ~Holding(p) /\ p \in Worker
  BY <1>1, PassSpot DEF Holding, Guarded
<1>6. /\ Still(p)
      /\ Filling(p)' <=> x.at = "fill"
      /\ Computing(p)' <=> x.at \in Guarded /\ Streams(x.l)
      /\ BlockOf(p)' = x.l
  BY <1>1, <1>3, PassMoves
<1>7. /\ Filling(p)' <=> ~IsThere(pass[p].l)
      /\ Computing(p)' <=> IsThere(pass[p].l)
      /\ BlockOf(p)' = pass[p].l
  BY <1>2, <1>3, <1>4, <1>6 DEF Guarded
<1>8. LocksOK' /\ RingOK' /\ RingTypes'
  BY <1>1, <1>4, <1>5, <1>6, <1>7, LockHolds
<1>9. queue \in Seq(Nat) /\ Len(queue) <= Cardinality(Readers)
  BY PassSpot
<1>10. TypesOK'
  BY <1>1, <1>3, <1>4, <1>8, <1>9, PassTypes
<1> QED
  BY <1>8, <1>10 DEF IInv

\* borrow's own reads, which may come to nothing.
LEMMA ReadInlineKeeps ==
  ASSUME IInv, NEW p \in Passes, ReadInline(p)
  PROVE  IInv'
<1> DEFINE b == pass[p].l
<1>1. pass[p].at = "fill" /\ UNCHANGED <<pinned, owner, queue, reader, begun>>
  BY DEF ReadInline
<1>2. Filling(p) /\ BlockOf(p) = b /\ p \in Worker /\ ~Computing(p) /\ Holding(p)
  BY <1>1, PassSpot DEF Guarded, Holding
<1>3. queue \in Seq(Nat) /\ Len(queue) <= Cardinality(Readers)
  BY PassSpot
<1>4. Streams(b) /\ owner[SlotOf(b)] = p /\ SlotOf(b) \in Ring
  BY <1>2, FillerHolds
<1>5. owner \in [Ring -> Worker \cup {NoOne}] /\ filled \in [Worker -> Nat]
  BY DEF IInv, TypesOK
<1>6. owner' = [owner EXCEPT ![SlotOf(b)] = p]
  BY <1>1, <1>4, <1>5
<1>7. pass' = [pass EXCEPT ![p] = pass[p]] <=> pass' = pass
  BY DEF IInv, TypesOK
<1>8. CASE \E n \in 1..Span(b).len :
             /\ Read(p, b, n) /\ UNCHANGED failed
             /\ pass' = IF filled'[p] = 0
                        THEN [pass EXCEPT ![p].at = "mix"] ELSE pass
  <2>1. PICK n \in 1..Span(b).len :
             /\ Read(p, b, n) /\ UNCHANGED failed
             /\ pass' = IF filled'[p] = 0
                        THEN [pass EXCEPT ![p].at = "mix"] ELSE pass
    BY <1>8
  <2>2. \E x \in Spot : /\ pass' = [pass EXCEPT ![p] = x] /\ x.l = b
                        /\ x.at = IF filled'[p] = 0 THEN "mix" ELSE "fill"
    <3>1. CASE filled'[p] = 0
      <4>1. pass' = [pass EXCEPT ![p].at = "mix"] /\ "mix" \in Guarded
        BY <2>1, <3>1 DEF Guarded
      <4>2. /\ pass' = [pass EXCEPT ![p] = Standing(pass[p], "mix")] /\ Standing(pass[p], "mix") \in Spot
            /\ Standing(pass[p], "mix").at = "mix" /\ Standing(pass[p], "mix").l = b
        BY <4>1, GoesTo
      <4> QED
        BY <3>1, <4>2
    <3>2. CASE filled'[p] # 0
      <4>1. pass' = [pass EXCEPT ![p] = pass[p]] /\ pass[p] \in Spot
        BY <1>7, <2>1, <3>2, PassSpot
      <4> QED
        BY <1>1, <3>2, <4>1
    <3> QED
      BY <3>1, <3>2
  <2>3. PICK x \in Spot : /\ pass' = [pass EXCEPT ![p] = x] /\ x.l = b
                          /\ x.at = IF filled'[p] = 0 THEN "mix" ELSE "fill"
    BY <2>2
  <2>4. \A v \in Worker \ {p} : filled'[v] = filled[v]
    BY <1>5, <2>1 DEF Read
  <2>5. /\ Still(p)
        /\ Filling(p)' <=> x.at = "fill"
        /\ Computing(p)' <=> x.at \in Guarded /\ Streams(x.l)
        /\ BlockOf(p)' = x.l
    BY <1>1, <2>3, <2>4, PassMoves
  <2>6. /\ Filling(p)' <=> filled'[p] # 0
        /\ Holding(p)' /\ (Filling(p)' => ~Computing(p)') /\ BlockOf(p)' = b
    BY <1>4, <2>3, <2>5 DEF Guarded, Holding
  <2>7. LocksOK' /\ RingOK' /\ RingTypes'
    <3>1. owner' = [owner EXCEPT ![SlotOf(b)] = IF Holding(p)' THEN p ELSE NoOne]
      BY <1>6, <2>6
    <3> HIDE DEF b
    <3> QED
      BY <1>1, <1>2, <2>1, <2>5, <2>6, <3>1, ReadHolds
  <2>8. x.at \in {"borrow", "fill"} => Streams(x.l)
    BY <1>4, <2>3
  <2>9. TypesOK'
    BY <1>1, <1>3, <2>3, <2>7, <2>8, PassTypes
  <2> QED
    BY <2>7, <2>9 DEF IInv
<1>9. CASE ReadFails(p, b) /\ pass' = [pass EXCEPT ![p].at = "mix"]
  <2> DEFINE x == Standing(pass[p], "mix")
  <2>1. pass' = [pass EXCEPT ![p] = x] /\ x \in Spot /\ x.at = "mix" /\ x.l = b
    BY <1>9, GoesTo DEF Guarded
  <2> HIDE DEF x
  <2>2. \A v \in Worker \ {p} : filled'[v] = filled[v]
    BY <1>5, <1>9 DEF ReadFails
  <2>3. /\ Still(p)
        /\ Filling(p)' <=> x.at = "fill"
        /\ Computing(p)' <=> x.at \in Guarded /\ Streams(x.l)
        /\ BlockOf(p)' = x.l
    BY <1>1, <2>1, <2>2, PassMoves
  <2>4. ~Filling(p)' /\ Computing(p)' /\ BlockOf(p)' = b
    BY <1>4, <2>1, <2>3 DEF Guarded
  <2>5. LocksOK' /\ RingOK' /\ RingTypes'
    <3>1. owner' = [owner EXCEPT ![SlotOf(b)] = IF Computing(p)' THEN p ELSE NoOne]
      BY <1>6, <2>4
    <3> HIDE DEF b
    <3> QED
      BY <1>1, <1>2, <1>9, <2>3, <2>4, <3>1, FailHolds
  <2>6. TypesOK'
    BY <1>1, <1>3, <2>1, <2>5, PassTypes
  <2> QED
    BY <2>5, <2>6 DEF IInv
<1> QED
  BY <1>8, <1>9 DEF ReadInline

\* What follows half of a block's arithmetic.
LEMMA LeaveKeeps ==
  ASSUME IInv, NEW p \in Passes, pass[p].at \in Guarded,
         NEW x \in Spot, x.at \in {"ffn", "idle", "hint"},
         x.at = "ffn" => x.l = pass[p].l, Leave(p, x)
  PROVE  IInv'
<1>1. /\ pass' = [pass EXCEPT ![p] = x]
      /\ UNCHANGED <<pinned, slots, filled, queue, reader, begun, failed>>
      /\ IF Streams(pass[p].l) /\ x.at \notin Guarded
         THEN Unlock(pass[p].l) ELSE owner' = owner
  BY DEF Leave
<1>2. /\ ~Filling(p) /\ (Computing(p) <=> Streams(pass[p].l)) /\ BlockOf(p) = pass[p].l
      /\ p \in Worker
  BY PassSpot DEF Guarded
<1>3. queue \in Seq(Nat) /\ Len(queue) <= Cardinality(Readers)
  BY PassSpot
<1>4. /\ Still(p)
      /\ Filling(p)' <=> x.at = "fill"
      /\ Computing(p)' <=> x.at \in Guarded /\ Streams(x.l)
      /\ BlockOf(p)' = x.l
  BY <1>1, PassMoves
<1>5. /\ DOMAIN slots = Ring /\ owner \in [Ring -> Worker \cup {NoOne}]
      /\ \A j \in Ring : slots[j].ready \in BOOLEAN
      /\ filled \in [Worker -> Nat]
  BY DEF IInv, TypesOK
<1>6. CASE Streams(pass[p].l) /\ x.at \notin Guarded
  <2>0. PICK i \in Ring : i = SlotOf(pass[p].l)
    BY <1>6, StreamsIn
  <2>1. Computing(p) /\ Holding(p) /\ ~Holding(p)' /\ ~Filling(p)' /\ ~Computing(p)'
    BY <1>2, <1>4, <1>6 DEF Holding
  <2>2. i \in Ring /\ (Holding(p) => SlotOf(BlockOf(p)) = i)
    BY <1>2, <2>0
  <2>3. owner[i] = p
    BY <1>2, <2>1, <2>2 DEF IInv, LocksOK
  <2>4. owner' = [owner EXCEPT ![i] = NoOne]
    BY <1>1, <1>6, <2>0 DEF Unlock
  <2>5. owner'[i] = NoOne /\ \A j \in Ring \ {i} : owner'[j] = owner[j] /\ slots'[j] = slots[j]
    BY <1>1, <1>5, <2>2, <2>4
  <2>6. SlotOK(i)'
    <3>1. SlotOK(i) /\ (\A b : Streams(b)' <=> Streams(b))
      BY <1>1, <2>2 DEF IInv, RingOK, Streams
    <3> QED
      BY <1>1, <3>1 DEF SlotOK, Vacant, Filled, SlotOf
  <2>7. WorkOK(p)'
    <3>1. filled[p] = 0
      BY <1>2 DEF IInv, RingOK, WorkOK
    <3> QED
      BY <1>1, <2>1, <3>1 DEF WorkOK
  <2>8. LocksOK' /\ RingOK'
    <3>1. owner[i] \in {NoOne, p} /\ owner'[i] = IF Holding(p)' THEN p ELSE NoOne
      BY <2>1, <2>3, <2>5
    <3> QED
      BY <1>1, <1>2, <1>4, <2>1, <2>2, <2>5, <2>6, <2>7, <3>1, AtOneSlot
  <2>9. RingTypes'
    BY <1>1, <1>5, <2>4 DEF RingTypes
  <2>10. TypesOK'
    BY <1>1, <1>3, <2>9, PassTypes
  <2> QED
    BY <2>8, <2>10 DEF IInv
<1>7. CASE ~(Streams(pass[p].l) /\ x.at \notin Guarded)
  <2>1. UNCHANGED ring
    BY <1>1, <1>7 DEF ring
  <2>2. Computing(p) <=> x.at \in Guarded /\ Streams(x.l)
    BY <1>2, <1>7 DEF Guarded
  <2>3. Holding(p) => x.l = pass[p].l
    BY <1>2, <1>7 DEF Holding, Guarded
  <2>4. Filling(p) <=> x.at = "fill"
    BY <1>2
  <2> QED
    BY <1>1, <1>3, <2>1, <2>2, <2>3, <2>4, PassPasses
<1> QED
  BY <1>6, <1>7

\* attn_batch, delta_net_batch and the feed-forward half.
LEMMA HalfKeeps ==
  ASSUME IInv, NEW p \in Passes, Attend(p) \/ Recur(p) \/ FeedForward(p)
  PROVE  IInv'
<1>0. pass[p] \in Spot /\ NLayers \in Nat \ {0}
  BY PassSpot, StreamAssumption
<1>1. 1 \in 1..(Depth + 1)
  BY Deep
<1>2. Ended \in Spot /\ Ended.at = "idle"
  BY <1>0, <1>1 DEF Ended, Spot, Blocks
<1>3. [pass[p] EXCEPT !.at = "ffn"] \in Spot /\ [pass[p] EXCEPT !.at = "ffn"].at = "ffn"
      /\ [pass[p] EXCEPT !.at = "ffn"].l = pass[p].l
  BY <1>0 DEF Spot, Guarded
<1>4. Onward(p) \in Spot /\ Onward(p).at \in {"idle", "hint"}
  <2>1. CASE pass[p].l + 1 < NLayers
    <3>1. pass[p].l + 1 \in Blocks
      <4>1. pass[p].l \in Blocks
        BY <1>0 DEF Spot
      <4> QED
        BY <1>0, <2>1, <4>1 DEF Blocks
    <3>2. Onward(p) = [at |-> "hint", l |-> pass[p].l + 1, ahead |-> 1]
      BY <2>1 DEF Onward
    <3> QED
      BY <1>1, <3>1, <3>2 DEF Spot
  <2>2. CASE ~(pass[p].l + 1 < NLayers)
    BY <1>2, <2>2 DEF Onward
  <2> QED
    BY <2>1, <2>2
<1>5. CASE Attend(p)
  <2>1. pass[p].at \in Guarded /\ \E x \in {[pass[p] EXCEPT !.at = "ffn"], Ended} : Leave(p, x)
    BY <1>5 DEF Attend, Guarded
  <2>2. CASE Leave(p, [pass[p] EXCEPT !.at = "ffn"])
    BY <1>3, <2>1, <2>2, LeaveKeeps
  <2>3. CASE Leave(p, Ended)
    BY <1>2, <2>1, <2>3, LeaveKeeps
  <2> QED
    BY <2>1, <2>2, <2>3
<1>6. CASE Recur(p)
  <2>1. pass[p].at \in Guarded /\ Leave(p, [pass[p] EXCEPT !.at = "ffn"])
    BY <1>6 DEF Recur, Guarded
  <2> QED
    BY <1>3, <2>1, LeaveKeeps
<1>7. CASE FeedForward(p)
  <2>1. pass[p].at \in Guarded /\ Leave(p, Onward(p))
    BY <1>7 DEF FeedForward, Guarded
  <2>2. Onward(p).at # "ffn"
    BY <1>4
  <2> QED
    BY <1>4, <2>1, <2>2, LeaveKeeps
<1> QED
  BY <1>5, <1>6, <1>7

\* What the invariant says of a reader.
LEMMA ReaderSpot ==
  ASSUME IInv, NEW r \in Readers
  PROVE  /\ reader[r] \in [at : {"idle", "fetch", "fill"}, block : Nat]
         /\ Filling(r) <=> reader[r].at = "fill"
         /\ Holding(r) <=> reader[r].at = "fill"
         /\ ~Computing(r)
         /\ BlockOf(r) = reader[r].block
         /\ r \in Worker
         /\ reader[r].at # "idle" => Streams(reader[r].block)
         /\ queue \in Seq(Nat) /\ Len(queue) <= Cardinality(Readers)
<1>1. r \notin Passes
  BY StreamAssumption
<1> QED
  BY <1>1 DEF Filling, Computing, Holding, BlockOf, Worker, IInv, TypesOK

\* A waiting reader is where a reader may stand.
LEMMA Idle == Waiting \in [at : {"idle", "fetch", "fill"}, block : Nat] /\ Waiting.at = "idle"
  BY DEF Waiting

\* A reader takes a hint, however stale it is.
LEMMA TakeHintKeeps ==
  ASSUME IInv, NEW r \in Readers, TakeHint(r)
  PROVE  IInv'
<1> DEFINE b == Head(queue)
           x == IF Streams(b) THEN [at |-> "fetch", block |-> b] ELSE reader[r]
<1>1. /\ reader[r].at = "idle" /\ queue # <<>> /\ queue' = Tail(queue)
      /\ reader' = [reader EXCEPT ![r] = x]
      /\ UNCHANGED <<pinned, ring, pass, begun, failed>>
  BY DEF TakeHint
<1>2. queue \in Seq(Nat) /\ Len(queue) <= Cardinality(Readers)
  BY ReaderSpot
<1>3. b \in Nat /\ queue' \in Seq(Nat) /\ Len(queue') = Len(queue) - 1 /\ Len(queue) \in Nat
  BY <1>1, <1>2, HeadTailProperties, LenProperties
<1>4. Cardinality(Readers) \in Nat
  BY StreamAssumption, FS_CardinalityType
<1>5. Len(queue') <= Cardinality(Readers)
  BY <1>2, <1>3, <1>4
<1> HIDE DEF b
<1>6. reader[r] \in [at : {"idle", "fetch", "fill"}, block : Nat]
  BY ReaderSpot
<1>7. /\ x \in [at : {"idle", "fetch", "fill"}, block : Nat] /\ x.at # "fill"
      /\ x.at # "idle" => Streams(x.block)
  BY <1>1, <1>3, <1>6
<1> HIDE DEF x
<1>8. slots' = slots /\ owner' = owner /\ filled' = filled
  BY <1>1 DEF ring
<1>9. /\ Still(r)
      /\ Filling(r)' <=> x.at = "fill"
      /\ ~Computing(r) /\ ~Computing(r)'
  BY <1>1, <1>8, ReaderMoves
<1>10. ~Filling(r) /\ ~Holding(r)
  BY <1>1, ReaderSpot
<1>11. LocksOK' /\ RingOK'
  BY <1>1, <1>7, <1>8, <1>9, <1>10, OffTheRing DEF Still
<1>12. TypesOK'
  BY <1>1, <1>3, <1>5, <1>7, SameRingTypes, ReaderTypes
<1> QED
  BY <1>11, <1>12 DEF IInv

\* fetch locks the slot, unless the bytes are there.
LEMMA FetchKeeps ==
  ASSUME IInv, NEW r \in Readers, Fetch(r)
  PROVE  IInv'
<1> DEFINE b == reader[r].block
<1>1. reader[r].at = "fetch" /\ UNCHANGED <<pinned, queue, pass, begun, failed>>
  BY DEF Fetch
<1>2. /\ reader[r] \in [at : {"idle", "fetch", "fill"}, block : Nat]
      /\ ~Filling(r) /\ ~Holding(r) /\ Streams(b) /\ r \in Worker
      /\ queue \in Seq(Nat) /\ Len(queue) <= Cardinality(Readers)
  BY <1>1, ReaderSpot
<1>3. CASE IsThere(b)
  <2>1. UNCHANGED ring /\ reader' = [reader EXCEPT ![r] = Waiting]
    BY <1>3 DEF Fetch
  <2>2. slots' = slots /\ owner' = owner /\ filled' = filled
    BY <2>1 DEF ring
  <2>3. /\ Still(r)
        /\ Filling(r)' <=> Waiting.at = "fill"
        /\ ~Computing(r) /\ ~Computing(r)'
    BY <1>1, <2>1, <2>2, ReaderMoves
  <2>4. LocksOK' /\ RingOK'
    BY <1>1, <1>2, <2>2, <2>3, Idle, OffTheRing DEF Still
  <2>5. TypesOK'
    BY <1>1, <1>2, <2>1, Idle, SameRingTypes, ReaderTypes
  <2> QED
    BY <2>4, <2>5 DEF IInv
<1>4. CASE ~IsThere(b)
  <2> DEFINE x == [reader[r] EXCEPT !.at = "fill"]
  <2>1. Lock(r, b) /\ filled' = filled /\ reader' = [reader EXCEPT ![r] = x]
    BY <1>4 DEF Fetch, Lock
  <2>2. /\ x \in [at : {"idle", "fetch", "fill"}, block : Nat]
        /\ x.at = "fill" /\ x.block = b
    BY <1>2
  <2> HIDE DEF x
  <2>3. /\ Still(r)
        /\ Filling(r)' <=> x.at = "fill"
        /\ ~Computing(r) /\ ~Computing(r)'
        /\ BlockOf(r)' = x.block
    BY <1>1, <2>1, ReaderMoves
  <2>4. /\ Filling(r)' <=> ~IsThere(b)
        /\ Computing(r)' <=> IsThere(b)
        /\ BlockOf(r)' = b
    BY <1>4, <2>2, <2>3
  <2>5. LocksOK' /\ RingOK' /\ RingTypes'
    <3> HIDE DEF b
    <3> QED
      BY <1>1, <1>2, <2>1, <2>3, <2>4, LockHolds
  <2>6. TypesOK'
    BY <1>1, <1>2, <2>1, <2>2, <2>5, ReaderTypes
  <2> QED
    BY <2>5, <2>6 DEF IInv
<1> QED
  BY <1>3, <1>4

\* A reader's reads, and the end of them.
LEMMA PrefetchKeeps ==
  ASSUME IInv, NEW r \in Readers, Prefetch(r)
  PROVE  IInv'
<1>0. PICK b : b = reader[r].block
  OBVIOUS
<1>1. reader[r].at = "fill" /\ UNCHANGED <<pinned, queue, pass, begun>>
  BY DEF Prefetch
<1>2. /\ reader[r] \in [at : {"idle", "fetch", "fill"}, block : Nat]
      /\ Filling(r) /\ Holding(r) /\ ~Computing(r) /\ r \in Worker
      /\ Streams(b) /\ b = BlockOf(r)
      /\ queue \in Seq(Nat) /\ Len(queue) <= Cardinality(Readers)
  BY <1>0, <1>1, ReaderSpot
<1>3. owner[SlotOf(b)] = r /\ SlotOf(b) \in Ring
  BY <1>2, FillerHolds
<1>4. /\ owner \in [Ring -> Worker \cup {NoOne}] /\ filled \in [Worker -> Nat]
      /\ reader \in [Readers -> [at : {"idle", "fetch", "fill"}, block : Nat]]
  BY DEF IInv, TypesOK
<1>5. CASE \E n \in 1..Span(b).len :
             /\ Read(r, b, n) /\ UNCHANGED failed
             /\ IF filled'[r] = 0
                THEN Unlock(b) /\ reader' = [reader EXCEPT ![r] = Waiting]
                ELSE UNCHANGED <<owner, reader>>
  <2>1. PICK n \in 1..Span(b).len :
             /\ Read(r, b, n) /\ UNCHANGED failed
             /\ IF filled'[r] = 0
                THEN Unlock(b) /\ reader' = [reader EXCEPT ![r] = Waiting]
                ELSE UNCHANGED <<owner, reader>>
    BY <1>5
  <2>2. \A v \in Worker \ {r} : filled'[v] = filled[v]
    BY <1>4, <2>1 DEF Read
  <2>3. CASE filled'[r] = 0
    <3>1. reader' = [reader EXCEPT ![r] = Waiting] /\ owner' = [owner EXCEPT ![SlotOf(b)] = NoOne]
      BY <2>1, <2>3 DEF Unlock
    <3>2. /\ Still(r)
          /\ Filling(r)' <=> Waiting.at = "fill"
          /\ ~Computing(r)'
      BY <1>1, <2>2, <3>1, ReaderMoves
    <3>3. ~Filling(r)' /\ ~Holding(r)'
      BY <3>2, Idle DEF Holding
    <3>4. LocksOK' /\ RingOK' /\ RingTypes'
      BY <1>1, <1>2, <2>1, <2>3, <3>1, <3>2, <3>3, ReadHolds
    <3>5. TypesOK'
      BY <1>1, <1>2, <3>1, <3>4, Idle, ReaderTypes
    <3> QED
      BY <3>4, <3>5 DEF IInv
  <2>4. CASE filled'[r] # 0
    <3>1. reader' = [reader EXCEPT ![r] = reader[r]] /\ owner' = [owner EXCEPT ![SlotOf(b)] = r]
      BY <1>3, <1>4, <2>1, <2>4
    <3>2. /\ Still(r)
          /\ Filling(r)' <=> reader[r].at = "fill"
          /\ ~Computing(r)' /\ BlockOf(r)' = reader[r].block
      BY <1>1, <2>2, <3>1, ReaderMoves
    <3>3. Filling(r)' /\ Holding(r)' /\ BlockOf(r)' = b
      BY <1>0, <1>1, <3>2 DEF Holding
    <3>4. LocksOK' /\ RingOK' /\ RingTypes'
      BY <1>1, <1>2, <2>1, <2>4, <3>1, <3>2, <3>3, ReadHolds
    <3>5. TypesOK'
      BY <1>0, <1>1, <1>2, <3>1, <3>4, ReaderTypes
    <3> QED
      BY <3>4, <3>5 DEF IInv
  <2> QED
    BY <2>3, <2>4
<1>6. CASE ReadFails(r, b) /\ Unlock(b) /\ reader' = [reader EXCEPT ![r] = Waiting]
  <2>1. owner' = [owner EXCEPT ![SlotOf(b)] = NoOne]
    BY <1>6 DEF Unlock
  <2>2. \A v \in Worker \ {r} : filled'[v] = filled[v]
    BY <1>4, <1>6 DEF ReadFails
  <2>3. /\ Still(r)
        /\ Filling(r)' <=> Waiting.at = "fill"
        /\ ~Computing(r)'
    BY <1>1, <1>6, <2>2, ReaderMoves
  <2>4. ~Filling(r)' /\ owner' = [owner EXCEPT ![SlotOf(b)] = IF Computing(r)' THEN r ELSE NoOne]
    BY <2>1, <2>3, Idle
  <2>5. LocksOK' /\ RingOK' /\ RingTypes'
    BY <1>1, <1>2, <1>6, <2>3, <2>4, FailHolds
  <2>6. TypesOK'
    BY <1>1, <1>2, <1>6, <2>5, Idle, ReaderTypes
  <2> QED
    BY <2>5, <2>6 DEF IInv
<1> QED
  BY <1>0, <1>5, <1>6 DEF Prefetch

-----------------------------------------------------------------------------
(* The ring's results.                                                     *)

\* The program starts with an empty ring and nobody at it.
LEMMA InitHolds == Init => IInv
<1> SUFFICES ASSUME Init PROVE IInv
  OBVIOUS
<1>1. Ended \in Spot /\ Ended.at = "idle"
  <2>1. 1 \in 1..(Depth + 1) /\ 0 \in Blocks
    BY Deep, StreamAssumption DEF Blocks
  <2> QED
    BY <2>1 DEF Ended, Spot
<1>2. /\ \A p \in Passes : pass[p] = Ended
      /\ \A r \in Readers : reader[r] = Waiting
      /\ \A w \in Worker : filled[w] = 0
      /\ \A i \in Ring : slots[i] = [block |-> None, ready |-> FALSE, buf |-> <<>>] /\ owner[i] = NoOne
  BY DEF Init, Ring, Worker
<1>3. \A w \in Worker : ~Filling(w) /\ ~Computing(w) /\ ~Holding(w)
  BY <1>1, <1>2, Idle DEF Worker, Filling, Computing, Holding, Guarded
<1>4. TypesOK
  <2>1. queue \in Seq(Nat) /\ Len(queue) <= Cardinality(Readers)
    <3>1. Cardinality(Readers) \in Nat
      BY StreamAssumption, FS_CardinalityType
    <3>2. queue = <<>>
      BY DEF Init
    <3> QED
      BY <3>1, <3>2, EmptySeq
  <2>2. pass \in [Passes -> Spot] /\ filled \in [Worker -> Nat]
    BY <1>1 DEF Init, Worker
  <2>3. reader \in [Readers -> [at : {"idle", "fetch", "fill"}, block : Nat]]
    BY Idle DEF Init
  <2>4. DOMAIN slots = Ring /\ owner \in [Ring -> Worker \cup {NoOne}] /\ pinned \subseteq Blocks
    BY DEF Init, Ring
  <2>5. \A p \in Passes : pass[p].at \in {"borrow", "fill"} => Streams(pass[p].l)
    BY <1>1, <1>2
  <2>6. \A r \in Readers : reader[r].at # "idle" => Streams(reader[r].block)
    BY <1>2, Idle
  <2>7. \A i \in Ring : slots[i].ready = FALSE
    BY <1>2
  <2> QED
    BY <2>1, <2>2, <2>3, <2>4, <2>5, <2>6, <2>7 DEF TypesOK, Spot
<1>5. LocksOK
  <2>1. NoOne \notin Worker
    BY StreamAssumption DEF Worker
  <2> QED
    BY <1>2, <1>3, <2>1 DEF LocksOK
<1>6. RingOK
  BY <1>2, <1>3 DEF RingOK, SlotOK, WorkOK, Vacant
<1> QED
  BY <1>4, <1>5, <1>6 DEF IInv

\* Every step keeps the invariant.
LEMMA StepKeeps == IInv /\ [Next]_vars => IInv'
<1> SUFFICES ASSUME IInv, [Next]_vars PROVE IInv'
  OBVIOUS
<1>1. ASSUME NEW p \in Passes, Begin(p) PROVE IInv'
  BY <1>1, BeginKeeps
<1>2. ASSUME NEW p \in Passes, PassStep(p) PROVE IInv'
  <2>1. CASE HintAhead(p)
    BY <2>1, HintKeeps
  <2>2. CASE RunLayer(p)
    BY <2>2, RunLayerKeeps
  <2>3. CASE Borrow(p)
    BY <2>3, BorrowKeeps
  <2>4. CASE ReadInline(p)
    BY <2>4, ReadInlineKeeps
  <2>5. CASE Attend(p) \/ Recur(p) \/ FeedForward(p)
    BY <2>5, HalfKeeps
  <2> QED
    BY <1>2, <2>1, <2>2, <2>3, <2>4, <2>5 DEF PassStep
<1>3. ASSUME NEW r \in Readers, TakeHint(r) \/ Fetch(r) \/ Prefetch(r) PROVE IInv'
  BY <1>3, TakeHintKeeps, FetchKeeps, PrefetchKeeps
<1>4. CASE UNCHANGED vars
  <2>1. UNCHANGED <<pinned, slots, owner, filled, queue, reader, pass, begun, failed>>
    BY <1>4 DEF vars, ring
  <2>2. TypesOK'
    BY <2>1 DEF IInv, TypesOK, Streams
  <2>3. \A v \in Worker : /\ Filling(v)' <=> Filling(v)
                          /\ Computing(v)' <=> Computing(v)
                          /\ BlockOf(v)' = BlockOf(v)
    BY <2>1 DEF Filling, Computing, BlockOf, Streams
  <2>4. LocksOK' /\ RingOK'
    BY <2>1, <2>3, OffTheRing
  <2> QED
    BY <2>2, <2>4 DEF IInv
<1> QED
  BY <1>1, <1>2, <1>3, <1>4 DEF Next

\* The inductive invariant: a slot is locked by the one worker that fills it
\* or computes from it, and what is ready is whole (BlockStreamer::borrow,
\* fill, StreamPrefetcher's fetch).
THEOREM RingInductive == Spec => []IInv
<1> QED
  BY InitHolds, StepKeeps, PTL DEF Spec

\* The invariant has the types the runs check.
LEMMA Shaped == IInv => TypeOK
<1> SUFFICES ASSUME IInv PROVE TypeOK
  OBVIOUS
<1>1. \A i \in Ring : /\ slots[i].block \in Blocks \cup {None} /\ slots[i].ready \in BOOLEAN
                      /\ owner[i] \in Passes \cup Readers \cup {NoOne}
  <2> SUFFICES ASSUME NEW i \in Ring
               PROVE  /\ slots[i].block \in Blocks \cup {None} /\ slots[i].ready \in BOOLEAN
                      /\ owner[i] \in Passes \cup Readers \cup {NoOne}
    OBVIOUS
  <2>1. slots[i].ready \in BOOLEAN /\ owner[i] \in Worker \cup {NoOne}
    BY DEF IInv, TypesOK
  <2>2. SlotOK(i)
    BY DEF IInv, RingOK
  <2>3. slots[i].block \in Blocks \cup {None}
    BY <2>2 DEF SlotOK, Vacant, Streams
  <2> QED
    BY <2>1, <2>3 DEF Worker
<1>2. ASSUME NEW w \in Worker
      PROVE  Holding(w) <=> \E i \in Ring : owner[i] = w
  <2>1. ASSUME Holding(w) PROVE SlotOf(BlockOf(w)) \in Ring
    <3>1. Streams(BlockOf(w))
      BY <2>1 DEF IInv, TypesOK, Holding, Filling, Computing, BlockOf, Worker
    <3> QED
      BY <3>1, StreamsIn
  <2> QED
    BY <2>1 DEF IInv, LocksOK
<1>3. ASSUME NEW p \in Passes
      PROVE  /\ pass[p].l \in Blocks /\ pass[p].ahead \in 1..(Depth + 1)
             /\ pass[p].at \in {"fill"} \cup Guarded /\ Streams(pass[p].l)
                  <=> \E i \in Ring : owner[i] = p
  <2>1. pass[p] \in Spot /\ p \in Worker
    BY PassSpot
  <2>2. Holding(p) <=> pass[p].at \in {"fill"} \cup Guarded /\ Streams(pass[p].l)
    <3>1. pass[p].at = "fill" => Streams(pass[p].l)
      BY DEF IInv, TypesOK
    <3> QED
      BY <3>1, PassSpot DEF Holding
  <2> QED
    BY <1>2, <2>1, <2>2 DEF Spot
<1>4. ASSUME NEW r \in Readers
      PROVE  reader[r].at = "fill" <=> \E i \in Ring : owner[i] = r
  BY <1>2, ReaderSpot
<1>5. pinned \subseteq Blocks /\ Len(queue) <= Cardinality(Readers)
  BY DEF IInv, TypesOK
<1> QED
  BY <1>1, <1>3, <1>4, <1>5 DEF TypeOK, Ring

\* The bytes of a weight are found at its own offset less the span's.
LEMMA Found ==
  ASSUME NEW t \in Tensors, NEW slot, slot = slots[SlotOf(t.block)],
         Filled(slot, t.block, Span(t.block).len)
  PROVE  Located(t, t.block) = Bytes(t)
<1> DEFINE b == t.block
           at == t.start - Span(b).start
           s == slot.buf
<1>1. /\ Span(b).start \in Nat /\ Span(b).len \in Nat
      /\ Span(b).start <= t.start /\ t.start + t.len <= Span(b).start + Span(b).len
  BY SpanOf
<1>2. t.start \in Nat /\ t.len \in Nat \ {0}
  BY StreamAssumption
<1>3. DOMAIN s = 1..Span(b).len /\ \A i \in 1..Span(b).len : s[i] = Span(b).start + i - 1
  BY DEF Filled
<1>4. at \in Nat /\ at + t.len <= Span(b).len
  BY <1>1, <1>2
<1>5. Located(t, b) = SubSeq(s, at + 1, at + t.len)
  BY DEF Located
<1> HIDE DEF at, s
<1>6. at + 1 \in Int /\ at + t.len \in Int
  BY <1>2, <1>4
<1>7. \A i \in (at + 1)..(at + t.len) : s[i] \in Nat
  <2> SUFFICES ASSUME NEW i \in (at + 1)..(at + t.len) PROVE s[i] \in Nat
    OBVIOUS
  <2>1. i \in 1..Span(b).len
    BY <1>1, <1>2, <1>4
  <2>2. s[i] = Span(b).start + i - 1
    BY <1>3, <2>1
  <2> QED
    BY <1>1, <2>1, <2>2
<1> DEFINE cut == SubSeq(s, at + 1, at + t.len)
<1>8. /\ cut \in Seq(Nat)
      /\ Len(cut) = IF at + 1 <= at + t.len THEN (at + t.len) - (at + 1) + 1 ELSE 0
      /\ \A i \in 1..((at + t.len) - (at + 1) + 1) : cut[i] = s[(at + 1) + i - 1]
  BY <1>6, <1>7, SubSeqProperties
<1> HIDE DEF cut
<1>9. (at + t.len) - (at + 1) + 1 = t.len /\ at + 1 <= at + t.len
  BY <1>2, <1>4
<1>10. Len(cut) = t.len /\ \A i \in 1..t.len : cut[i] = s[(at + 1) + i - 1]
  BY <1>8, <1>9
<1>11. ASSUME NEW i \in 1..t.len PROVE cut[i] = t.start + i - 1
  <2>1. (at + 1) + i - 1 \in 1..Span(b).len /\ (at + 1) + i - 1 = at + i
    BY <1>1, <1>2, <1>4
  <2>2. cut[i] = Span(b).start + (at + i) - 1
    BY <1>3, <1>10, <2>1
  <2> QED
    BY <1>1, <1>2, <2>2 DEF at
<1>12. cut \in [1..t.len -> Nat]
  BY <1>8, <1>10, LenProperties
<1>13. cut = Bytes(t)
  BY <1>11, <1>12 DEF Bytes
<1> QED
  BY <1>5, <1>13 DEF cut

\* What a pass computes from is its own block, or one that could not be read.
LEMMA FromTheRing == IInv => OwnBytes
<1> SUFFICES ASSUME IInv,
                    NEW p \in Passes, NEW t \in Tensors,
                    pass[p].at \in {"mix", "ffn"}, t.block = pass[p].l, Streams(t.block)
             PROVE  LET slot == slots[SlotOf(t.block)]
                    IN \/ slot.block = t.block /\ Located(t, t.block) = Bytes(t)
                       \/ slot.block = None /\ ~slot.ready /\ t.block \in failed
  BY Shaped DEF OwnBytes
<1>1. Computing(p) /\ BlockOf(p) = t.block /\ p \in Worker
  BY PassSpot DEF Guarded
<1>2. IsThere(t.block) \/ (Vacant(slots[SlotOf(t.block)]) /\ t.block \in failed)
  BY <1>1 DEF IInv, RingOK, WorkOK
<1>3. CASE IsThere(t.block)
  <2>1. SlotOf(t.block) \in Ring /\ t.block # None
    BY StreamsIn
  <2>2. slots[SlotOf(t.block)].block = t.block
    BY <1>3 DEF IsThere
  <2>3. SlotOK(SlotOf(t.block))
    BY <2>1 DEF IInv, RingOK
  <2>4. Filled(slots[SlotOf(t.block)], t.block, Span(t.block).len)
    BY <2>1, <2>2, <2>3 DEF SlotOK, Vacant
  <2>5. Located(t, t.block) = Bytes(t)
    BY <2>4, Found
  <2> QED
    BY <2>2, <2>5
<1>4. CASE Vacant(slots[SlotOf(t.block)]) /\ t.block \in failed
  BY <1>4 DEF Vacant
<1> QED
  BY <1>2, <1>3, <1>4

\* "A streamed block must be exactly the bytes at that offset in the file,
\* however it was fetched" (stream/mod.rs): for any file, any pinned blocks,
\* any number of passes and readers and any ring, what a pass multiplies by
\* is the weight's own bytes, unless that very block's read failed, and then
\* its slot promises nothing.
THEOREM OwnBytesAlways == Spec => []OwnBytes
<1> QED
  BY RingInductive, FromTheRing, PTL

-----------------------------------------------------------------------------
(* What a loader accepts.  Nothing changes once it is loaded, so there is  *)
(* little to be inductive about: the work is in the header, whose sums and *)
(* products are folds over finite sets.                                    *)

\* The element of s that a fold takes first.
First(s) == CHOOSE x \in s : TRUE

\* A set of subsets of a finite set has a smallest one.
LEMMA SmallestOf ==
  ASSUME NEW S, IsFiniteSet(S), NEW B \in SUBSET (SUBSET S), B # {}
  PROVE  \E s \in B : \A t \in B : t \subseteq s => t = s
<1> DEFINE T == {Cardinality(s) : s \in B}
<1>1. \A s \in B : IsFiniteSet(s) /\ Cardinality(s) \in Nat
  BY FS_Subset, FS_CardinalityType
<1>2. T \subseteq Nat /\ T # {}
  BY <1>1
<1>3. PICK n \in T : \A m \in T : n <= m
  BY <1>2, LeastOf
<1>4. PICK s \in B : n = Cardinality(s)
  OBVIOUS
<1>5. ASSUME NEW t \in B, t \subseteq s PROVE t = s
  <2>1. Cardinality(t) <= Cardinality(s) /\ (Cardinality(s) = Cardinality(t) => s = t)
    BY <1>1, <1>5, FS_Subset
  <2>2. Cardinality(s) <= Cardinality(t)
    BY <1>3, <1>4
  <2> QED
    BY <1>1, <2>1, <2>2
<1> QED
  BY <1>5

\* A fold over every subset of D: pick says which element is taken first, and
\* c what becomes of it and of the rest.
Folded(D, pick, base, c, g) ==
  g = [s \in SUBSET D |-> IF s = {} THEN base ELSE c[<<pick[s], g[s \ {pick[s]}]>>]]

\* There is one: it is built up by the number of elements.
LEMMA FoldExists ==
  ASSUME NEW D, IsFiniteSet(D), NEW pick, \A s \in SUBSET D : s # {} => pick[s] \in s,
         NEW base, NEW c
  PROVE  \E g : Folded(D, pick, base, c, g)
<1> DEFINE UpTo(g, n) ==
      \A s \in SUBSET D : Cardinality(s) <= n =>
         g[s] = IF s = {} THEN base ELSE c[<<pick[s], g[s \ {pick[s]}]>>]
           Bad == {n \in Nat : ~ \E g : UpTo(g, n)}
<1>0. \A s \in SUBSET D : /\ IsFiniteSet(s) /\ Cardinality(s) \in Nat
                          /\ Cardinality(s) = 0 <=> s = {}
                          /\ Cardinality(s) <= Cardinality(D)
  BY FS_Subset, FS_CardinalityType, FS_EmptySet
<1>a. Cardinality(D) \in Nat
  BY FS_CardinalityType
<1>1. 0 \notin Bad
  <2> DEFINE g == [s \in SUBSET D |-> base]
  <2>1. UpTo(g, 0)
    BY <1>0
  <2> QED
    BY <2>1
<1>2. ASSUME NEW m \in Nat, m \notin Bad PROVE m + 1 \notin Bad
  <2>1. PICK h : UpTo(h, m)
    BY <1>2
  <2> DEFINE G(s) == IF Cardinality(s) <= m THEN h[s] ELSE c[<<pick[s], h[s \ {pick[s]}]>>]
             g == [s \in SUBSET D |-> G(s)]
  <2>2. ASSUME NEW s \in SUBSET D, s # {}
        PROVE  /\ pick[s] \in s /\ s \ {pick[s]} \in SUBSET D
               /\ Cardinality(s \ {pick[s]}) = Cardinality(s) - 1
    <3>1. pick[s] \in s
      BY <2>2
    <3> QED
      BY <1>0, <3>1, FS_RemoveElement
  <2>5. \A s \in SUBSET D : g[s] = G(s)
    OBVIOUS
  <2> HIDE DEF g
  <2>6. ASSUME NEW s \in SUBSET D, Cardinality(s) <= m + 1
        PROVE  g[s] = IF s = {} THEN base ELSE c[<<pick[s], g[s \ {pick[s]}]>>]
    <3>1. CASE s = {}
      <4>1. Cardinality(s) <= m
        BY <1>0, <3>1
      <4>2. g[s] = h[s]
        BY <2>5, <4>1
      <4> QED
        BY <2>1, <3>1, <4>1, <4>2
    <3>2. CASE s # {}
      <4> DEFINE t == s \ {pick[s]}
      <4>1. t \in SUBSET D /\ Cardinality(t) <= m
        BY <1>0, <2>2, <2>6, <3>2
      <4>2. g[t] = h[t]
        BY <2>5, <4>1
      <4>3. g[s] = c[<<pick[s], h[t]>>]
        BY <2>1, <2>5, <3>2
      <4> QED
        BY <3>2, <4>2, <4>3
    <3> QED
      BY <3>1, <3>2
  <2>7. UpTo(g, m + 1)
    BY <2>6
  <2> QED
    BY <2>7
<1> HIDE DEF UpTo
<1>3. Bad = {}
  <2> SUFFICES ASSUME Bad # {} PROVE FALSE
    OBVIOUS
  <2>1. Bad \subseteq Nat
    OBVIOUS
  <2> HIDE DEF Bad
  <2>2. PICK b \in Bad : \A m \in Bad : b <= m
    BY <2>1, LeastOf
  <2>3. b - 1 \in Nat /\ b - 1 \notin Bad /\ (b - 1) + 1 = b
    BY <1>1, <2>1, <2>2
  <2> QED
    BY <1>2, <2>3
<1>4. PICK g : UpTo(g, Cardinality(D))
  BY <1>3, <1>a
<1> DEFINE k == [s \in SUBSET D |-> g[s]]
<1>5. ASSUME NEW s \in SUBSET D
      PROVE  k[s] = IF s = {} THEN base ELSE c[<<pick[s], k[s \ {pick[s]}]>>]
  <2>1. g[s] = IF s = {} THEN base ELSE c[<<pick[s], g[s \ {pick[s]}]>>]
    BY <1>0, <1>4 DEF UpTo
  <2>2. k[s] = g[s] /\ k[s \ {pick[s]}] = g[s \ {pick[s]}]
    OBVIOUS
  <2> QED
    BY <2>1, <2>2
<1>6. k = [s \in SUBSET D |-> k[s]]
  OBVIOUS
<1> HIDE DEF k
<1>7. Folded(D, pick, base, c, k)
  BY <1>5, <1>6 DEF Folded
<1> QED
  BY <1>7

\* What holds of the beginning of a fold, and is kept by each of its steps,
\* holds throughout.
LEMMA FoldKeeps ==
  ASSUME NEW D, IsFiniteSet(D), NEW pick, \A s \in SUBSET D : s # {} => pick[s] \in s,
         NEW V, NEW g, g[{}] \in V[{}],
         \A s \in SUBSET D : s # {} /\ g[s \ {pick[s]}] \in V[s \ {pick[s]}] => g[s] \in V[s]
  PROVE  \A s \in SUBSET D : g[s] \in V[s]
<1> DEFINE Bad == {s \in SUBSET D : g[s] \notin V[s]}
<1>1. Bad = {}
  <2> SUFFICES ASSUME Bad # {} PROVE FALSE
    OBVIOUS
  <2>1. PICK s \in Bad : \A t \in Bad : t \subseteq s => t = s
    <3>1. Bad \in SUBSET (SUBSET D)
      OBVIOUS
    <3> HIDE DEF Bad
    <3> QED
      BY <3>1, SmallestOf
  <2>2. s # {} /\ s \in SUBSET D
    BY <2>1
  <2>3. pick[s] \in s
    BY <2>2
  <2>4. s \ {pick[s]} \notin Bad /\ s \ {pick[s]} \in SUBSET D
    BY <2>1, <2>3
  <2>5. g[s \ {pick[s]}] \in V[s \ {pick[s]}]
    BY <2>4
  <2>6. g[s] \in V[s]
    BY <2>2, <2>5
  <2> QED
    BY <2>1, <2>6
<1> QED
  BY <1>1

-----------------------------------------------------------------------------
(* AddsTo.                                                                   *)

\* k is the sum of f over every subset of D.
AddsTo(f, D, k) ==
  k = [s \in SUBSET D |-> IF s = {} THEN 0 ELSE f[First(s)] + k[s \ {First(s)}]]

LEMMA SumsExist ==
  ASSUME NEW D, IsFiniteSet(D), NEW f, \A x \in D : f[x] \in Nat
  PROVE  /\ AddsTo(f, D, CHOOSE k : AddsTo(f, D, k))
         /\ \A s \in SUBSET D : (CHOOSE k : AddsTo(f, D, k))[s] \in Nat
<1> DEFINE pick == [s \in SUBSET D |-> First(s)]
           c == [p \in D \X Nat |-> f[p[1]] + p[2]]
           V == [s \in SUBSET D |-> Nat]
<1>1. \A s \in SUBSET D : pick[s] = First(s) /\ (s # {} => pick[s] \in s /\ pick[s] \in D)
  BY DEF First
<1>2. \A x \in D : \A n \in Nat : c[<<x, n>>] = f[x] + n /\ c[<<x, n>>] \in Nat
  OBVIOUS
<1>3. \A s \in SUBSET D : V[s] = Nat
  OBVIOUS
<1> HIDE DEF pick, c, V
<1>4. PICK g : Folded(D, pick, 0, c, g)
  BY <1>1, FoldExists
<1>5. \A s \in SUBSET D : g[s] = IF s = {} THEN 0 ELSE c[<<pick[s], g[s \ {pick[s]}]>>]
  BY <1>4 DEF Folded
<1>6. \A s \in SUBSET D : g[s] \in V[s]
  <2>1. g[{}] \in V[{}]
    <3>1. {} \in SUBSET D
      OBVIOUS
    <3> QED
      BY <1>3, <1>5, <3>1
  <2>2. ASSUME NEW s \in SUBSET D, s # {}, g[s \ {pick[s]}] \in V[s \ {pick[s]}]
        PROVE  g[s] \in V[s]
    <3>1. g[s \ {pick[s]}] \in Nat /\ pick[s] \in D
      BY <1>1, <1>3, <2>2
    <3>2. c[<<pick[s], g[s \ {pick[s]}]>>] \in Nat
      BY <1>2, <3>1
    <3>3. g[s] = c[<<pick[s], g[s \ {pick[s]}]>>]
      BY <1>5, <2>2
    <3> QED
      BY <1>3, <3>2, <3>3
  <2> QED
    BY <1>1, <2>1, <2>2, FoldKeeps
<1>7. AddsTo(f, D, g)
  <2>1. ASSUME NEW s \in SUBSET D, s # {} PROVE g[s] = f[First(s)] + g[s \ {First(s)}]
    <3>1. g[s \ {pick[s]}] \in Nat /\ pick[s] \in D /\ pick[s] = First(s)
      BY <1>1, <1>3, <1>6, <2>1
    <3> QED
      BY <1>2, <1>5, <2>1, <3>1
  <2>2. g = [s \in SUBSET D |-> g[s]]
    BY <1>4 DEF Folded
  <2>3. g[{}] = 0
    BY <1>5
  <2> QED
    BY <2>1, <2>2, <2>3 DEF AddsTo
<1> DEFINE k == CHOOSE h : AddsTo(f, D, h)
<1>8. AddsTo(f, D, k)
  BY <1>7
<1> HIDE DEF k
<1>9. /\ k[{}] = 0
      /\ \A s \in SUBSET D : s # {} => k[s] = f[First(s)] + k[s \ {First(s)}]
  BY <1>8 DEF AddsTo
<1>10. \A s \in SUBSET D : k[s] \in V[s]
  <2>1. k[{}] \in V[{}]
    BY <1>3, <1>9
  <2>2. ASSUME NEW s \in SUBSET D, s # {}, k[s \ {pick[s]}] \in V[s \ {pick[s]}]
        PROVE  k[s] \in V[s]
    <3>1. k[s \ {pick[s]}] \in Nat /\ pick[s] \in D /\ pick[s] = First(s)
      BY <1>1, <1>3, <2>2
    <3>2. f[First(s)] + k[s \ {First(s)}] \in Nat
      BY <3>1
    <3> QED
      BY <1>3, <1>9, <2>2, <3>2
  <2> QED
    BY <1>1, <2>1, <2>2, FoldKeeps
<1> QED
  BY <1>3, <1>8, <1>10 DEF k

\* The sum of f over s.
Sum(f, s) == SumOf([x \in s |-> f[x]])

\* However it is come by.
LEMMA SumPart ==
  ASSUME NEW D, IsFiniteSet(D), NEW f, \A x \in D : f[x] \in Nat, NEW k, AddsTo(f, D, k),
         NEW s \in SUBSET D
  PROVE  Sum(f, s) = k[s]
<1> DEFINE part == [x \in s |-> f[x]]
           h == CHOOSE z : AddsTo(part, s, z)
<1>1. Sum(f, s) = h[s]
  <2>1. DOMAIN part = s
    OBVIOUS
  <2> QED
    BY <2>1 DEF Sum, SumOf, FoldFunction, FoldFunctionOnSet, MapThenFoldSet, AddsTo, First
<1>2. IsFiniteSet(s) /\ \A x \in s : part[x] = f[x] /\ part[x] \in Nat
  BY FS_Subset
<1> HIDE DEF part
<1>3. AddsTo(part, s, h)
  BY <1>2, SumsExist
<1> HIDE DEF h
<1> DEFINE Bad == {t \in SUBSET s : h[t] # k[t]}
<1>4. Bad = {}
  <2> SUFFICES ASSUME Bad # {} PROVE FALSE
    OBVIOUS
  <2>1. PICK t \in Bad : \A u \in Bad : u \subseteq t => u = t
    <3>1. Bad \in SUBSET (SUBSET s)
      OBVIOUS
    <3> HIDE DEF Bad
    <3> QED
      BY <1>2, <3>1, SmallestOf
  <2>2. t \in SUBSET s /\ t \in SUBSET D /\ h[t] # k[t]
    OBVIOUS
  <2>3. /\ h[t] = IF t = {} THEN 0 ELSE part[First(t)] + h[t \ {First(t)}]
        /\ k[t] = IF t = {} THEN 0 ELSE f[First(t)] + k[t \ {First(t)}]
    BY <1>3, <2>2 DEF AddsTo
  <2>4. t # {}
    BY <2>2, <2>3
  <2>5. First(t) \in t
    BY <2>4 DEF First
  <2>6. t \ {First(t)} \notin Bad /\ t \ {First(t)} \in SUBSET s
    BY <2>1, <2>2, <2>5
  <2>7. h[t \ {First(t)}] = k[t \ {First(t)}] /\ part[First(t)] = f[First(t)]
    BY <1>2, <2>2, <2>5, <2>6
  <2> QED
    BY <2>2, <2>3, <2>4, <2>7
<1> QED
  BY <1>1, <1>4

\* A sum of naturals is one, and any element may be taken first.
LEMMA SumAny ==
  ASSUME NEW D, IsFiniteSet(D), NEW f, \A x \in D : f[x] \in Nat
  PROVE  /\ Sum(f, D) \in Nat
         /\ Sum(f, {}) = 0
         /\ \A y \in D : Sum(f, D) = f[y] + Sum(f, D \ {y})
<1> DEFINE k == CHOOSE z : AddsTo(f, D, z)
<1>1. AddsTo(f, D, k) /\ \A s \in SUBSET D : k[s] \in Nat
  BY SumsExist
<1> HIDE DEF k
<1>2. \A s \in SUBSET D : /\ Sum(f, s) = k[s] /\ k[s] \in Nat
                          /\ k[s] = IF s = {} THEN 0 ELSE f[First(s)] + k[s \ {First(s)}]
  <2> TAKE s \in SUBSET D
  <2>1. Sum(f, s) = k[s]
    BY <1>1, SumPart
  <2>2. k[s] = IF s = {} THEN 0 ELSE f[First(s)] + k[s \ {First(s)}]
    BY <1>1 DEF AddsTo
  <2> QED
    BY <1>1, <2>1, <2>2
<1> DEFINE Bad == {t \in SUBSET D : \E x \in t : k[t] # f[x] + k[t \ {x}]}
<1>3. Bad = {}
  <2> SUFFICES ASSUME Bad # {} PROVE FALSE
    OBVIOUS
  <2>1. PICK t \in Bad : \A u \in Bad : u \subseteq t => u = t
    <3>1. Bad \in SUBSET (SUBSET D)
      OBVIOUS
    <3> HIDE DEF Bad
    <3> QED
      BY <3>1, SmallestOf
  <2>2. PICK x \in t : k[t] # f[x] + k[t \ {x}]
    BY <2>1
  <2> DEFINE y == First(t)
  <2>4. y \in t /\ k[t] = f[y] + k[t \ {y}] /\ t \in SUBSET D
    BY <1>2, <2>2 DEF First
  <2>5. y # x
    BY <2>2, <2>4
  <2> HIDE DEF y
  <2>6. t \ {y} \notin Bad /\ t \ {x} \notin Bad
    BY <2>1, <2>2, <2>4
  <2>7. x \in t \ {y} /\ y \in t \ {x} /\ t \ {y} \in SUBSET D /\ t \ {x} \in SUBSET D
    BY <2>2, <2>4, <2>5
  <2>8. /\ k[t \ {y}] = f[x] + k[(t \ {y}) \ {x}]
        /\ k[t \ {x}] = f[y] + k[(t \ {x}) \ {y}]
    BY <2>6, <2>7
  <2>9. (t \ {y}) \ {x} = (t \ {x}) \ {y} /\ (t \ {x}) \ {y} \in SUBSET D
    BY <2>4
  <2>10. f[x] \in Nat /\ f[y] \in Nat /\ k[(t \ {x}) \ {y}] \in Nat
    BY <1>2, <2>2, <2>4, <2>9
  <2> HIDE DEF Bad
  <2>11. /\ k[t] = f[y] + (f[x] + k[(t \ {x}) \ {y}])
         /\ f[x] + k[t \ {x}] = f[x] + (f[y] + k[(t \ {x}) \ {y}])
    BY <2>4, <2>8, <2>9
  <2> QED
    BY <2>2, <2>10, <2>11
<1>4. D \in SUBSET D /\ {} \in SUBSET D /\ \A y \in D : D \ {y} \in SUBSET D
  OBVIOUS
<1>5. \A y \in D : k[D] = f[y] + k[D \ {y}]
  BY <1>3, <1>4
<1> QED
  BY <1>2, <1>4, <1>5

\* A sum with one more.
LEMMA SumMore ==
  ASSUME NEW s, IsFiniteSet(s), NEW f, NEW y, y \notin s, \A x \in s \cup {y} : f[x] \in Nat
  PROVE  Sum(f, s \cup {y}) = f[y] + Sum(f, s) /\ Sum(f, s) \in Nat
<1>1. IsFiniteSet(s \cup {y}) /\ (s \cup {y}) \ {y} = s
  BY FS_AddElement
<1>2. y \in s \cup {y}
  OBVIOUS
<1>3. Sum(f, s \cup {y}) = f[y] + Sum(f, (s \cup {y}) \ {y})
  BY <1>1, <1>2, SumAny
<1> QED
  BY <1>1, <1>3, SumAny

\* The sum of a header's sizes.
LEMMA SumNat ==
  ASSUME NEW sizes, IsFiniteSet(DOMAIN sizes), \A x \in DOMAIN sizes : sizes[x] \in Nat,
         sizes = [x \in DOMAIN sizes |-> sizes[x]]
  PROVE  SumOf(sizes) \in Nat
<1>1. SumOf(sizes) = Sum(sizes, DOMAIN sizes)
  BY DEF Sum
<1> QED
  BY <1>1, SumAny

\* The elements of a tensor of these dimensions.
Product(dims) == FoldSeq(LAMBDA d, n : d * n, 1, dims)

\* A product of naturals is one.
LEMMA ProductNat ==
  ASSUME NEW dims, IsFiniteSet(DOMAIN dims), \A x \in DOMAIN dims : dims[x] \in Nat
  PROVE  Product(dims) \in Nat
<1> DEFINE D == DOMAIN dims
           pick == [s \in SUBSET D |-> First(s)]
           c == [p \in D \X Nat |-> dims[p[1]] * p[2]]
           V == [s \in SUBSET D |-> Nat]
           Products(g) == g = [s \in SUBSET D |-> IF s = {} THEN 1
                                                  ELSE dims[First(s)] * g[s \ {First(s)}]]
<1>0. \A a, b \in Nat : a * b \in Nat
  OBVIOUS
<1>1. \A s \in SUBSET D : pick[s] = First(s) /\ (s # {} => pick[s] \in s /\ pick[s] \in D)
  BY DEF First
<1>2. \A x \in D : \A n \in Nat : c[<<x, n>>] = dims[x] * n /\ c[<<x, n>>] \in Nat
  BY <1>0
<1>3. \A s \in SUBSET D : V[s] = Nat
  OBVIOUS
<1> HIDE DEF pick, c, V
<1>4. PICK g : Folded(D, pick, 1, c, g)
  BY <1>1, FoldExists
<1>5. \A s \in SUBSET D : g[s] = IF s = {} THEN 1 ELSE c[<<pick[s], g[s \ {pick[s]}]>>]
  BY <1>4 DEF Folded
<1>6. \A s \in SUBSET D : g[s] \in V[s]
  <2>1. g[{}] \in V[{}]
    <3>1. {} \in SUBSET D
      OBVIOUS
    <3> QED
      BY <1>3, <1>5, <3>1
  <2>2. ASSUME NEW s \in SUBSET D, s # {}, g[s \ {pick[s]}] \in V[s \ {pick[s]}]
        PROVE  g[s] \in V[s]
    <3>1. g[s \ {pick[s]}] \in Nat /\ pick[s] \in D
      BY <1>1, <1>3, <2>2
    <3>2. c[<<pick[s], g[s \ {pick[s]}]>>] \in Nat
      BY <1>2, <3>1
    <3>3. g[s] = c[<<pick[s], g[s \ {pick[s]}]>>]
      BY <1>5, <2>2
    <3> QED
      BY <1>3, <3>2, <3>3
  <2> QED
    BY <1>1, <2>1, <2>2, FoldKeeps
<1>7. Products(g)
  <2>1. ASSUME NEW s \in SUBSET D, s # {} PROVE g[s] = dims[First(s)] * g[s \ {First(s)}]
    <3>1. g[s \ {pick[s]}] \in Nat /\ pick[s] \in D /\ pick[s] = First(s)
      BY <1>1, <1>3, <1>6, <2>1
    <3> QED
      BY <1>2, <1>5, <2>1, <3>1
  <2>2. g = [s \in SUBSET D |-> g[s]]
    BY <1>4 DEF Folded
  <2>3. g[{}] = 1
    BY <1>5
  <2> QED
    BY <2>1, <2>2, <2>3
<1> DEFINE k == CHOOSE h : Products(h)
<1>8. Products(k)
  BY <1>7
<1>9. Product(dims) = k[D]
  BY DEF Product, FoldSeq, FoldFunction, FoldFunctionOnSet, MapThenFoldSet, First
<1> HIDE DEF k
<1>10. /\ k[{}] = 1
       /\ \A s \in SUBSET D : s # {} => k[s] = dims[First(s)] * k[s \ {First(s)}]
  BY <1>8
<1>11. \A s \in SUBSET D : k[s] \in V[s]
  <2>1. k[{}] \in V[{}]
    BY <1>3, <1>10
  <2>2. ASSUME NEW s \in SUBSET D, s # {}, k[s \ {pick[s]}] \in V[s \ {pick[s]}]
        PROVE  k[s] \in V[s]
    <3>1. k[s \ {pick[s]}] \in Nat /\ pick[s] \in D /\ pick[s] = First(s)
      BY <1>1, <1>3, <2>2
    <3>2. dims[First(s)] * k[s \ {First(s)}] \in Nat
      BY <1>0, <3>1
    <3> QED
      BY <1>3, <1>10, <2>2, <3>2
  <2> QED
    BY <1>1, <2>1, <2>2, FoldKeeps
<1> QED
  BY <1>3, <1>9, <1>11

-----------------------------------------------------------------------------
(* Headers.                                                                *)

\* h has what is in a value down to depth n.
Layered(value, n, h) ==
  h = [d \in 0..n |-> IF d = 0 THEN [name \in {<<>>} |-> value] ELSE Inside(h[d - 1])]

LEMMA LayersExist ==
  ASSUME NEW value, NEW n \in Nat
  PROVE  \E h : Layered(value, n, h)
<1> DEFINE Bad == {m \in Nat : ~ \E h : Layered(value, m, h)}
<1> SUFFICES ASSUME Bad # {} PROVE FALSE
  OBVIOUS
<1>1. Bad \subseteq Nat
  OBVIOUS
<1>2. PICK b \in Bad : \A m \in Bad : b <= m
  <2> HIDE DEF Bad
  <2> QED
    BY <1>1, LeastOf
<1>3. b # 0
  <2> DEFINE h == [d \in 0..0 |-> [name \in {<<>>} |-> value]]
  <2>1. Layered(value, 0, h)
    BY DEF Layered
  <2> QED
    BY <2>1
<1>4. b \in Nat /\ b - 1 \in Nat /\ b - 1 \notin Bad
  BY <1>2, <1>3
<1>5. PICK h : Layered(value, b - 1, h)
  BY <1>4
<1> DEFINE I(d) == IF d = 0 THEN [name \in {<<>>} |-> value] ELSE Inside(h[d - 1])
           k == [d \in 0..b |-> I(d)]
<1>6. h = [d \in 0..(b - 1) |-> I(d)]
  BY <1>5 DEF Layered
<1>7. \A d \in 0..(b - 1) : h[d] = I(d)
  <2> HIDE DEF I
  <2> QED
    BY <1>6
<1>8. \A d \in 0..b : k[d] = I(d)
  <2> HIDE DEF I
  <2> QED
    OBVIOUS
<1>9. \A d \in 0..b : d # 0 => k[d - 1] = h[d - 1]
  BY <1>4, <1>7, <1>8
<1>10. \A d \in 0..b : k[d] = IF d = 0 THEN [name \in {<<>>} |-> value] ELSE Inside(k[d - 1])
  BY <1>8, <1>9
<1>11. k = [d \in 0..b |-> k[d]]
  OBVIOUS
<1> HIDE DEF k
<1>12. Layered(value, b, k)
  BY <1>10, <1>11 DEF Layered
<1> QED
  BY <1>2, <1>12

LEMMA ByDepthIs ==
  ASSUME NEW value
  PROVE  /\ ByDepth(value)[0] = [name \in {<<>>} |-> value]
         /\ \A d \in 1..(Deepest + 1) : ByDepth(value)[d] = Inside(ByDepth(value)[d - 1])
<1> DEFINE h == CHOOSE k : Layered(value, Deepest + 1, k)
<1>0. Deepest + 1 \in Nat
  BY DEF Deepest
<1>1. Layered(value, Deepest + 1, h)
  BY <1>0, LayersExist
<1>2. ByDepth(value) = h
  BY DEF ByDepth, Layered
<1> HIDE DEF h
<1> DEFINE I(d) == IF d = 0 THEN [name \in {<<>>} |-> value] ELSE Inside(h[d - 1])
<1>3. h = [d \in 0..(Deepest + 1) |-> I(d)]
  BY <1>1 DEF Layered
<1>4. \A d \in 0..(Deepest + 1) : h[d] = I(d)
  <2> HIDE DEF I
  <2> QED
    BY <1>3
<1>5. 0 \in 0..(Deepest + 1) /\ \A d \in 1..(Deepest + 1) : d \in 0..(Deepest + 1) /\ d # 0
  BY <1>0
<1> QED
  BY <1>2, <1>4, <1>5

\* There are finitely many values in a value, at every depth.
LEMMA DepthsFinite ==
  ASSUME NEW value, \A d \in 0..Deepest : \A v \in Range(ByDepth(value)[d]) : ValueOK(v),
         NEW d \in 0..Deepest
  PROVE  IsFiniteSet(DOMAIN ByDepth(value)[d])
<1> DEFINE Bad == {m \in 0..Deepest : ~IsFiniteSet(DOMAIN ByDepth(value)[m])}
<1> SUFFICES ASSUME Bad # {} PROVE FALSE
  OBVIOUS
<1>0. Deepest \in Nat
  BY DEF Deepest
<1>1. Bad \subseteq Nat
  BY <1>0
<1>2. PICK b \in Bad : \A m \in Bad : b <= m
  <2> HIDE DEF Bad
  <2> QED
    BY <1>1, LeastOf
<1>3. b # 0
  <2>1. DOMAIN ByDepth(value)[0] = {<<>>}
    BY ByDepthIs
  <2>2. IsFiniteSet({<<>>})
    BY FS_Singleton
  <2> QED
    BY <1>2, <2>1, <2>2
<1>4. b \in 1..(Deepest + 1) /\ b - 1 \in 0..Deepest /\ b - 1 \notin Bad
  BY <1>0, <1>2, <1>3
<1> DEFINE outer == ByDepth(value)[b - 1]
           Named(of) == {of} \X DOMAIN Items(outer[of])
           names == UNION {Named(of) : of \in DOMAIN outer}
<1>5. IsFiniteSet(DOMAIN outer)
  BY <1>4
<1>6. DOMAIN ByDepth(value)[b] = names
  <2>1. ByDepth(value)[b] = Inside(outer)
    BY <1>4, ByDepthIs
  <2>2. DOMAIN Inside(outer) = names
    <3> HIDE DEF outer
    <3> QED
      BY DEF Inside
  <2> QED
    BY <2>1, <2>2
<1>7. ASSUME NEW of \in DOMAIN outer PROVE IsFiniteSet(Named(of))
  <2>1. ValueOK(outer[of])
    <3>1. outer[of] \in Range(outer)
      BY DEF Range
    <3> QED
      BY <1>4, <3>1
  <2> DEFINE items == Items(outer[of])
  <2>2. items \in Seq(Range(items))
    <3>1. CASE outer[of].type = "array"
      BY <2>1, <3>1 DEF Items, ValueOK
    <3>2. CASE outer[of].type # "array"
      <4>1. items = <<>>
        BY <3>2 DEF Items
      <4> QED
        BY <4>1
    <3> QED
      BY <3>1, <3>2
  <2>3. DOMAIN items = 1..Len(items) /\ Len(items) \in Nat
    <3> HIDE DEF items
    <3> QED
      BY <2>2
  <2>4. IsFiniteSet(DOMAIN items)
    BY <2>3, FS_Interval
  <2> HIDE DEF items, outer
  <2>5. IsFiniteSet({of})
    BY FS_Singleton
  <2> QED
    BY <2>4, <2>5, FS_Product DEF items
<1> HIDE DEF outer, Named
<1>8. IsFiniteSet(names)
  <2> DEFINE D == DOMAIN outer
             F == {Named(of) : of \in D}
  <2>1. IsFiniteSet(F)
    <3>1. IsFiniteSet(D)
      BY <1>5
    <3> DEFINE f == [of \in D |-> Named(of)]
    <3> HIDE DEF D
    <3>2. f \in Surjection(D, F)
      BY DEF Surjection
    <3> HIDE DEF f, F
    <3> QED
      BY <3>1, <3>2, FS_Surjection
  <2>2. \A S \in F : IsFiniteSet(S)
    BY <1>7
  <2> HIDE DEF F
  <2>3. IsFiniteSet(UNION F)
    BY <2>1, <2>2, FS_UNION
  <2> QED
    BY <2>3 DEF F
<1> QED
  BY <1>2, <1>6, <1>8

\* What a value takes in the file is a number of bytes.
LEMMA ValueBytesNat ==
  ASSUME NEW value, \A d \in 0..Deepest : \A v \in Range(ByDepth(value)[d]) : ValueOK(v)
  PROVE  ValueBytes(value) \in Nat
<1> DEFINE Sizes(part) == [name \in DOMAIN part |-> OwnSize(part[name])]
           all == [d \in 0..Deepest |-> SumOf(Sizes(ByDepth(value)[d]))]
<1>1. ASSUME NEW v, ValueOK(v) PROVE OwnSize(v) \in Nat
  <2>1. CASE v.type \in {"string", "pair"}
    BY <1>1, <2>1 DEF ValueOK, OwnSize, StringBytes
  <2>2. CASE v.type = "array"
    BY <2>2 DEF OwnSize
  <2>3. CASE v.type \in DOMAIN Width
    BY <2>3 DEF OwnSize, Width
  <2> QED
    BY <1>1, <2>1, <2>2, <2>3 DEF ValueOK
<1>2. ASSUME NEW d \in 0..Deepest PROVE SumOf(Sizes(ByDepth(value)[d])) \in Nat
  <2> DEFINE part == ByDepth(value)[d]
  <2>1. IsFiniteSet(DOMAIN part)
    BY DepthsFinite
  <2>2. \A name \in DOMAIN part : ValueOK(part[name])
    BY DEF Range
  <2> HIDE DEF part
  <2>3. \A name \in DOMAIN Sizes(part) : Sizes(part)[name] \in Nat
    BY <1>1, <2>2
  <2>4. DOMAIN Sizes(part) = DOMAIN part
        /\ Sizes(part) = [name \in DOMAIN Sizes(part) |-> Sizes(part)[name]]
    OBVIOUS
  <2> HIDE DEF Sizes
  <2> QED
    BY <2>1, <2>3, <2>4, SumNat DEF part
<1>3. ValueBytes(value) = SumOf(all)
  BY DEF ValueBytes
<1> HIDE DEF Sizes
<1>4. /\ DOMAIN all = 0..Deepest /\ all = [d \in DOMAIN all |-> all[d]]
      /\ \A d \in DOMAIN all : all[d] \in Nat
  BY <1>2
<1>5. IsFiniteSet(0..Deepest)
  <2>1. 0 \in Int /\ Deepest \in Int
    BY DEF Deepest
  <2> QED
    BY <2>1, FS_Interval
<1> HIDE DEF all
<1>6. SumOf(all) \in Nat
  BY <1>4, <1>5, SumNat
<1> QED
  BY <1>3, <1>6

\* A header that was read: values of their types, tensors with natural
\* dimensions and offsets, and data that begins somewhere.
HeaderOK(g) ==
  /\ g.length \in Nat /\ g.data \in Nat
  /\ g.tensors \in Seq(Range(g.tensors))
  /\ \A t \in Range(g.tensors) : t.dims \in Seq(Nat) /\ t.offset \in Nat
  /\ \A key \in DOMAIN g.metadata : ValueOK(g.metadata[key])

\* The least multiple of b that is not less than a, as Parse aligns.
LEMMA AlignedNat ==
  ASSUME NEW a \in Nat, NEW b \in Nat, b # 0
  PROVE  b * ((a + b - 1) \div b) \in Nat
<1>1. (a + b - 1) \div b \in Nat
  <2>1. a + b - 1 \in Nat /\ b > 0
    OBVIOUS
  <2>2. \A x \in Nat : \A y \in Nat : y > 0 => x \div y \in Nat
    OBVIOUS
  <2> QED
    BY <2>1, <2>2
<1>2. \A m, n \in Nat : m * n \in Nat
  OBVIOUS
<1> QED
  BY <1>1, <1>2

\* Gguf::parse gives a header.
LEMMA ParseType ==
  ASSUME NEW f, FileOK(f)
  PROVE  HeaderOK(Parse(f))
<1> DEFINE entries == [i \in DOMAIN f.kvs |-> EntryBytes(f.kvs[i])]
           descriptors == [i \in DOMAIN f.tensors |-> DescriptorBytes(f.tensors[i])]
           header == 24 + SumOf(entries) + SumOf(descriptors)
           At(key) == {i \in DOMAIN f.kvs : f.kvs[i].key = key}
           metadata == [key \in {kv.key : kv \in ToSet(f.kvs)} |-> f.kvs[Max(At(key))].value]
           declared == IF "general.alignment" \in DOMAIN metadata
                       THEN metadata["general.alignment"] ELSE [type |-> "u32", v |-> 32]
           alignment == IF IsInt(declared) THEN declared.v ELSE 32
<1>1. /\ DOMAIN f.kvs = 1..Len(f.kvs) /\ Len(f.kvs) \in Nat
      /\ DOMAIN f.tensors = 1..Len(f.tensors) /\ Len(f.tensors) \in Nat
  BY DEF FileOK
<1>2. /\ \A i \in DOMAIN f.kvs : f.kvs[i] \in Range(f.kvs)
      /\ \A i \in DOMAIN f.tensors : f.tensors[i] \in Range(f.tensors)
  BY DEF Range
<1>3. ASSUME NEW kv \in Range(f.kvs) PROVE EntryBytes(kv) \in Nat /\ ValueOK(kv.value)
  <2>1. \A d \in 0..Deepest : \A v \in Range(ByDepth(kv.value)[d]) : ValueOK(v)
    BY DEF FileOK
  <2>2. ValueBytes(kv.value) \in Nat
    BY <2>1, ValueBytesNat
  <2>3. kv.value \in Range(ByDepth(kv.value)[0])
    <3> DEFINE top == ByDepth(kv.value)[0]
    <3>1. top = [name \in {<<>>} |-> kv.value]
      BY ByDepthIs
    <3> HIDE DEF top
    <3>2. <<>> \in DOMAIN top /\ top[<<>>] = kv.value
      BY <3>1
    <3>3. kv.value \in Range(top)
      BY <3>2 DEF Range
    <3> QED
      BY <3>3 DEF top
  <2>4. 0 \in 0..Deepest
    BY DEF Deepest
  <2>5. kv.bytes \in Nat
    BY DEF FileOK
  <2> QED
    BY <2>1, <2>2, <2>3, <2>4, <2>5 DEF EntryBytes, StringBytes
<1>4. ASSUME NEW t \in Range(f.tensors) PROVE DescriptorBytes(t) \in Nat
  <2>1. t.bytes \in Nat /\ t.dims \in Seq(Nat)
    BY DEF FileOK
  <2> QED
    BY <2>1 DEF DescriptorBytes, StringBytes
<1>5. header \in Nat
  <2>1. IsFiniteSet(DOMAIN f.kvs) /\ IsFiniteSet(DOMAIN f.tensors)
    BY <1>1, FS_Interval
  <2>2. /\ DOMAIN entries = DOMAIN f.kvs /\ entries = [i \in DOMAIN entries |-> entries[i]]
        /\ \A i \in DOMAIN entries : entries[i] \in Nat
    BY <1>2, <1>3
  <2>3. /\ DOMAIN descriptors = DOMAIN f.tensors
        /\ descriptors = [i \in DOMAIN descriptors |-> descriptors[i]]
        /\ \A i \in DOMAIN descriptors : descriptors[i] \in Nat
    BY <1>2, <1>4
  <2> HIDE DEF entries, descriptors
  <2>4. SumOf(entries) \in Nat
    BY <2>1, <2>2, SumNat
  <2>5. SumOf(descriptors) \in Nat
    BY <2>1, <2>3, SumNat
  <2> QED
    BY <2>4, <2>5
<1>6. ASSUME NEW key \in DOMAIN metadata PROVE ValueOK(metadata[key])
  <2>1. At(key) # {} /\ At(key) \subseteq DOMAIN f.kvs
    BY DEF ToSet
  <2>2. IsFiniteSet(At(key)) /\ At(key) \subseteq Nat
    <3>1. IsFiniteSet(1..Len(f.kvs))
      BY <1>1, FS_Interval
    <3> HIDE DEF At
    <3> QED
      BY <1>1, <2>1, <3>1, FS_Subset
  <2>3. Max(At(key)) \in At(key)
    <3> HIDE DEF At
    <3> QED
      BY <2>1, <2>2, GreatestOf
  <2>4. metadata[key] = f.kvs[Max(At(key))].value
    OBVIOUS
  <2> HIDE DEF metadata
  <2>5. Max(At(key)) \in DOMAIN f.kvs
    BY <2>1, <2>3
  <2> QED
    BY <1>2, <1>3, <2>4, <2>5
<1>7. alignment \in Nat
  <2>1. ValueOK(declared)
    <3>1. ValueOK([type |-> "u32", v |-> 32])
      BY DEF ValueOK, Width
    <3> HIDE DEF metadata
    <3> QED
      BY <1>6, <3>1
  <2> HIDE DEF declared
  <2> QED
    BY <2>1 DEF ValueOK, IsInt
<1> HIDE DEF entries, descriptors, At
<1> DEFINE ok == /\ f.magic /\ f.version \in 2..3
                 /\ f.length >= header
                 /\ f.claims.tensors <= (f.length - 24) \div 24
                 /\ f.claims.kvs <= (f.length - 24) \div 13
                 /\ \A kv \in ToSet(f.kvs) : ~TooDeep(kv.value)
                 /\ \A t \in ToSet(f.tensors) : Len(t.dims) <= 4
                 /\ alignment # 0 /\ alignment \in PowersOfTwo
           data == IF ok THEN alignment * ((header + alignment - 1) \div alignment) ELSE 0
<1>8. Parse(f) = [ok |-> ok, metadata |-> metadata, tensors |-> f.tensors,
                  length |-> f.length, data |-> data]
  BY DEF Parse, entries, descriptors, At
<1>9. ok => alignment # 0
  OBVIOUS
<1> HIDE DEF ok, alignment, header, metadata, declared
<1>10. data \in Nat
  BY <1>5, <1>7, <1>9, AlignedNat
<1> HIDE DEF data
<1> DEFINE p == Parse(f)
<1>11. /\ p.metadata = metadata /\ p.tensors = f.tensors /\ p.length = f.length /\ p.data = data
  BY <1>8
<1> HIDE DEF p
<1>12. /\ f.length \in Nat /\ f.tensors \in Seq(Range(f.tensors))
       /\ \A t \in Range(f.tensors) : t.dims \in Seq(Nat) /\ t.offset \in Nat
  BY DEF FileOK
<1>13. HeaderOK(p)
  BY <1>6, <1>10, <1>11, <1>12 DEF HeaderOK
<1> QED
  BY <1>13 DEF p

LEMMA U64Nat ==
  ASSUME NEW g, HeaderOK(g), NEW key, NEW default \in Nat
  PROVE  U64(g, key, default) \in Nat
<1>1. CASE HasInt(g, key)
  <2>1. ValueOK(g.metadata[key]) /\ IsInt(g.metadata[key])
    BY <1>1 DEF HasInt, Has, HeaderOK
  <2>2. g.metadata[key].v \in Nat
    BY <2>1 DEF ValueOK, IsInt
  <2> QED
    BY <1>1, <2>2 DEF U64
<1>2. CASE ~HasInt(g, key)
  BY <1>2 DEF U64
<1> QED
  BY <1>1, <1>2

LEMMA VocabNat ==
  ASSUME NEW g, HeaderOK(g)
  PROVE  Len(Tokens(g)) \in Nat
<1> DEFINE key == "tokenizer.ggml.tokens"
<1>1. CASE IsA(g, key, "array")
  <2>1. ValueOK(g.metadata[key]) /\ g.metadata[key].type = "array"
    BY <1>1 DEF IsA, Has, HeaderOK
  <2>2. g.metadata[key].v \in Seq(Range(g.metadata[key].v))
    BY <2>1 DEF ValueOK
  <2>3. Tokens(g) = g.metadata[key].v
    BY <1>1 DEF Tokens, Arr
  <2> DEFINE items == g.metadata[key].v
  <2> HIDE DEF items
  <2>4. Len(items) \in Nat
    BY <2>2 DEF items
  <2> QED
    BY <2>3, <2>4 DEF items
<1>2. CASE ~IsA(g, key, "array")
  <2>1. Tokens(g) = <<>>
    BY <1>2 DEF Tokens, Arr
  <2> QED
    BY <2>1
<1> QED
  BY <1>1, <1>2

LEMMA TensorNat ==
  ASSUME NEW g, HeaderOK(g), NEW t \in ToSet(g.tensors)
  PROVE  NElements(t) \in Nat /\ StartOf(g, t) \in Nat /\ StartOf(g, t) >= g.data
<1>1. t \in Range(g.tensors)
  BY DEF ToSet, Range
<1>2. t.dims \in Seq(Nat) /\ t.offset \in Nat /\ g.data \in Nat
  BY <1>1 DEF HeaderOK
<1>3. DOMAIN t.dims = 1..Len(t.dims) /\ Len(t.dims) \in Nat /\ \A i \in DOMAIN t.dims : t.dims[i] \in Nat
  BY <1>2, ElementOfSeq
<1>4. IsFiniteSet(DOMAIN t.dims)
  BY <1>3, FS_Interval
<1>5. Product(t.dims) \in Nat
  BY <1>3, <1>4, ProductNat
<1>6. NElements(t) = Product(t.dims)
  BY DEF NElements, Product
<1> QED
  BY <1>2, <1>5, <1>6 DEF StartOf

LEMMA TensorIn ==
  ASSUME NEW g, HeaderOK(g), NEW name, HasTensor(g, name)
  PROVE  TensorOf(g, name) \in ToSet(g.tensors) /\ TensorOf(g, name).name = name
<1> DEFINE s == g.tensors
           Named == {i \in 1..Len(s) : s[i].name = name}
<1>1. DOMAIN s = 1..Len(s) /\ Len(s) \in Nat
  BY DEF HeaderOK
<1>2. Named # {} /\ Named \subseteq Nat
  BY <1>1 DEF HasTensor, ToSet
<1>3. SelectInSeq(s, LAMBDA t : t.name = name) \in Named
  <2> DEFINE k == SelectInSeq(s, LAMBDA t : t.name = name)
  <2>1. k = IF Named # {} THEN Min(Named) ELSE 0
    BY DEF SelectInSeq
  <2> HIDE DEF k, Named
  <2> QED
    BY <1>2, <2>1, LeastOf DEF k
<1>4. TensorOf(g, name) = s[SelectInSeq(s, LAMBDA t : t.name = name)]
  BY DEF TensorOf
<1> QED
  BY <1>1, <1>3, <1>4 DEF ToSet

-----------------------------------------------------------------------------
(* Shapes and what they need.                                              *)

NeedOK(need) == need.rows \in Nat /\ need.cols \in Nat /\ need.norm \in BOOLEAN

\* A need is one of the model's own or of one of its blocks.
Placed(need, layers) ==
  Len(need.name) = 1 \/ (Len(need.name) > 1 /\ need.name[1] \in 0..(layers - 1))

LEMMA WeightOK ==
  ASSUME NEW name, NEW rows \in Nat, NEW cols \in Nat
  PROVE  NeedOK(Weight(name, rows, cols)) /\ Weight(name, rows, cols).name = name
BY DEF NeedOK, Weight

LEMMA NormOK ==
  ASSUME NEW name, NEW n \in Nat
  PROVE  NeedOK(Norm(name, n)) /\ Norm(name, n).name = name
BY DEF NeedOK, Norm

\* The dimensions that LlamaConfig works out are natural.
LlamaShapeOK(c) ==
  /\ c.d \in Nat /\ c.f \in Nat /\ c.layers \in Nat /\ c.kvDim \in Nat
  /\ c.vocab \in Nat /\ c.experts \in Nat

LEMMA LlamaShapeNat ==
  ASSUME NEW g, HeaderOK(g), LlamaConfigures(g)
  PROVE  LlamaShapeOK(LlamaShape(g))
<1> DEFINE heads == U64(g, "attention.head_count", 0)
           kv == U64(g, "attention.head_count_kv", heads)
           d == U64(g, "embedding_length", 0)
           c == LlamaShape(g)
<1>1. heads \in Nat /\ d \in Nat /\ heads # 0
  BY U64Nat DEF LlamaConfigures
<1>2. kv \in Nat
  <2> HIDE DEF heads
  <2> QED
    BY <1>1, U64Nat
<1>3. /\ U64(g, "feed_forward_length", 0) \in Nat /\ U64(g, "block_count", 0) \in Nat
      /\ U64(g, "expert_count", 0) \in Nat
  BY U64Nat
<1>4. /\ c.d = d /\ c.f = U64(g, "feed_forward_length", 0) /\ c.layers = U64(g, "block_count", 0)
      /\ c.kvDim = kv * (d \div heads) /\ c.vocab = Len(Tokens(g))
      /\ c.experts = U64(g, "expert_count", 0)
  BY DEF LlamaShape
<1> HIDE DEF heads, kv, d, c
<1>5. kv * (d \div heads) \in Nat
  <2>1. \A x \in Nat : \A y \in Nat : y # 0 => x \div y \in Nat
    OBVIOUS
  <2>2. \A x, y \in Nat : x * y \in Nat
    OBVIOUS
  <2> QED
    BY <1>1, <1>2, <2>1, <2>2
<1> QED
  BY <1>1, <1>3, <1>4, <1>5, VocabNat DEF LlamaShapeOK, c

LEMMA HeadNeedsOK ==
  ASSUME NEW g, NEW c, c.vocab \in Nat, c.d \in Nat, NEW need \in HeadNeeds(g, c)
  PROVE  NeedOK(need) /\ need.name = <<"output">>
BY WeightOK DEF HeadNeeds

LEMMA FfnNeedsOK ==
  ASSUME NEW g, NEW c, LlamaShapeOK(c), NEW l, NEW need \in FfnNeeds(g, c, l)
  PROVE  NeedOK(need)
<1>0. \A x, y \in Nat : x * y \in Nat
  OBVIOUS
<1>1. /\ c.experts \in Nat /\ c.d \in Nat /\ c.f \in Nat
      /\ c.experts * c.f \in Nat /\ c.experts * c.d \in Nat
  BY <1>0 DEF LlamaShapeOK
<1> DEFINE Is(name, rows, cols) == need = Weight(name, rows, cols)
<1>2. \E name : \E rows, cols \in {c.experts, c.d, c.f, c.experts * c.f, c.experts * c.d} :
        need = Weight(name, rows, cols)
  <2>1. CASE c.experts > 0 /\ HasTensor(g, <<l, "ffn_gate_exps">>)
    BY <2>1 DEF FfnNeeds
  <2>2. CASE /\ ~(c.experts > 0 /\ HasTensor(g, <<l, "ffn_gate_exps">>))
             /\ c.experts > 0 /\ HasTensor(g, <<l, "ffn_gate", 0>>)
    BY <2>2 DEF FfnNeeds
  <2>3. CASE /\ ~(c.experts > 0 /\ HasTensor(g, <<l, "ffn_gate_exps">>))
             /\ ~(c.experts > 0 /\ HasTensor(g, <<l, "ffn_gate", 0>>))
    BY <2>3 DEF FfnNeeds
  <2> QED
    BY <2>1, <2>2, <2>3
<1> QED
  BY <1>1, <1>2, WeightOK

LEMMA LlamaNeedsOK ==
  ASSUME NEW g, HeaderOK(g), LlamaConfigures(g), NEW need \in LlamaNeeds(g, LlamaShape(g))
  PROVE  NeedOK(need)
<1> DEFINE c == LlamaShape(g)
<1>1. LlamaShapeOK(c)
  BY LlamaShapeNat
<1> HIDE DEF c
<1>2. c.d \in Nat /\ c.kvDim \in Nat /\ c.vocab \in Nat
  BY <1>1 DEF LlamaShapeOK
<1>3. need \in LlamaNeeds(g, c)
  BY DEF c
<1>4. CASE need \in {Weight(<<"token_embd">>, c.vocab, c.d), Norm(<<"output_norm">>, c.d)}
  BY <1>2, <1>4, WeightOK, NormOK
<1>5. CASE need \in HeadNeeds(g, c)
  BY <1>2, <1>5, HeadNeedsOK
<1>6. ASSUME NEW l \in 0..(c.layers - 1), need \in FfnNeeds(g, c, l) PROVE NeedOK(need)
  BY <1>1, <1>6, FfnNeedsOK
<1>7. ASSUME NEW l \in 0..(c.layers - 1),
             need \in {Norm(<<l, "attn_norm">>, c.d), Norm(<<l, "ffn_norm">>, c.d),
                 Weight(<<l, "attn_q">>, c.d, c.d), Weight(<<l, "attn_k">>, c.kvDim, c.d),
                 Weight(<<l, "attn_v">>, c.kvDim, c.d), Weight(<<l, "attn_output">>, c.d, c.d)}
      PROVE  NeedOK(need)
  BY <1>2, <1>7, WeightOK, NormOK
<1> QED
  BY <1>3, <1>4, <1>5, <1>6, <1>7 DEF LlamaNeeds

\* The dimensions that Qwen35Config works out are natural.
Qwen35ShapeOK(c) ==
  /\ c.d \in Nat /\ c.f \in Nat /\ c.layers \in Nat /\ c.headDim \in Nat
  /\ c.attnDim \in Nat /\ c.kvDim \in Nat /\ c.kernel \in Nat /\ c.values \in Nat
  /\ c.valueHead \in Nat /\ c.valueDim \in Nat /\ c.convDim \in Nat /\ c.vocab \in Nat

LEMMA Qwen35ShapeNat ==
  ASSUME NEW g, HeaderOK(g), Qwen35Configures(g)
  PROVE  Qwen35ShapeOK(Qwen35Shape(g))
<1> DEFINE N(key) == U64(g, key, 0)
           c == Qwen35Shape(g)
           headDim == N("attention.key_length")
           keyDim == N("ssm.group_count") * N("ssm.state_size")
<1>1. \A key : N(key) \in Nat
  BY U64Nat
<1>2. \A x, y \in Nat : x * y \in Nat
  OBVIOUS
<1>3. /\ c.d = N("embedding_length") /\ c.f = N("feed_forward_length")
      /\ c.layers = N("block_count") - N("nextn_predict_layers") /\ c.headDim = headDim
      /\ c.attnDim = N("attention.head_count") * headDim
      /\ c.kvDim = N("attention.head_count_kv") * headDim
      /\ c.kernel = N("ssm.conv_kernel") /\ c.values = N("ssm.time_step_rank")
      /\ c.valueHead = N("ssm.state_size") /\ c.valueDim = N("ssm.inner_size")
      /\ c.convDim = 2 * keyDim + N("ssm.inner_size") /\ c.vocab = Len(Tokens(g))
  BY DEF Qwen35Shape
<1>4. N("nextn_predict_layers") < N("block_count")
  BY DEF Qwen35Configures
<1> HIDE DEF N, c
<1>a. /\ N("nextn_predict_layers") \in Nat /\ N("block_count") \in Nat
      /\ N("ssm.inner_size") \in Nat
  BY <1>1
<1>5. c.layers \in Nat
  BY <1>a, <1>3, <1>4
<1>6. c.attnDim \in Nat /\ c.kvDim \in Nat /\ keyDim \in Nat
  BY <1>1, <1>2, <1>3
<1> HIDE DEF keyDim
<1>7. c.convDim \in Nat
  BY <1>a, <1>3, <1>6
<1>8. c.vocab \in Nat
  BY <1>3, VocabNat
<1>9. /\ c.d \in Nat /\ c.f \in Nat /\ c.headDim \in Nat /\ c.kernel \in Nat
      /\ c.values \in Nat /\ c.valueHead \in Nat /\ c.valueDim \in Nat
  BY <1>1, <1>3
<1>10. Qwen35ShapeOK(c)
  BY <1>5, <1>6, <1>7, <1>8, <1>9 DEF Qwen35ShapeOK
<1> QED
  BY <1>10 DEF c

LEMMA MixerNeedsOK ==
  ASSUME NEW c, Qwen35ShapeOK(c), NEW l \in 0..(c.layers - 1), NEW need \in MixerNeeds(c, l)
  PROVE  NeedOK(need) /\ Placed(need, c.layers)
<1> DEFINE Sizes == {c.d, c.headDim, 2 * c.attnDim, c.attnDim, c.kvDim, c.convDim, c.valueDim, c.values,
                     c.valueHead, c.convDim * c.kernel}
<1>1. Sizes \subseteq Nat
  <2>1. \A x, y \in Nat : x * y \in Nat
    OBVIOUS
  <2>2. /\ c.d \in Nat /\ c.headDim \in Nat /\ c.attnDim \in Nat /\ c.kvDim \in Nat
        /\ c.convDim \in Nat /\ c.valueDim \in Nat /\ c.values \in Nat /\ c.valueHead \in Nat
        /\ c.kernel \in Nat
    BY DEF Qwen35ShapeOK
  <2>3. 2 * c.attnDim \in Nat /\ c.convDim * c.kernel \in Nat
    BY <2>1, <2>2
  <2> QED
    BY <2>2, <2>3
<1>2. \E name : \E rows \in Sizes : \E cols \in Sizes :
        need \in {Weight(<<l, name>>, rows, cols), Norm(<<l, name>>, rows)}
  <2>1. CASE l \in c.recurrent
    BY <2>1 DEF MixerNeeds
  <2>2. CASE l \notin c.recurrent
    BY <2>2 DEF MixerNeeds
  <2> QED
    BY <2>1, <2>2
<1> HIDE DEF Sizes
<1>a. PICK name : \E rows \in Sizes : \E cols \in Sizes :
        need \in {Weight(<<l, name>>, rows, cols), Norm(<<l, name>>, rows)}
  BY <1>2
<1>3. PICK rows \in Sizes : \E cols \in Sizes :
        need \in {Weight(<<l, name>>, rows, cols), Norm(<<l, name>>, rows)}
  BY <1>a
<1>b. PICK cols \in Sizes :
        need \in {Weight(<<l, name>>, rows, cols), Norm(<<l, name>>, rows)}
  BY <1>3
<1>4. rows \in Nat /\ cols \in Nat
  BY <1>1
<1>5. NeedOK(need) /\ need.name = <<l, name>>
  BY <1>b, <1>4, WeightOK, NormOK
<1> QED
  BY <1>5 DEF Placed

LEMMA Qwen35NeedsOK ==
  ASSUME NEW g, HeaderOK(g), Qwen35Configures(g), NEW need \in Qwen35Needs(g, Qwen35Shape(g))
  PROVE  NeedOK(need) /\ Placed(need, Qwen35Shape(g).layers)
<1> DEFINE c == Qwen35Shape(g)
<1>1. Qwen35ShapeOK(c)
  BY Qwen35ShapeNat
<1> HIDE DEF c
<1>2. c.d \in Nat /\ c.f \in Nat /\ c.vocab \in Nat
  BY <1>1 DEF Qwen35ShapeOK
<1>3. need \in Qwen35Needs(g, c)
  BY DEF c
<1>4. CASE need \in {Weight(<<"token_embd">>, c.vocab, c.d), Norm(<<"output_norm">>, c.d)}
  <2>1. NeedOK(need) /\ need.name \in {<<"token_embd">>, <<"output_norm">>}
    BY <1>2, <1>4, WeightOK, NormOK
  <2> QED
    BY <2>1 DEF Placed, c
<1>5. CASE need \in HeadNeeds(g, c)
  <2>1. NeedOK(need) /\ need.name = <<"output">>
    BY <1>2, <1>5, HeadNeedsOK
  <2> QED
    BY <2>1 DEF Placed, c
<1>6. ASSUME NEW l \in 0..(c.layers - 1), need \in MixerNeeds(c, l)
      PROVE  NeedOK(need) /\ Placed(need, c.layers)
  BY <1>1, <1>6, MixerNeedsOK
<1>7. ASSUME NEW l \in 0..(c.layers - 1),
             need \in {Norm(<<l, "attn_norm">>, c.d), Norm(<<l, "post_attention_norm">>, c.d),
     Weight(<<l, "ffn_gate">>, c.f, c.d), Weight(<<l, "ffn_up">>, c.f, c.d),
     Weight(<<l, "ffn_down">>, c.d, c.f)}
      PROVE  NeedOK(need) /\ Placed(need, c.layers)
  <2>1. NeedOK(need) /\ \E name : need.name = <<l, name>>
    BY <1>2, <1>7, WeightOK, NormOK
  <2> QED
    BY <2>1 DEF Placed
<1>8. NeedOK(need) /\ Placed(need, c.layers)
  BY <1>3, <1>4, <1>5, <1>6, <1>7 DEF Qwen35Needs, BlockNeeds, c
<1> QED
  BY <1>8 DEF c

-----------------------------------------------------------------------------
(* The bytes of a row are among those of its matrix.                       *)

LEMMA TimesMonotone ==
  ASSUME NEW n \in Nat, NEW a \in Nat, NEW b \in Nat, a <= b
  PROVE  n * a <= n * b /\ a * n <= b * n /\ n * a \in Nat
<1>1. PICK d \in Nat : b = a + d
  <2>1. b - a \in Nat /\ b = a + (b - a)
    OBVIOUS
  <2> QED
    BY <2>1
<1>2. n * d \in Nat /\ n * a \in Nat
  OBVIOUS
<1>3. n * b = n * a + n * d
  BY <1>1
<1>4. a * n = n * a /\ b * n = n * b
  OBVIOUS
<1> QED
  BY <1>2, <1>3, <1>4

LEMMA LayoutOK ==
  ASSUME NEW type \in QTypes
  PROVE  BlockLayout[type].elems \in {1, 32, 256} /\ BlockLayout[type].bytes \in Nat
BY DEF QTypes, BlockLayout, QK, QK_K

LEMMA BlocksOfRow ==
  ASSUME NEW e \in {1, 32, 256}, NEW n \in Nat, NEW c \in Nat
  PROVE  /\ c \div e \in Nat /\ (n * c) \div e \in Nat
         /\ n * (c \div e) \in Nat /\ n * (c \div e) <= (n * c) \div e
<1>1. n * c \in Nat
  OBVIOUS
<1>2. c \div e \in Nat /\ e * (c \div e) <= c
  OBVIOUS
<1> DEFINE q == c \div e
           m == n * c
<1>3. q \in Nat /\ e * q <= c /\ e * q \in Nat
  BY <1>2
<1> HIDE DEF q
<1>4. n * (e * q) <= m
  BY <1>3, TimesMonotone
<1>5. n * (e * q) = e * (n * q) /\ n * q \in Nat
  BY <1>3
<1> DEFINE k == n * q
<1>6. k \in Nat /\ e * k <= m
  BY <1>4, <1>5
<1> HIDE DEF k, m
<1>7. m \in Nat
  BY <1>1 DEF m
<1>8. m \div e \in Nat /\ k <= m \div e
  BY <1>6, <1>7
<1> QED
  BY <1>3, <1>6, <1>8 DEF k, m, q

LEMMA BytesNat ==
  ASSUME NEW type \in QTypes, NEW n \in Nat
  PROVE  ByteSize(type, n) \in Nat
<1>1. n \div BlockLayout[type].elems \in Nat
  BY LayoutOK, BlocksOfRow
<1>2. \A x, y \in Nat : x * y \in Nat
  OBVIOUS
<1> QED
  BY <1>1, <1>2, LayoutOK DEF ByteSize

\* Row r of n rows of c elements: where it begins, and where it ends.
LEMMA RowFits ==
  ASSUME NEW type \in QTypes, NEW n \in Nat, NEW c \in Nat, NEW r \in 0..(n - 1)
  PROVE  /\ r * ByteSize(type, c) \in Nat
         /\ r * ByteSize(type, c) + ByteSize(type, c) <= ByteSize(type, n * c)
<1> DEFINE e == BlockLayout[type].elems
           b == BlockLayout[type].bytes
           q == c \div e
           t == (n * c) \div e
<1>1. e \in {1, 32, 256} /\ b \in Nat
  BY LayoutOK
<1> HIDE DEF e, b
<1>2. q \in Nat /\ t \in Nat /\ n * q \in Nat /\ n * q <= t
  BY <1>1, BlocksOfRow
<1> HIDE DEF q, t
<1>3. r \in Nat /\ r + 1 \in Nat /\ r + 1 <= n
  OBVIOUS
<1>4. (r + 1) * q <= n * q /\ (r + 1) * q \in Nat
  BY <1>2, <1>3, TimesMonotone
<1>5. (r + 1) * q <= t
  BY <1>2, <1>4
<1> DEFINE k == (r + 1) * q
<1>6. k * b <= t * b
  <2>1. k \in Nat /\ k <= t
    BY <1>4, <1>5
  <2> HIDE DEF k
  <2> QED
    BY <1>1, <1>2, <2>1, TimesMonotone
<1>7. k * b = r * (q * b) + q * b /\ q * b \in Nat
  BY <1>1, <1>2, <1>3
<1>8. ByteSize(type, c) = q * b /\ ByteSize(type, n * c) = t * b
  BY DEF ByteSize, q, t, e, b
<1>9. r * (q * b) \in Nat
  BY <1>3, <1>7
<1> QED
  BY <1>6, <1>7, <1>8, <1>9

-----------------------------------------------------------------------------
(* The span of a block is around its tensors, and that of the head begins  *)
(* where the head does.                                                    *)

SpanOK(span) == span.start \in Nat /\ span.len \in Nat

SizeOf(t) == IF Sized(t.type, NElements(t)) THEN ByteSize(t.type, NElements(t)) ELSE 0

LEMMA SizeNat ==
  ASSUME NEW g, HeaderOK(g), NEW t \in ToSet(g.tensors)
  PROVE  SizeOf(t) \in Nat
BY TensorNat, BytesNat DEF SizeOf, Sized

LEMMA BlockSpanAround ==
  ASSUME NEW g, HeaderOK(g), NEW l
  PROVE  /\ SpanOK(BlockSpan(g, l))
         /\ \A t \in ToSet(g.tensors) :
              Len(t.name) > 1 /\ t.name[1] = l =>
                /\ BlockSpan(g, l).start <= StartOf(g, t)
                /\ StartOf(g, t) + SizeOf(t) <= BlockSpan(g, l).start + BlockSpan(g, l).len
<1> DEFINE all == ToSet(g.tensors)
           ts == {t \in all : Len(t.name) > 1 /\ t.name[1] = l}
           firsts == {StartOf(g, t) : t \in ts}
           lasts == {StartOf(g, t) + SizeOf(t) : t \in ts}
           first == Min(firsts)
           last == Max(lasts)
<1>1. BlockSpan(g, l) = IF ts = {} THEN NoSpan ELSE [start |-> first, len |-> last - first]
  BY DEF BlockSpan, SizeOf
<1>2. IsFiniteSet(all)
  <2>1. IsFiniteSet(DOMAIN g.tensors)
    <3>1. DOMAIN g.tensors = 1..Len(g.tensors) /\ Len(g.tensors) \in Nat
      BY DEF HeaderOK
    <3>2. IsFiniteSet(1..Len(g.tensors))
      BY <3>1, FS_Interval
    <3> QED
      BY <3>1, <3>2
  <2> DEFINE at == [i \in DOMAIN g.tensors |-> g.tensors[i]]
  <2>2. at \in Surjection(DOMAIN g.tensors, all)
    BY DEF ToSet, Surjection
  <2> QED
    BY <2>1, <2>2, FS_Surjection
<1>3. ts \subseteq all /\ IsFiniteSet(ts)
  BY <1>2, FS_Subset
<1>4. \A t \in all : StartOf(g, t) \in Nat /\ SizeOf(t) \in Nat
  BY TensorNat, SizeNat
<1>5. \A t \in ts : t \in all
  BY <1>3
<1>6. \A t \in all : Len(t.name) > 1 /\ t.name[1] = l => t \in ts
  OBVIOUS
<1> HIDE DEF ts, all
<1>7. CASE ts = {}
  <2>1. SpanOK(BlockSpan(g, l))
    BY <1>1, <1>7 DEF NoSpan, SpanOK
  <2> QED
    BY <1>6, <1>7, <2>1 DEF all
<1>8. CASE ts # {}
  <2>1. firsts \subseteq Nat /\ firsts # {} /\ lasts \subseteq Nat /\ lasts # {}
    BY <1>4, <1>5, <1>8
  <2>2. IsFiniteSet(lasts)
    <3> DEFINE end == [t \in ts |-> StartOf(g, t) + SizeOf(t)]
    <3>1. end \in Surjection(ts, lasts)
      BY DEF Surjection
    <3> QED
      BY <1>3, <3>1, FS_Surjection
  <2>3. \A t \in ts : StartOf(g, t) \in firsts /\ StartOf(g, t) + SizeOf(t) \in lasts
    OBVIOUS
  <2> HIDE DEF firsts, lasts
  <2>4. first \in Nat /\ \A x \in firsts : first <= x
    BY <2>1, LeastOf
  <2>5. last \in Nat /\ \A x \in lasts : x <= last
    BY <2>1, <2>2, GreatestOf
  <2> HIDE DEF first, last
  <2>6. \A t \in ts : first <= StartOf(g, t) /\ StartOf(g, t) + SizeOf(t) <= last
    BY <2>3, <2>4, <2>5
  <2>7. first <= last
    <3>1. PICK t \in ts : TRUE
      BY <1>8
    <3>2. first <= StartOf(g, t) /\ StartOf(g, t) + SizeOf(t) <= last
      BY <2>6
    <3>3. StartOf(g, t) \in Nat /\ SizeOf(t) \in Nat
      BY <1>4, <1>5
    <3> QED
      BY <2>4, <2>5, <3>2, <3>3
  <2>8. last - first \in Nat /\ first + (last - first) = last
    BY <2>4, <2>5, <2>7
  <2> DEFINE span == BlockSpan(g, l)
  <2>9. span.start = first /\ span.len = last - first
    BY <1>1, <1>8
  <2> HIDE DEF span
  <2>10. SpanOK(span)
    BY <2>4, <2>8, <2>9 DEF SpanOK
  <2>11. \A t \in all : Len(t.name) > 1 /\ t.name[1] = l =>
           /\ span.start <= StartOf(g, t)
           /\ StartOf(g, t) + SizeOf(t) <= span.start + span.len
    BY <1>6, <2>6, <2>8, <2>9
  <2> QED
    BY <2>10, <2>11 DEF span, all
<1> QED
  BY <1>7, <1>8

LEMMA HeadSpanOK ==
  ASSUME NEW g, HeaderOK(g), NEW c, c.vocab \in Nat, c.d \in Nat, NEW span \in HeadSpan(g, c)
  PROVE  SpanOK(span)
<1>1. /\ HasTensor(g, <<"output">>)
      /\ Sized(TensorOf(g, <<"output">>).type, c.vocab * c.d)
      /\ span.start = StartOf(g, TensorOf(g, <<"output">>))
      /\ span.len = ByteSize(TensorOf(g, <<"output">>).type, c.vocab * c.d)
  BY DEF HeadSpan
<1>2. c.vocab * c.d \in Nat
  OBVIOUS
<1>3. span.len \in Nat
  BY <1>1, <1>2, BytesNat DEF Sized
<1>4. span.start \in Nat
  BY <1>1, TensorIn, TensorNat
<1> QED
  BY <1>3, <1>4 DEF SpanOK

-----------------------------------------------------------------------------
(* A weight that loads.                                                    *)

\* A row of w, of so many bytes, lies where the file has it and before end.
RowRead(w, r, handed, begin, size, end) ==
  LET row == RowAt(w, r, handed)
  IN row.within /\ row.byte = begin + r * size /\ row.byte + size <= end

\* What ReadsTheFile asks of one weight of g, given what is handed along.
WeightRead(g, w, handed) ==
  LET t == TensorOf(g, w.name)
      begin == StartOf(g, t)
      end == begin + ByteSize(t.type, NElements(t))
  IN IF w.src.kind = "ram" THEN t.finite
     ELSE /\ end <= g.length
          /\ \A r \in 0..(w.rows - 1) : RowRead(w, r, handed, begin, ByteSize(t.type, w.cols), end)

\* A memory that holds a part of the file of g.
PlaceOK(g, src) ==
  src.base \in Nat /\ src.len \in Nat /\ src.base + src.len <= g.length

LEMMA LoadedFits ==
  ASSUME NEW g, HeaderOK(g), NEW need, NeedOK(need), NEW src, PlaceOK(g, src),
         Loads(g, src, need)
  PROVE  LET w == WeightAt(g, src, need)
             t == TensorOf(g, need.name)
         IN /\ t \in ToSet(g.tensors) /\ t.name = need.name
            /\ Sized(t.type, NElements(t)) /\ SizeOf(t) = ByteSize(t.type, NElements(t))
            /\ ByteSize(t.type, NElements(t)) \in Nat /\ StartOf(g, t) \in Nat
            /\ ByteSize(w.type, w.cols) \in Nat
            /\ w.name = need.name /\ w.type = t.type /\ w.src = src /\ w.start + src.base = StartOf(g, t)
            /\ w.start \in Nat
            /\ w.start + ByteSize(t.type, NElements(t)) <= src.len
            /\ StartOf(g, t) + ByteSize(t.type, NElements(t)) <= g.length
            /\ src.kind = "ram" => t.finite
            /\ \A r \in 0..(w.rows - 1) :
                 /\ r * ByteSize(w.type, w.cols) \in Nat
                 /\ r * ByteSize(w.type, w.cols) + ByteSize(w.type, w.cols)
                      <= ByteSize(t.type, NElements(t))
<1> DEFINE w == WeightAt(g, src, need)
           t == TensorOf(g, need.name)
           n == NElements(t)
           from == StartOf(g, t)
           size == ByteSize(t.type, n)
<1>1. /\ HasTensor(g, need.name) /\ n = need.rows * need.cols
      /\ Sized(t.type, n) /\ from >= src.base /\ from - src.base + size <= src.len
      /\ src.kind = "ram" => t.finite
  BY DEF Loads
<1>2. t \in ToSet(g.tensors) /\ t.name = need.name
  BY <1>1, TensorIn
<1>3. from \in Nat /\ n \in Nat
  BY <1>2, TensorNat
<1>4. w.name = need.name /\ w.src = src /\ w.type = t.type /\ w.rows = need.rows
      /\ w.cols = need.cols /\ w.start = from - src.base
  BY DEF WeightAt
<1>5. t.type \in QTypes
  BY <1>1 DEF Sized
<1> HIDE DEF w, t, n, from
<1>6. size \in Nat
  BY <1>3, <1>5, BytesNat
<1>7. SizeOf(t) = size
  BY <1>1 DEF SizeOf, n
<1>8. ASSUME NEW r \in 0..(w.rows - 1)
      PROVE  /\ r * ByteSize(w.type, w.cols) \in Nat
             /\ r * ByteSize(w.type, w.cols) + ByteSize(w.type, w.cols) <= size
  BY <1>1, <1>4, <1>5, RowFits DEF NeedOK
<1>9. ByteSize(w.type, w.cols) \in Nat
  BY <1>4, <1>5, BytesNat DEF NeedOK
<1> HIDE DEF size
<1>10. src.base \in Nat /\ src.len \in Nat /\ src.base + src.len <= g.length /\ g.length \in Nat
  BY DEF PlaceOK, HeaderOK
<1>11. /\ w.start \in Nat /\ w.start + src.base = from
       /\ w.start + size <= src.len /\ from + size <= g.length
  BY <1>1, <1>3, <1>4, <1>6, <1>10
<1> QED
  BY <1>1, <1>2, <1>3, <1>4, <1>6, <1>7, <1>8, <1>9, <1>11 DEF w, t, n, from, size

\* With no block handed along, a packed row is read from the file's bytes.
LEMMA ReadInPlace ==
  ASSUME NEW g, HeaderOK(g), NEW need, NeedOK(need), NEW src, PlaceOK(g, src),
         Loads(g, src, need)
  PROVE  WeightRead(g, WeightAt(g, src, need), {})
<1> DEFINE w == WeightAt(g, src, need)
           t == TensorOf(g, need.name)
           from == StartOf(g, t)
           size == ByteSize(t.type, NElements(t))
           row == ByteSize(w.type, w.cols)
<1>1. /\ size \in Nat /\ from \in Nat /\ row \in Nat
      /\ w.name = need.name /\ w.type = t.type /\ w.src = src /\ w.start + src.base = from
      /\ w.start \in Nat /\ w.start + size <= src.len
      /\ from + size <= g.length
      /\ src.kind = "ram" => t.finite
      /\ \A r \in 0..(w.rows - 1) : r * row \in Nat /\ r * row + row <= size
  BY LoadedFits
<1> HIDE DEF w, t
<1>2. ASSUME NEW r \in 0..(w.rows - 1) PROVE RowRead(w, r, {}, from, row, from + size)
  <2> DEFINE at == RowAt(w, r, {})
             past == r * row
  <2>1. /\ at.byte = src.base + (w.start + past)
        /\ at.within <=> (w.start + past >= 0 /\ w.start + past + row <= src.len)
    BY <1>1 DEF RowAt
  <2>2. past \in Nat /\ past + row <= size
    BY <1>1
  <2> HIDE DEF past, at, from, size
  <2>3. src.base \in Nat /\ src.len \in Nat
    BY DEF PlaceOK
  <2> HIDE DEF row
  <2>4. at.within /\ at.byte = from + past /\ at.byte + row <= from + size
    BY <1>1, <2>1, <2>2, <2>3
  <2> QED
    BY <2>4 DEF RowRead, at, past, row
<1> HIDE DEF from, size, row
<1>3. WeightRead(g, w, {})
  BY <1>1, <1>2 DEF WeightRead, t, from, size, row
<1> QED
  BY <1>3 DEF w

\* A row of a mapped weight is read from its streamed block, if that is around
\* the weight's tensor.
LEMMA ReadStreamed ==
  ASSUME NEW g, HeaderOK(g), NEW need, NeedOK(need), NEW src, PlaceOK(g, src), src.base = 0,
         Loads(g, src, need), NEW span, SpanOK(span),
         span.start <= StartOf(g, TensorOf(g, need.name)),
         StartOf(g, TensorOf(g, need.name)) + SizeOf(TensorOf(g, need.name))
           <= span.start + span.len
  PROVE  WeightRead(g, WeightAt(g, src, need), {[base |-> span.start, len |-> span.len]})
<1> DEFINE w == WeightAt(g, src, need)
           t == TensorOf(g, need.name)
           from == StartOf(g, t)
           size == ByteSize(t.type, NElements(t))
           row == ByteSize(w.type, w.cols)
           block == [base |-> span.start, len |-> span.len]
<1>1. /\ size \in Nat /\ from \in Nat /\ row \in Nat /\ SizeOf(t) = size
      /\ w.name = need.name /\ w.type = t.type /\ w.src = src /\ w.start + src.base = from
      /\ w.start \in Nat /\ w.start + size <= src.len
      /\ from + size <= g.length
      /\ src.kind = "ram" => t.finite
      /\ \A r \in 0..(w.rows - 1) : r * row \in Nat /\ r * row + row <= size
  BY LoadedFits
<1>2. span.start \in Nat /\ span.len \in Nat /\ span.start <= from
      /\ from + size <= span.start + span.len /\ w.start = from
  BY <1>1 DEF SpanOK
<1> HIDE DEF w, t
<1>3. ASSUME NEW r \in 0..(w.rows - 1) PROVE RowRead(w, r, {block}, from, row, from + size)
  <2> DEFINE at == RowAt(w, r, {block})
             past == r * row
             off == w.start - span.start + past
             streamed == {b \in {block} : w.start >= b.base}
  <2>0. streamed = {block}
    BY <1>2
  <2>a. streamed # {} /\ (CHOOSE b \in streamed : TRUE) = block
    BY <2>0
  <2>b. block.base = span.start /\ block.len = span.len
    OBVIOUS
  <2> HIDE DEF streamed, block
  <2>1. /\ at.byte = span.start + off
        /\ at.within <=> (off >= 0 /\ off + row <= span.len)
    BY <2>a, <2>b DEF RowAt, streamed
  <2>2. past \in Nat /\ past + row <= size
    BY <1>1
  <2> HIDE DEF past, at, from, size
  <2> HIDE DEF row
  <2>4. at.within /\ at.byte = from + past /\ at.byte + row <= from + size
    BY <1>1, <1>2, <2>1, <2>2
  <2> QED
    BY <2>4 DEF RowRead, at, past, row
<1> HIDE DEF from, size, row, block
<1>4. WeightRead(g, w, {block})
  BY <1>1, <1>3 DEF WeightRead, t, from, size, row
<1> QED
  BY <1>4 DEF w, block

-----------------------------------------------------------------------------
(* What is loaded is read from the file's own bytes.                       *)

LEMMA LlamaReads ==
  ASSUME NEW g, HeaderOK(g), NEW mmap, LlamaLoads(g, mmap),
         NEW w \in LlamaBackend(g, mmap).weights
  PROVE  WeightRead(g, w, {})
<1>1. PICK need \in LlamaNeeds(g, LlamaShape(g)) : w = WeightAt(g, SourceOf(g, mmap, need), need)
  BY DEF LlamaBackend, Backend
<1> DEFINE src == SourceOf(g, mmap, need)
<1>2. NeedOK(need)
  BY LlamaNeedsOK DEF LlamaLoads
<1>3. PlaceOK(g, src)
  BY DEF SourceOf, Mapped, InRam, PlaceOK, HeaderOK
<1>4. Loads(g, src, need)
  BY DEF LlamaLoads
<1> HIDE DEF src
<1>5. WeightRead(g, WeightAt(g, src, need), {})
  BY <1>2, <1>3, <1>4, ReadInPlace
<1> QED
  BY <1>1, <1>5 DEF src

\* Pins that PinsLoad accepts lie within the file.
LEMMA PinnedPlace ==
  ASSUME NEW g, HeaderOK(g), NEW c, Qwen35ShapeOK(c), NEW mmap, NEW pins,
         pins.head \subseteq HeadSpan(g, c), PinsLoad(g, mmap, c, pins), NEW need
  PROVE  PlaceOK(g, PlaceOf(g, mmap, pins, need))
<1> DEFINE src == PlaceOf(g, mmap, pins, need)
<1>1. \A span \in pins.head \cup {BlockSpan(g, l) : l \in pins.blocks} :
        SpanOK(span) /\ span.start + span.len <= g.length
  <2>1. \A span \in pins.head : SpanOK(span)
    BY HeadSpanOK DEF Qwen35ShapeOK
  <2>2. \A l : SpanOK(BlockSpan(g, l))
    BY BlockSpanAround
  <2> QED
    BY <2>1, <2>2 DEF PinsLoad
<1>2. ASSUME NEW span, SpanOK(span), span.start + span.len <= g.length
      PROVE  PlaceOK(g, Owned(span))
  BY <1>2 DEF Owned, PlaceOK, SpanOK
<1>3. PlaceOK(g, InRam(g)) /\ PlaceOK(g, SourceOf(g, mmap, need))
  BY DEF SourceOf, Mapped, InRam, PlaceOK, HeaderOK
<1>4. CASE need.norm
  BY <1>3, <1>4 DEF PlaceOf
<1>5. CASE ~need.norm /\ need.name = <<"output">> /\ pins.head # {}
  <2> DEFINE span == CHOOSE x \in pins.head : TRUE
  <2>1. span \in pins.head
    BY <1>5
  <2>2. src = Owned(span)
    BY <1>5 DEF PlaceOf
  <2> HIDE DEF span, src
  <2>3. PlaceOK(g, src)
    BY <1>1, <1>2, <2>1, <2>2
  <2> QED
    BY <2>3 DEF src
<1>6. CASE /\ ~need.norm /\ ~(need.name = <<"output">> /\ pins.head # {})
           /\ Len(need.name) > 1 /\ need.name[1] \in pins.blocks
  <2>1. src = Owned(BlockSpan(g, need.name[1]))
    BY <1>6 DEF PlaceOf
  <2>2. PlaceOK(g, Owned(BlockSpan(g, need.name[1])))
    BY <1>1, <1>2, <1>6
  <2> QED
    BY <2>1, <2>2
<1>7. CASE /\ ~need.norm /\ ~(need.name = <<"output">> /\ pins.head # {})
           /\ ~(Len(need.name) > 1 /\ need.name[1] \in pins.blocks)
  BY <1>3, <1>7 DEF PlaceOf
<1> QED
  BY <1>4, <1>5, <1>6, <1>7

LEMMA PinnedReads ==
  ASSUME NEW g, HeaderOK(g), NEW c, Qwen35ShapeOK(c), NEW mmap, NEW pins,
         pins.head \subseteq HeadSpan(g, c), PinsLoad(g, mmap, c, pins),
         \A need \in Qwen35Needs(g, c) : NeedOK(need) /\ Placed(need, c.layers),
         NEW s, s.b = Pinned(g, mmap, c, pins), NEW w \in s.b.weights
  PROVE  WeightRead(g, w, Handed(s, w))
<1>1. PICK need \in Qwen35Needs(g, c) : w = WeightAt(g, PlaceOf(g, mmap, pins, need), need)
  BY DEF Pinned, Backend
<1> DEFINE src == PlaceOf(g, mmap, pins, need)
           l == need.name[1]
           t == TensorOf(g, need.name)
<1>2. NeedOK(need) /\ Placed(need, c.layers)
  OBVIOUS
<1>3. PlaceOK(g, src)
  BY PinnedPlace
<1>4. Loads(g, src, need)
  BY DEF PinsLoad
<1>5. w.name = need.name
  BY <1>1 DEF WeightAt
<1>6. /\ DOMAIN s.b.spans = 0..(c.layers - 1)
      /\ \A b \in 0..(c.layers - 1) :
           s.b.spans[b] = IF b \in pins.blocks THEN NoSpan ELSE BlockSpan(g, b)
  BY DEF Pinned, Backend
<1>7. CASE Handed(s, w) = {}
  <2> HIDE DEF src
  <2>1. WeightRead(g, WeightAt(g, src, need), {})
    BY <1>2, <1>3, <1>4, ReadInPlace
  <2> QED
    BY <1>1, <1>7, <2>1 DEF src
<1>8. CASE Handed(s, w) # {}
  <2>1. /\ Len(w.name) > 1 /\ s.b.spans[w.name[1]].len > 0
        /\ Handed(s, w) = {[base |-> s.b.spans[w.name[1]].start, len |-> s.b.spans[w.name[1]].len]}
    BY <1>8 DEF Handed
  <2>2. Len(need.name) > 1 /\ l \in 0..(c.layers - 1) /\ s.b.spans[l].len > 0
    <3> DEFINE n == Len(need.name)
    <3>1. n > 1 /\ s.b.spans[l].len > 0
      BY <1>5, <2>1
    <3>2. n = 1 \/ l \in 0..(c.layers - 1)
      BY <1>2 DEF Placed
    <3> HIDE DEF n, l
    <3>3. n # 1
      BY <3>1
    <3> QED
      BY <3>1, <3>2, <3>3 DEF n
  <2>3. l \notin pins.blocks /\ s.b.spans[l] = BlockSpan(g, l)
    BY <1>6, <2>2 DEF NoSpan
  <2>4. need.name # <<"output">>
    <3>1. ASSUME need.name = <<"output">> PROVE FALSE
      <4>1. Len(need.name) = 1
        BY <3>1
      <4> QED
        BY <2>2, <4>1
    <3> QED
      BY <3>1
  <2>5. src.base = 0
    <3>1. src \in {InRam(g), Mapped(g)}
      BY <2>3, <2>4 DEF PlaceOf, SourceOf
    <3> QED
      BY <3>1 DEF InRam, Mapped
  <2>6. t \in ToSet(g.tensors) /\ t.name = need.name
    BY <1>4, TensorIn DEF Loads
  <2> DEFINE span == BlockSpan(g, l)
  <2>7. SpanOK(span) /\ span.start <= StartOf(g, t)
        /\ StartOf(g, t) + SizeOf(t) <= span.start + span.len
    BY <2>2, <2>6, BlockSpanAround
  <2>8. Handed(s, w) = {[base |-> span.start, len |-> span.len]}
    BY <1>5, <2>1, <2>3
  <2> HIDE DEF src, span
  <2>9. WeightRead(g, WeightAt(g, src, need), {[base |-> span.start, len |-> span.len]})
    BY <1>2, <1>3, <1>4, <2>5, <2>7, ReadStreamed
  <2> QED
    BY <1>1, <2>8, <2>9 DEF src
<1> QED
  BY <1>7, <1>8

LEMMA Qwen35Reads ==
  ASSUME NEW g, HeaderOK(g), NEW mmap, NEW budget, Qwen35Loads(g, mmap, budget),
         NEW s, s.b = Qwen35Backend(g, mmap, budget), NEW w \in s.b.weights
  PROVE  WeightRead(g, w, Handed(s, w))
<1> DEFINE c == Qwen35Shape(g)
           pins == Pins(g, c, Budget(mmap, budget))
<1>1. Qwen35ShapeOK(c)
  BY Qwen35ShapeNat DEF Qwen35Loads
<1>2. pins.head \subseteq HeadSpan(g, c)
  BY DEF Pins
<1>3. PinsLoad(g, mmap, c, pins)
  BY DEF Qwen35Loads
<1>4. s.b = Pinned(g, mmap, c, pins)
  BY DEF Qwen35Backend
<1>5. \A need \in Qwen35Needs(g, c) : NeedOK(need) /\ Placed(need, c.layers)
  BY Qwen35NeedsOK DEF Qwen35Loads
<1> HIDE DEF c, pins
<1> QED
  BY <1>1, <1>2, <1>3, <1>4, <1>5, PinnedReads

-----------------------------------------------------------------------------
(* A start.                                                                *)

(* What there is to start with, and what can be under way: a streamer is   *)
(* made for a Qwen3.5 checkpoint only, and experts' pages are warmed for   *)
(* any other.                                                              *)
BootOK ==
  /\ boot \in [case : DOMAIN Cases, phase : {"new", "open", "parse", "load", "wire", "draft",
                                             "serving", "refused"},
               ahead : {"nothing", "experts", "streamer", "layers", "pages"}]
  /\ boot.ahead = "streamer" => IsQwen35(Now.header)
  /\ boot.ahead = "pages" => ~IsQwen35(Now.header)

LEMMA NowIs ==
  ASSUME BootOK
  PROVE  /\ Now = Outcome(Cases[boot.case].config, Parse(Cases[boot.case].file),
                          Parse(Cases[boot.case].draft))
         /\ HeaderOK(Now.header) /\ HeaderOK(Now.draftHeader)
<1> DEFINE i == boot.case
           g == Parse(Cases[i].file)
           d == Parse(Cases[i].draft)
<1>1. i \in DOMAIN Cases
  BY DEF BootOK
<1>2. HeaderOK(g) /\ HeaderOK(d)
  BY <1>1, CasesAssumption, ParseType
<1>3. Now = Outcome(Cases[i].config, g, d)
  BY <1>1 DEF Now, Prepared, Outcomes
<1> HIDE DEF g, d
<1>4. Outcome(Cases[i].config, g, d).header = g /\ Outcome(Cases[i].config, g, d).draftHeader = d
  BY DEF Outcome
<1> QED
  BY <1>2, <1>3, <1>4 DEF g, d

LEMMA ServedReads ==
  ASSUME BootOK
  PROVE  ReadsTheFile
<1> DEFINE conf == Cases[boot.case].config
           g == Now.header
           d == Now.draftHeader
<1>1. /\ HeaderOK(g) /\ HeaderOK(d)
      /\ Now.config = conf
      /\ \A b \in Now.target : TargetLoads(conf, g) /\ b = TargetOf(conf, g)
      /\ \A b \in Now.draft : DraftLoads(conf, d, g) /\ b = DraftOf(conf, d)
  BY NowIs DEF Outcome
<1> HIDE DEF conf, g, d
<1>2. ASSUME NEW s \in Serving, NEW w \in s.b.weights
      PROVE  WeightRead(s.g, w, Handed(s, w))
  <2>1. CASE \E b \in Now.target : s = [g |-> g, b |-> b, ahead |-> boot.ahead,
                                        budget |-> Now.config.budget]
    <3>1. /\ s.g = g /\ s.b = TargetOf(conf, g) /\ s.ahead = boot.ahead
          /\ TargetLoads(conf, g)
      BY <1>1, <2>1
    <3>2. CASE IsQwen35(g)
      BY <1>1, <1>2, <3>1, <3>2, Qwen35Reads DEF TargetOf, TargetLoads
    <3>3. CASE ~IsQwen35(g)
      <4>1. s.ahead # "streamer"
        BY <3>1, <3>3 DEF BootOK, g
      <4>2. Handed(s, w) = {}
        BY <4>1 DEF Handed
      <4> QED
        BY <1>1, <1>2, <3>1, <3>3, <4>2, LlamaReads DEF TargetOf, TargetLoads
    <3> QED
      BY <3>2, <3>3
  <2>2. CASE \E b \in Now.draft : s = [g |-> d, b |-> b, ahead |-> "nothing", budget |-> 0]
    <3>1. s.g = d /\ s.b = DraftOf(conf, d) /\ s.ahead = "nothing" /\ DraftLoads(conf, d, g)
      BY <1>1, <2>2
    <3>2. CASE IsQwen35(d)
      BY <1>1, <1>2, <3>1, <3>2, Qwen35Reads DEF DraftOf, DraftLoads
    <3>3. CASE ~IsQwen35(d)
      <4>1. Handed(s, w) = {}
        BY <3>1 DEF Handed
      <4> QED
        BY <1>1, <1>2, <3>1, <3>3, <4>1, LlamaReads DEF DraftOf, DraftLoads
    <3> QED
      BY <3>2, <3>3
  <2> QED
    BY <1>2, <2>1, <2>2 DEF Serving, ServingFrom, g, d
<1>3. ReadsTheFile <=> \A s \in Serving : \A w \in s.b.weights : WeightRead(s.g, w, Handed(s, w))
  BY DEF ReadsTheFile, WeightRead, RowRead
<1> QED
  BY <1>2, <1>3

LEMMA BootStarts == StartInit => BootOK
<1> SUFFICES ASSUME StartInit PROVE BootOK
  OBVIOUS
<1>1. PICK i \in DOMAIN Cases : boot = [case |-> i, phase |-> "new", ahead |-> "nothing"]
  BY DEF StartInit
<1> QED
  BY <1>1 DEF BootOK

LEMMA BootKeeps == BootOK /\ StartNext => BootOK'
<1> SUFFICES ASSUME BootOK, StartNext PROVE BootOK'
  OBVIOUS
<1> DEFINE o == Now
<1>1. StartNext <=> Step(o)
  BY DEF StartNext
<1> HIDE DEF o
<1>2. boot'.case = boot.case => Now' = Now
  BY DEF Now, Prepared
<1>3. ASSUME NEW phase \in {"new", "open", "parse", "load", "wire", "draft", "serving", "refused"},
             Go(phase)
      PROVE  BootOK'
  BY <1>2, <1>3 DEF Go, BootOK
<1>4. CASE Validate(o.config)
  BY <1>3, <1>4 DEF Validate
<1>5. CASE OpenCheckpoint
  BY <1>3, <1>5 DEF OpenCheckpoint
<1>6. CASE ParseCheckpoint(o.header)
  BY <1>3, <1>6 DEF ParseCheckpoint
<1>7. CASE LoadTarget(o.target)
  BY <1>3, <1>7 DEF LoadTarget
<1>8. CASE Wire(o.config, o.header)
  <2>1. ASSUME NEW ahead \in AheadChoices(o.config, o.header),
               boot' = [boot EXCEPT !.ahead = ahead,
                                    !.phase = IF o.config.draft THEN "draft" ELSE "serving"]
        PROVE  BootOK'
    <3>1. /\ ahead \in {"nothing", "experts", "streamer", "layers", "pages"}
          /\ ahead = "streamer" => IsQwen35(o.header)
          /\ ahead = "pages" => ~IsQwen35(o.header)
      BY DEF AheadChoices
    <3>2. boot'.case = boot.case /\ boot'.ahead = ahead
      BY <2>1 DEF BootOK
    <3> QED
      BY <1>2, <2>1, <3>1, <3>2 DEF BootOK, o
  <2> QED
    BY <1>3, <1>8, <2>1 DEF Wire
<1>9. CASE LoadDraft(o.draft)
  BY <1>3, <1>9 DEF LoadDraft
<1> QED
  BY <1>1, <1>4, <1>5, <1>6, <1>7, <1>8, <1>9 DEF Step

LEMMA BootMoves == BootOK /\ [EngineNext]_engineVars => BootOK'
<1> SUFFICES ASSUME BootOK, [EngineNext]_engineVars PROVE BootOK'
  OBVIOUS
<1>1. CASE EngineStart
  BY <1>1, BootKeeps DEF EngineStart
<1>2. CASE UNCHANGED boot
  BY <1>2 DEF BootOK, Now, Prepared
<1> QED
  BY <1>1, <1>2 DEF EngineNext, EngineRuns, engineVars

-----------------------------------------------------------------------------
(* What is pinned.                                                         *)

\* The bytes of each block.
Lens(g, layers) == [l \in 0..(layers - 1) |-> BlockSpan(g, l).len]

\* What a loader holds when it has also come to block l.
Spend(g, budget, have, l) ==
  LET len == BlockSpan(g, l).len
  IN IF len > 0 /\ have.bytes + len <= budget
     THEN [bytes |-> have.bytes + len, blocks |-> have.blocks \cup {l}] ELSE have

\* What it may hold of the blocks it has come to.
MayHold(g, layers, taken, budget, come) ==
  {have \in [bytes : Nat, blocks : SUBSET come] :
     /\ have.bytes <= budget
     /\ have.bytes = taken + Sum(Lens(g, layers), have.blocks)
     /\ \A l \in have.blocks : BlockSpan(g, l).len > 0}

LEMMA LensNat ==
  ASSUME NEW g, HeaderOK(g), NEW layers
  PROVE  \A l \in 0..(layers - 1) : Lens(g, layers)[l] = BlockSpan(g, l).len
                                    /\ Lens(g, layers)[l] \in Nat
BY BlockSpanAround DEF Lens, SpanOK

LEMMA SpendHolds ==
  ASSUME NEW g, HeaderOK(g), NEW layers \in Nat, NEW taken \in Nat, NEW budget \in Nat,
         NEW come \in SUBSET (0..(layers - 1)), NEW l \in 0..(layers - 1), l \notin come,
         NEW have \in MayHold(g, layers, taken, budget, come)
  PROVE  Spend(g, budget, have, l) \in MayHold(g, layers, taken, budget, come \cup {l})
<1> DEFINE len == BlockSpan(g, l).len
           lens == Lens(g, layers)
           more == [bytes |-> have.bytes + len, blocks |-> have.blocks \cup {l}]
<1>1. /\ have \in [bytes : Nat, blocks : SUBSET come] /\ have.bytes <= budget
      /\ have.bytes = taken + Sum(lens, have.blocks)
      /\ \A k \in have.blocks : BlockSpan(g, k).len > 0
  BY DEF MayHold
<1>2. len \in Nat /\ lens[l] = len /\ \A k \in 0..(layers - 1) : lens[k] \in Nat
  BY LensNat
<1>3. CASE ~(len > 0 /\ have.bytes + len <= budget)
  <2>1. Spend(g, budget, have, l) = have
    BY <1>3 DEF Spend
  <2> QED
    BY <1>1, <2>1 DEF MayHold
<1>4. CASE len > 0 /\ have.bytes + len <= budget
  <2>1. Spend(g, budget, have, l) = more
    BY <1>4 DEF Spend
  <2>2. IsFiniteSet(have.blocks)
    <3>1. IsFiniteSet(0..(layers - 1))
      <4>1. 0 \in Int /\ layers - 1 \in Int
        OBVIOUS
      <4> QED
        BY <4>1, FS_Interval
    <3>2. have.blocks \subseteq 0..(layers - 1)
      BY <1>1
    <3> QED
      BY <3>1, <3>2, FS_Subset
  <2> HIDE DEF len, lens
  <2>3. Sum(lens, have.blocks \cup {l}) = lens[l] + Sum(lens, have.blocks)
        /\ Sum(lens, have.blocks) \in Nat
    BY <1>1, <1>2, <2>2, SumMore
  <2>4. /\ more.bytes = have.bytes + len /\ more.bytes \in Nat /\ more.bytes <= budget
        /\ more.blocks = have.blocks \cup {l}
        /\ more \in [bytes : Nat, blocks : SUBSET (come \cup {l})]
    BY <1>1, <1>2, <1>4
  <2>5. more.bytes = taken + Sum(lens, more.blocks)
    BY <1>1, <1>2, <2>3, <2>4
  <2>6. \A k \in more.blocks : BlockSpan(g, k).len > 0
    BY <1>1, <1>4, <2>4 DEF len
  <2> HIDE DEF more
  <2> QED
    BY <2>1, <2>4, <2>5, <2>6 DEF MayHold, lens
<1> QED
  BY <1>3, <1>4

\* The bytes that the head takes of the budget.
HeadTakes(head) == IF head = {} THEN 0 ELSE (CHOOSE span \in head : TRUE).len

\* from_gguf_pinned counts what it holds, and keeps its budget.
LEMMA PinsHold ==
  ASSUME NEW g, HeaderOK(g), NEW c, Qwen35ShapeOK(c), NEW budget \in Nat
  PROVE  LET pins == Pins(g, c, budget)
         IN /\ HeadTakes(pins.head) \in Nat
            /\ [bytes |-> pins.bytes, blocks |-> pins.blocks] \in
                 MayHold(g, c.layers, HeadTakes(pins.head), budget, 0..(c.layers - 1))
<1> DEFINE pins == Pins(g, c, budget)
           n == c.layers
           D == 1..n
           head == {span \in HeadSpan(g, c) : span.len <= budget}
           taken == HeadTakes(head)
           start == [bytes |-> taken, blocks |-> {}]
           seq == [i \in D |-> i - 1]
           Past(s) == {i - 1 : i \in s}
           pick == [s \in SUBSET D |-> Max(s)]
           W == [bytes : Nat, blocks : SUBSET (0..(n - 1))]
           step == [p \in D \X W |-> Spend(g, budget, p[2], seq[p[1]])]
           V == [s \in SUBSET D |-> MayHold(g, n, taken, budget, Past(s))]
           Held(h) == h = [s \in SUBSET D |-> IF s = {} THEN start
                             ELSE Spend(g, budget, h[s \ {Max(s)}], seq[Max(s)])]
           k == CHOOSE h : Held(h)
<1>1. n \in Nat /\ c.vocab \in Nat /\ c.d \in Nat
  BY DEF Qwen35ShapeOK
<1>a. IsFiniteSet(D) /\ D \subseteq Nat /\ \A i \in D : i >= 1 /\ i <= n
  <2> HIDE DEF n
  <2>1. 1 \in Int /\ n \in Int
    BY <1>1
  <2> QED
    BY <1>1, <2>1, FS_Interval
<1>2. pins = [head |-> head, blocks |-> k[D].blocks, bytes |-> k[D].bytes]
  BY DEF Pins, FoldLeft, MapThenFoldSet, Spend, HeadTakes
<1>3. taken \in Nat /\ taken <= budget
  <2>1. CASE head = {}
    BY <2>1 DEF HeadTakes
  <2>2. CASE head # {}
    <3> DEFINE span == CHOOSE x \in head : TRUE
    <3>1. span \in head
      BY <2>2
    <3>2. SpanOK(span) /\ span.len <= budget
      BY <1>1, <3>1, HeadSpanOK
    <3> QED
      BY <2>2, <3>2 DEF HeadTakes, SpanOK
  <2> QED
    BY <2>1, <2>2
<1> HIDE DEF pins, taken, head
<1>4. ASSUME NEW s \in SUBSET D, s # {}
      PROVE  /\ pick[s] = Max(s) /\ Max(s) \in s /\ Max(s) \in D
             /\ seq[Max(s)] = Max(s) - 1 /\ seq[Max(s)] \in 0..(n - 1)
             /\ seq[Max(s)] \notin Past(s \ {Max(s)})
             /\ Past(s \ {Max(s)}) \in SUBSET (0..(n - 1))
             /\ Past(s) = Past(s \ {Max(s)}) \cup {seq[Max(s)]}
  <2>1. IsFiniteSet(s) /\ s \subseteq Nat
    <3> HIDE DEF D
    <3> QED
      BY <1>a, FS_Subset
  <2>2. Max(s) \in s
    BY <1>4, <2>1, GreatestOf
  <2>3. pick[s] = Max(s)
    OBVIOUS
  <2> DEFINE m == Max(s)
  <2>4. m \in s /\ m \in D /\ m \in Nat /\ m >= 1 /\ m <= n
    <3> HIDE DEF n, D, m
    <3>1. m \in s
      BY <2>2 DEF m
    <3> QED
      BY <1>a, <3>1
  <2> HIDE DEF m
  <2>5. seq[m] = m - 1 /\ m - 1 \in 0..(n - 1)
    BY <1>1, <2>4
  <2>6. \A i \in s : i \in Int /\ i - 1 \in 0..(n - 1)
    BY <1>1
  <2>7. m - 1 \notin Past(s \ {m})
    <3>1. \A i \in s \ {m} : i - 1 # m - 1
      BY <2>4, <2>6
    <3> QED
      BY <3>1
  <2>8. Past(s \ {m}) \in SUBSET (0..(n - 1))
    BY <2>6
  <2>9. Past(s) = Past(s \ {m}) \cup {m - 1}
    BY <2>4
  <2> QED
    BY <2>3, <2>4, <2>5, <2>7, <2>8, <2>9 DEF m
<1>b. \A s \in SUBSET D : s # {} => pick[s] = Max(s) /\ pick[s] \in s
  <2>1. ASSUME NEW s \in SUBSET D, s # {} PROVE pick[s] = Max(s) /\ pick[s] \in s
    BY <1>4, <2>1
  <2> QED
    BY <2>1
<1>5. ASSUME NEW i \in D, NEW have \in W
      PROVE  step[<<i, have>>] = Spend(g, budget, have, seq[i])
  BY <1>5
<1>6. ASSUME NEW s \in SUBSET D
      PROVE  V[s] = MayHold(g, n, taken, budget, Past(s)) /\ V[s] \subseteq W
  <2>1. V[s] = MayHold(g, n, taken, budget, Past(s))
    OBVIOUS
  <2>2. Past(s) \subseteq 0..(n - 1)
    BY <1>1
  <2> HIDE DEF V, Past
  <2> QED
    BY <2>1, <2>2 DEF MayHold
<1>7. start \in V[{}]
  <2>1. Sum(Lens(g, n), {}) = 0
    BY FS_EmptySet, SumAny
  <2>2. start.bytes = taken /\ start.blocks = {} /\ taken = taken + 0
    BY <1>3
  <2>3. V[{}] = MayHold(g, n, taken, budget, {})
    <3>1. {} \in SUBSET D /\ Past({}) = {}
      OBVIOUS
    <3> QED
      BY <1>6, <3>1
  <2>4. start \in [bytes : Nat, blocks : SUBSET {}]
    BY <1>3
  <2> HIDE DEF start, V
  <2> QED
    BY <1>3, <2>1, <2>2, <2>3, <2>4 DEF MayHold
<1> HIDE DEF pick, step, V, start, seq, Past
<1>8. ASSUME NEW s \in SUBSET D, s # {}, NEW have \in V[s \ {Max(s)}]
      PROVE  /\ Spend(g, budget, have, seq[Max(s)]) \in V[s]
             /\ step[<<Max(s), have>>] = Spend(g, budget, have, seq[Max(s)])
  <2>1. s \ {Max(s)} \in SUBSET D
    OBVIOUS
  <2>2. have \in MayHold(g, n, taken, budget, Past(s \ {Max(s)})) /\ have \in W
    BY <1>6, <1>8, <2>1
  <2> HIDE DEF W
  <2>3. Spend(g, budget, have, seq[Max(s)]) \in
          MayHold(g, n, taken, budget, Past(s \ {Max(s)}) \cup {seq[Max(s)]})
    BY <1>1, <1>3, <1>4, <1>8, <2>2, SpendHolds
  <2> QED
    BY <1>4, <1>5, <1>6, <1>8, <2>2, <2>3
<1> HIDE DEF W
<1>9. IsFiniteSet(D) /\ \A s \in SUBSET D : s # {} => pick[s] \in s
  BY <1>a, <1>b
<1>10. PICK h : Folded(D, pick, start, step, h)
  BY <1>9, FoldExists
<1>11. \A s \in SUBSET D :
         h[s] = IF s = {} THEN start ELSE step[<<pick[s], h[s \ {pick[s]}]>>]
  BY <1>10 DEF Folded
<1>12. \A s \in SUBSET D : h[s] \in V[s]
  <2>1. h[{}] \in V[{}]
    BY <1>7, <1>11
  <2>2. ASSUME NEW s \in SUBSET D, s # {}, h[s \ {pick[s]}] \in V[s \ {pick[s]}]
        PROVE  h[s] \in V[s]
    <3>1. h[s] = step[<<Max(s), h[s \ {Max(s)}]>>] /\ h[s \ {Max(s)}] \in V[s \ {Max(s)}]
      BY <1>4, <1>11, <2>2
    <3> QED
      BY <1>8, <2>2, <3>1
  <2> QED
    BY <1>9, <2>1, <2>2, FoldKeeps
<1>13. Held(h)
  <2>1. h = [s \in SUBSET D |-> h[s]]
    BY <1>10 DEF Folded
  <2>2. ASSUME NEW s \in SUBSET D, s # {}
        PROVE  h[s] = Spend(g, budget, h[s \ {Max(s)}], seq[Max(s)])
    <3>1. h[s \ {Max(s)}] \in V[s \ {Max(s)}]
      <4>1. s \ {Max(s)} \in SUBSET D
        OBVIOUS
      <4> QED
        BY <1>12, <4>1
    <3>2. h[s] = step[<<Max(s), h[s \ {Max(s)}]>>]
      BY <1>4, <1>11, <2>2
    <3> QED
      BY <1>8, <2>2, <3>1, <3>2
  <2>3. h[{}] = start
    BY <1>11
  <2> QED
    BY <2>1, <2>2, <2>3
<1>14. Held(k)
  BY <1>13
<1> HIDE DEF k
<1>15. /\ k[{}] = start
       /\ \A s \in SUBSET D : s # {} => k[s] = Spend(g, budget, k[s \ {Max(s)}], seq[Max(s)])
  BY <1>14
<1>16. \A s \in SUBSET D : k[s] \in V[s]
  <2>1. k[{}] \in V[{}]
    BY <1>7, <1>15
  <2>2. ASSUME NEW s \in SUBSET D, s # {}, k[s \ {pick[s]}] \in V[s \ {pick[s]}]
        PROVE  k[s] \in V[s]
    <3>1. k[s] = Spend(g, budget, k[s \ {Max(s)}], seq[Max(s)])
          /\ k[s \ {Max(s)}] \in V[s \ {Max(s)}]
      BY <1>4, <1>15, <2>2
    <3> QED
      BY <1>8, <2>2, <3>1
  <2> QED
    BY <1>9, <2>1, <2>2, FoldKeeps
<1>17. k[D] \in MayHold(g, n, taken, budget, 0..(n - 1))
  <2>1. k[D] \in V[D] /\ V[D] = MayHold(g, n, taken, budget, Past(D))
    BY <1>6, <1>16
  <2>2. Past(D) = 0..(n - 1)
    <3>1. \A l \in 0..(n - 1) : l + 1 \in D /\ l = (l + 1) - 1
      BY <1>1
    <3>2. \A i \in D : i - 1 \in 0..(n - 1)
      BY <1>1
    <3> HIDE DEF D
    <3> QED
      BY <3>1, <3>2 DEF Past
  <2> QED
    BY <2>1, <2>2
<1>18. k[D] = [bytes |-> k[D].bytes, blocks |-> k[D].blocks]
  BY <1>17 DEF MayHold
<1>19. /\ pins.head = head /\ pins.bytes = k[D].bytes /\ pins.blocks = k[D].blocks
  BY <1>2
<1> HIDE DEF n, D
<1>20. /\ HeadTakes(pins.head) \in Nat
       /\ [bytes |-> pins.bytes, blocks |-> pins.blocks] \in
            MayHold(g, n, HeadTakes(pins.head), budget, 0..(n - 1))
  BY <1>3, <1>17, <1>18, <1>19 DEF taken
<1> QED
  BY <1>20 DEF pins, n

-----------------------------------------------------------------------------
(* What is pinned is counted, and the rest is left to the ring.            *)

\* A sum over the images of a set's elements is one over the set.
LEMMA SumImage ==
  ASSUME NEW S, IsFiniteSet(S), NEW e, \A x, y \in S : e[x] = e[y] => x = y,
         NEW f, NEW h, \A x \in S : h[x] \in Nat /\ f[e[x]] = h[x]
  PROVE  Sum(f, {e[x] : x \in S}) = Sum(h, S)
<1> DEFINE Image(s) == {e[x] : x \in s}
           Bad == {s \in SUBSET S : Sum(f, Image(s)) # Sum(h, s)}
<1>1. Bad = {}
  <2> SUFFICES ASSUME Bad # {} PROVE FALSE
    OBVIOUS
  <2>1. PICK s \in Bad : \A t \in Bad : t \subseteq s => t = s
    <3>1. Bad \in SUBSET (SUBSET S)
      OBVIOUS
    <3> HIDE DEF Bad
    <3> QED
      BY <3>1, SmallestOf
  <2>2. s \in SUBSET S /\ Sum(f, Image(s)) # Sum(h, s)
    BY <2>1
  <2>3. s # {}
    <3>1. Sum(f, {}) = 0 /\ Sum(h, {}) = 0
      BY FS_EmptySet, SumAny
    <3>2. Image({}) = {}
      OBVIOUS
    <3> HIDE DEF Image
    <3> QED
      BY <2>2, <3>1, <3>2
  <2>4. PICK x \in s : TRUE
    BY <2>3
  <2> DEFINE t == s \ {x}
  <2>5. t \in SUBSET S /\ t \notin Bad
    BY <2>1, <2>2, <2>4
  <2>6. Sum(f, Image(t)) = Sum(h, t)
    BY <2>5
  <2>7. IsFiniteSet(t) /\ IsFiniteSet(Image(t))
    <3>1. IsFiniteSet(t)
      BY <2>5, FS_Subset
    <3> DEFINE onto == [y \in t |-> e[y]]
    <3>2. onto \in Surjection(t, Image(t))
      BY DEF Surjection
    <3> HIDE DEF t, Image, onto
    <3> QED
      BY <3>1, <3>2, FS_Surjection
  <2>8. Image(s) = Image(t) \cup {e[x]} /\ e[x] \notin Image(t) /\ s = t \cup {x} /\ x \notin t
    BY <2>2, <2>4
  <2>9. /\ \A y \in Image(t) \cup {e[x]} : f[y] \in Nat
        /\ \A y \in t \cup {x} : h[y] \in Nat
    BY <2>2, <2>4
  <2> HIDE DEF Image, Bad, t
  <2>10. Sum(f, Image(s)) = f[e[x]] + Sum(f, Image(t))
    BY <2>7, <2>8, <2>9, SumMore
  <2>11. Sum(h, s) = h[x] + Sum(h, t)
    BY <2>7, <2>8, <2>9, SumMore
  <2> QED
    BY <2>2, <2>4, <2>6, <2>10, <2>11
<1>2. S \in SUBSET S
  OBVIOUS
<1> QED
  BY <1>1, <1>2

\* What one model holds, and what it leaves.
HeldBy(s) == {<<InBlock(w), w.src>> : w \in {v \in Packed(s) : v.src.kind = "owned"}}

Counted(s) ==
  /\ s.b.pinnedBytes = SumOf([place \in HeldBy(s) |-> place[2].len])
  /\ s.b.pinnedBytes <= s.budget

Divided(s) ==
  \A w \in Packed(s) : \A l \in InBlock(w) \cap DOMAIN s.b.spans :
    /\ w.src.kind = "owned" => s.b.spans[l].len = 0
    /\ w.src.kind = "mapped" /\ HasBytes(w) => s.b.spans[l].len > 0

\* A packed weight of the pins' backend: where it is, and the block it is of.
LEMMA WhereIs ==
  ASSUME NEW g, NEW c, NEW mmap, NEW pins, NEW need, Placed(need, c.layers),
         NEW w, w = WeightAt(g, PlaceOf(g, mmap, pins, need), need), w.src.kind # "ram"
  PROVE  /\ InBlock(w) \subseteq 0..(c.layers - 1)
         /\ w.src.kind \in {"mapped", "owned"}
         /\ w.src.kind = "owned" <=> \/ need.name = <<"output">> /\ pins.head # {}
                                     \/ InBlock(w) \cap pins.blocks # {}
         /\ \A l \in InBlock(w) : l \in pins.blocks => w.src = Owned(BlockSpan(g, l))
         /\ need.name = <<"output">> /\ pins.head # {} =>
              w.src = Owned(CHOOSE span \in pins.head : TRUE)
         /\ need.name = <<"output">> => InBlock(w) = {}
         /\ InBlock(w) = IF Len(need.name) > 1 THEN {need.name[1]} ELSE {}
<1> DEFINE src == PlaceOf(g, mmap, pins, need)
<1>1. w.src = src /\ w.name = need.name
  BY DEF WeightAt
<1>2. InBlock(w) = IF Len(need.name) > 1 THEN {need.name[1]} ELSE {}
  BY <1>1 DEF InBlock
<1>3. need.name = <<"output">> => ~(Len(need.name) > 1)
  <2>1. need.name = <<"output">> => Len(need.name) = 1
    OBVIOUS
  <2> QED
    BY <2>1
<1>4. Len(need.name) > 1 => need.name[1] \in 0..(c.layers - 1)
  <2>1. Len(need.name) = 1 => ~(Len(need.name) > 1)
    OBVIOUS
  <2> QED
    BY <2>1 DEF Placed
<1>5. ~need.norm
  BY <1>1 DEF PlaceOf, InRam
<1>6. SourceOf(g, mmap, need).kind \in {"mapped", "ram"}
  BY DEF SourceOf, Mapped, InRam
<1>7. \A span : Owned(span).kind = "owned"
  BY DEF Owned
<1>8. src = IF need.name = <<"output">> /\ pins.head # {}
            THEN Owned(CHOOSE span \in pins.head : TRUE)
            ELSE IF Len(need.name) > 1 /\ need.name[1] \in pins.blocks
            THEN Owned(BlockSpan(g, need.name[1])) ELSE SourceOf(g, mmap, need)
  BY <1>5 DEF PlaceOf
<1> HIDE DEF src
<1> QED
  BY <1>1, <1>2, <1>3, <1>4, <1>6, <1>7, <1>8


LEMMA PinnedHeld ==
  ASSUME NEW g, HeaderOK(g), NEW c, Qwen35ShapeOK(c), NEW mmap, NEW pins,
         pins.head \subseteq HeadSpan(g, c), pins.blocks \subseteq 0..(c.layers - 1),
         \A need \in Qwen35Needs(g, c) : Placed(need, c.layers),
         NEW s, s.b = Pinned(g, mmap, c, pins)
  PROVE  HeldBy(s) = {<<{l}, Owned(BlockSpan(g, l))>> : l \in pins.blocks}
                       \cup {<<{}, Owned(span)>> : span \in pins.head}
<1> DEFINE Place(need) == PlaceOf(g, mmap, pins, need)
           At(need) == WeightAt(g, Place(need), need)
           blocks == {<<{l}, Owned(BlockSpan(g, l))>> : l \in pins.blocks}
           heads == {<<{}, Owned(span)>> : span \in pins.head}
           one == CHOOSE span \in pins.head : TRUE
<1>1. s.b.weights = {At(need) : need \in Qwen35Needs(g, c)}
  BY DEF Pinned, Backend
<1>2. \A span \in pins.head : span = one
  BY DEF HeadSpan
<1>3. ASSUME NEW need \in Qwen35Needs(g, c), At(need).src.kind = "owned"
      PROVE  <<InBlock(At(need)), At(need).src>> \in blocks \cup heads
  <2> DEFINE w == At(need)
  <2>1. /\ w.src.kind = "owned" => \/ need.name = <<"output">> /\ pins.head # {}
                                   \/ InBlock(w) \cap pins.blocks # {}
        /\ \A l \in InBlock(w) : l \in pins.blocks => w.src = Owned(BlockSpan(g, l))
        /\ need.name = <<"output">> /\ pins.head # {} =>
             w.src = Owned(CHOOSE span \in pins.head : TRUE)
        /\ need.name = <<"output">> => InBlock(w) = {}
        /\ InBlock(w) = IF Len(need.name) > 1 THEN {need.name[1]} ELSE {}
    BY <1>3, WhereIs
  <2> HIDE DEF w
  <2>2. CASE need.name = <<"output">> /\ pins.head # {}
    <3>1. InBlock(w) = {} /\ w.src = Owned(one) /\ one \in pins.head
      BY <2>1, <2>2
    <3> QED
      BY <3>1 DEF w
  <2>3. CASE InBlock(w) \cap pins.blocks # {}
    <3>1. PICK l \in pins.blocks : l \in InBlock(w)
      BY <2>3
    <3>2. InBlock(w) = {l} /\ w.src = Owned(BlockSpan(g, l))
      BY <2>1, <3>1
    <3> QED
      BY <3>2 DEF w
  <2> QED
    BY <1>3, <2>1, <2>2, <2>3 DEF w
<1>4. ASSUME NEW l \in pins.blocks
      PROVE  \E need \in Qwen35Needs(g, c) :
               /\ At(need).src.kind = "owned"
               /\ <<InBlock(At(need)), At(need).src>> = <<{l}, Owned(BlockSpan(g, l))>>
  <2> DEFINE need == Weight(<<l, "ffn_gate">>, c.f, c.d)
  <2>1. need \in Qwen35Needs(g, c)
    <3>1. need \in BlockNeeds(c, l) /\ l \in 0..(c.layers - 1)
      BY DEF BlockNeeds
    <3> HIDE DEF need
    <3> QED
      BY <3>1 DEF Qwen35Needs
  <2>2. need.name = <<l, "ffn_gate">> /\ ~need.norm
    BY DEF Weight
  <2> HIDE DEF need
  <2>3. Len(need.name) > 1 /\ need.name[1] = l /\ need.name # <<"output">>
    <3>1. Len(<<l, "ffn_gate">>) = 2 /\ Len(<<"output">>) = 1 /\ <<l, "ffn_gate">>[1] = l
      OBVIOUS
    <3>2. Len(need.name) = 2 /\ need.name[1] = l
      BY <2>2, <3>1
    <3> QED
      BY <3>1, <3>2
  <2>4. Place(need) = Owned(BlockSpan(g, l))
    BY <2>2, <2>3 DEF PlaceOf
  <2>5. At(need).src = Place(need) /\ At(need).name = need.name
    BY DEF WeightAt
  <2> HIDE DEF Place, At
  <2>6. InBlock(At(need)) = {l}
    BY <2>3, <2>5 DEF InBlock
  <2> QED
    BY <2>1, <2>4, <2>5, <2>6 DEF Owned
<1>5. ASSUME NEW span \in pins.head
      PROVE  \E need \in Qwen35Needs(g, c) :
               /\ At(need).src.kind = "owned"
               /\ <<InBlock(At(need)), At(need).src>> = <<{}, Owned(span)>>
  <2> DEFINE need == Weight(<<"output">>, c.vocab, c.d)
  <2>1. need \in Qwen35Needs(g, c)
    <3>1. need \in HeadNeeds(g, c)
      BY DEF HeadSpan, HeadNeeds
    <3> HIDE DEF need
    <3> QED
      BY <3>1 DEF Qwen35Needs
  <2>2. need.name = <<"output">> /\ ~need.norm
    BY DEF Weight
  <2> HIDE DEF need
  <2>3. Place(need) = Owned(span)
    BY <1>2, <2>2 DEF PlaceOf
  <2>4. At(need).src = Place(need) /\ At(need).name = need.name
    BY DEF WeightAt
  <2> HIDE DEF Place, At
  <2>5. InBlock(At(need)) = {}
    <3>1. Len(<<"output">>) = 1
      OBVIOUS
    <3>2. ~(Len(At(need).name) > 1)
      BY <2>2, <2>4, <3>1
    <3> QED
      BY <3>2 DEF InBlock
  <2> QED
    BY <2>1, <2>3, <2>4, <2>5 DEF Owned
<1>6. HeldBy(s) = {<<InBlock(At(need)), At(need).src>> :
                     need \in {n \in Qwen35Needs(g, c) : At(n).src.kind = "owned"}}
  <2> HIDE DEF At
  <2> QED
    BY <1>1 DEF HeldBy, Packed
<1> HIDE DEF At
<1>7. HeldBy(s) \subseteq blocks \cup heads
  BY <1>3, <1>6
<1>8. blocks \subseteq HeldBy(s)
  BY <1>4, <1>6
<1>9. heads \subseteq HeldBy(s)
  BY <1>5, <1>6
<1> QED
  BY <1>7, <1>8, <1>9

\* What the pins hold adds up to what was counted.
LEMMA PinsCounted ==
  ASSUME NEW g, HeaderOK(g), NEW c, Qwen35ShapeOK(c), NEW mmap, NEW budget \in Nat,
         NEW pins, pins.head \subseteq HeadSpan(g, c),
         [bytes |-> pins.bytes, blocks |-> pins.blocks] \in
           MayHold(g, c.layers, HeadTakes(pins.head), budget, 0..(c.layers - 1)),
         \A need \in Qwen35Needs(g, c) : Placed(need, c.layers),
         NEW s, s.b = Pinned(g, mmap, c, pins), s.budget \in Nat, budget <= s.budget
  PROVE  Counted(s)
<1> DEFINE n == c.layers
           lens == Lens(g, n)
           e == [l \in 0..(n - 1) |-> <<{l}, Owned(BlockSpan(g, l))>>]
           blocks == {e[l] : l \in pins.blocks}
           heads == {<<{}, Owned(span)>> : span \in pins.head}
           bytes == [place \in HeldBy(s) |-> place[2].len]
           one == CHOOSE span \in pins.head : TRUE
<1>1. /\ pins.bytes \in Nat /\ pins.bytes <= budget /\ pins.blocks \subseteq 0..(n - 1)
      /\ pins.bytes = HeadTakes(pins.head) + Sum(lens, pins.blocks)
  BY DEF MayHold
<1>2. HeldBy(s) = blocks \cup heads
  <2>1. HeldBy(s) = {<<{l}, Owned(BlockSpan(g, l))>> : l \in pins.blocks} \cup heads
    BY <1>1, PinnedHeld
  <2>2. \A l \in pins.blocks : e[l] = <<{l}, Owned(BlockSpan(g, l))>>
    BY <1>1
  <2> HIDE DEF e
  <2>3. blocks = {<<{l}, Owned(BlockSpan(g, l))>> : l \in pins.blocks}
    BY <2>2
  <2> QED
    BY <2>1, <2>3
<1>3. \A l \in pins.blocks : e[l] \in HeldBy(s) /\ e[l] = <<{l}, Owned(BlockSpan(g, l))>>
  BY <1>1, <1>2
<1>b. ASSUME NEW l \in pins.blocks
      PROVE  e[l][1] = {l} /\ e[l][2].len = BlockSpan(g, l).len
  <2>1. e[l] = <<{l}, Owned(BlockSpan(g, l))>>
    BY <1>3
  <2>2. Owned(BlockSpan(g, l)).len = BlockSpan(g, l).len
    BY DEF Owned
  <2> HIDE DEF e
  <2>3. e[l][1] = {l} /\ e[l][2] = Owned(BlockSpan(g, l))
    BY <2>1
  <2> QED
    BY <2>2, <2>3
<1>4. \A l \in pins.blocks : lens[l] \in Nat /\ bytes[e[l]] = lens[l]
  <2>1. \A l \in pins.blocks : lens[l] = BlockSpan(g, l).len /\ lens[l] \in Nat
    BY <1>1, LensNat
  <2>2. ASSUME NEW l \in pins.blocks PROVE bytes[e[l]] = BlockSpan(g, l).len
    <3>1. e[l][2].len = BlockSpan(g, l).len
      BY <1>b
    <3> HIDE DEF e
    <3> QED
      BY <1>3, <3>1
  <2> QED
    BY <2>1, <2>2
<1>5. IsFiniteSet(pins.blocks)
  <2>1. n \in Nat
    BY DEF Qwen35ShapeOK
  <2> HIDE DEF n
  <2>2. 0 \in Int /\ n - 1 \in Int
    BY <2>1
  <2>3. IsFiniteSet(0..(n - 1))
    BY <2>2, FS_Interval
  <2> QED
    BY <1>1, <2>3, FS_Subset
<1>6. \A x, y \in pins.blocks : e[x] = e[y] => x = y
  <2> HIDE DEF e
  <2> QED
    BY <1>b
<1>7. SumOf(bytes) = Sum(bytes, HeldBy(s))
  <2>1. bytes = [place \in HeldBy(s) |-> bytes[place]]
    OBVIOUS
  <2> QED
    BY <2>1 DEF Sum
<1>8. s.b.pinnedBytes = pins.bytes
  BY DEF Pinned, Backend
<1> HIDE DEF e, lens, bytes
<1>9. Sum(bytes, blocks) = Sum(lens, pins.blocks) /\ Sum(lens, pins.blocks) \in Nat
  <2>1. Sum(bytes, blocks) = Sum(lens, pins.blocks)
    BY <1>4, <1>5, <1>6, SumImage
  <2> QED
    BY <1>4, <1>5, <2>1, SumAny
<1>10. Sum(bytes, HeldBy(s)) = pins.bytes
  <2>1. CASE pins.head = {}
    <3>1. HeldBy(s) = blocks /\ HeadTakes(pins.head) = 0
      BY <1>2, <2>1 DEF HeadTakes
    <3> QED
      BY <1>1, <1>9, <3>1
  <2>2. CASE pins.head # {}
    <3>1. one \in pins.head /\ \A span \in pins.head : span = one
      BY <2>2 DEF HeadSpan
    <3>2. HeadTakes(pins.head) = one.len /\ one.len \in Nat
      <4>1. SpanOK(one)
        BY <3>1, HeadSpanOK DEF Qwen35ShapeOK
      <4> QED
        BY <2>2, <4>1 DEF HeadTakes, SpanOK
    <3> DEFINE place == <<{}, Owned(one)>>
    <3>3. HeldBy(s) = blocks \cup {place}
      BY <1>2, <3>1
    <3>4. bytes[place] = one.len
      <4>1. place \in HeldBy(s) /\ place[2].len = one.len
        BY <3>3 DEF Owned
      <4> QED
        BY <4>1 DEF bytes
    <3>5. place \notin blocks
      <4>1. \A l \in pins.blocks : e[l][1] = {l} /\ {l} # {}
        BY <1>b
      <4>2. place[1] = {}
        OBVIOUS
      <4> HIDE DEF place
      <4> QED
        BY <4>1, <4>2
    <3>6. IsFiniteSet(blocks)
      <4> DEFINE onto == [l \in pins.blocks |-> e[l]]
      <4>1. onto \in Surjection(pins.blocks, blocks)
        BY DEF Surjection
      <4> HIDE DEF onto, blocks
      <4> QED
        BY <1>5, <4>1, FS_Surjection
    <3>7. \A x \in blocks \cup {place} : bytes[x] \in Nat
      BY <1>4, <3>2, <3>4
    <3> HIDE DEF place, blocks, one
    <3>8. Sum(bytes, blocks \cup {place}) = bytes[place] + Sum(bytes, blocks)
      BY <3>5, <3>6, <3>7, SumMore
    <3> QED
      BY <1>1, <1>9, <3>2, <3>3, <3>4, <3>8
  <2> QED
    BY <2>1, <2>2
<1>11. s.b.pinnedBytes <= s.budget
  BY <1>1, <1>8
<1>12. s.b.pinnedBytes = SumOf(bytes)
  BY <1>7, <1>8, <1>10
<1> QED
  BY <1>11, <1>12 DEF Counted, bytes

\* A block is held whole, or left whole to the ring.
LEMMA PinsDivided ==
  ASSUME NEW g, HeaderOK(g), NEW c, Qwen35ShapeOK(c), NEW mmap, NEW pins,
         pins.head \subseteq HeadSpan(g, c), PinsLoad(g, mmap, c, pins),
         \A need \in Qwen35Needs(g, c) : NeedOK(need) /\ Placed(need, c.layers),
         NEW s, s.b = Pinned(g, mmap, c, pins)
  PROVE  /\ Divided(s)
         /\ \A w \in Packed(s) : InBlock(w) \subseteq DOMAIN s.b.spans
                                 /\ w.src.kind \in {"mapped", "owned"}
<1>1. /\ s.b.weights = {WeightAt(g, PlaceOf(g, mmap, pins, need), need) :
                          need \in Qwen35Needs(g, c)}
      /\ DOMAIN s.b.spans = 0..(c.layers - 1)
      /\ \A l \in 0..(c.layers - 1) :
           s.b.spans[l] = IF l \in pins.blocks THEN NoSpan ELSE BlockSpan(g, l)
  BY DEF Pinned, Backend
<1> SUFFICES ASSUME NEW w \in Packed(s)
             PROVE  /\ \A l \in InBlock(w) \cap DOMAIN s.b.spans :
                         /\ w.src.kind = "owned" => s.b.spans[l].len = 0
                         /\ w.src.kind = "mapped" /\ HasBytes(w) => s.b.spans[l].len > 0
                    /\ InBlock(w) \subseteq DOMAIN s.b.spans
                    /\ w.src.kind \in {"mapped", "owned"}
  BY DEF Divided
<1>2. PICK need \in Qwen35Needs(g, c) : w = WeightAt(g, PlaceOf(g, mmap, pins, need), need)
  BY <1>1 DEF Packed
<1> DEFINE src == PlaceOf(g, mmap, pins, need)
           t == TensorOf(g, need.name)
<1>3. w.src.kind # "ram" /\ w.src = src /\ w.name = need.name /\ w.type = t.type
      /\ w.rows = need.rows /\ w.cols = need.cols
  BY <1>2 DEF Packed, WeightAt
<1>4. /\ InBlock(w) \subseteq 0..(c.layers - 1)
      /\ w.src.kind \in {"mapped", "owned"}
      /\ w.src.kind = "owned" <=> \/ need.name = <<"output">> /\ pins.head # {}
                                  \/ InBlock(w) \cap pins.blocks # {}
      /\ need.name = <<"output">> => InBlock(w) = {}
      /\ InBlock(w) = IF Len(need.name) > 1 THEN {need.name[1]} ELSE {}
  BY <1>2, <1>3, WhereIs
<1>5. ASSUME NEW l \in InBlock(w), w.src.kind = "owned" PROVE s.b.spans[l].len = 0
  <2>1. l \in pins.blocks /\ l \in 0..(c.layers - 1)
    BY <1>4, <1>5
  <2> QED
    BY <1>1, <2>1 DEF NoSpan
<1>6. ASSUME NEW l \in InBlock(w), w.src.kind = "mapped", HasBytes(w)
      PROVE  s.b.spans[l].len > 0
  <2>1. l \notin pins.blocks /\ l \in 0..(c.layers - 1) /\ Len(need.name) > 1
        /\ need.name[1] = l
    BY <1>4, <1>6
  <2>2. s.b.spans[l] = BlockSpan(g, l)
    BY <1>1, <2>1
  <2>3. Loads(g, src, need)
    BY DEF PinsLoad
  <2>4. /\ t \in ToSet(g.tensors) /\ t.name = need.name
        /\ NElements(t) = need.rows * need.cols /\ Sized(t.type, NElements(t))
    BY <2>3, TensorIn DEF Loads
  <2>5. SizeOf(t) > 0
    BY <1>3, <1>6, <2>4 DEF HasBytes, SizeOf
  <2> DEFINE span == BlockSpan(g, l)
  <2>6. SpanOK(span) /\ span.start <= StartOf(g, t)
        /\ StartOf(g, t) + SizeOf(t) <= span.start + span.len
    BY <2>1, <2>4, BlockSpanAround
  <2>7. StartOf(g, t) \in Nat /\ SizeOf(t) \in Nat
    BY <2>4, TensorNat, SizeNat
  <2> HIDE DEF span, t
  <2>8. span.len > 0
    BY <2>5, <2>6, <2>7 DEF SpanOK
  <2> QED
    BY <2>2, <2>8 DEF span
<1> QED
  BY <1>1, <1>4, <1>5, <1>6

LEMMA Qwen35Kept ==
  ASSUME NEW g, HeaderOK(g), NEW mmap, NEW budget \in Nat, Qwen35Loads(g, mmap, budget),
         NEW s, s.b = Qwen35Backend(g, mmap, budget), s.budget = budget
  PROVE  /\ Counted(s) /\ Divided(s)
         /\ \A w \in Packed(s) : InBlock(w) \subseteq DOMAIN s.b.spans
                                 /\ w.src.kind \in {"mapped", "owned"}
<1> DEFINE c == Qwen35Shape(g)
           spent == Budget(mmap, budget)
           pins == Pins(g, c, spent)
<1>1. Qwen35ShapeOK(c)
  BY Qwen35ShapeNat DEF Qwen35Loads
<1>2. spent \in Nat /\ spent <= budget
  BY DEF Budget
<1>3. PinsLoad(g, mmap, c, pins)
  BY DEF Qwen35Loads
<1>4. s.b = Pinned(g, mmap, c, pins)
  BY DEF Qwen35Backend
<1>5. \A need \in Qwen35Needs(g, c) : NeedOK(need) /\ Placed(need, c.layers)
  BY Qwen35NeedsOK DEF Qwen35Loads
<1>6. pins.head \subseteq HeadSpan(g, c)
  BY DEF Pins
<1> HIDE DEF c, spent
<1>7. [bytes |-> pins.bytes, blocks |-> pins.blocks] \in
        MayHold(g, c.layers, HeadTakes(pins.head), spent, 0..(c.layers - 1))
  BY <1>1, <1>2, PinsHold
<1> HIDE DEF pins
<1>8. Counted(s)
  BY <1>1, <1>2, <1>4, <1>5, <1>6, <1>7, PinsCounted
<1>9. /\ Divided(s)
      /\ \A w \in Packed(s) : InBlock(w) \subseteq DOMAIN s.b.spans
                              /\ w.src.kind \in {"mapped", "owned"}
  BY <1>1, <1>3, <1>4, <1>5, <1>6, PinsDivided
<1> QED
  BY <1>8, <1>9

LEMMA LlamaKept ==
  ASSUME NEW g, NEW mmap, NEW s, s.b = LlamaBackend(g, mmap), s.budget \in Nat
  PROVE  Counted(s) /\ Divided(s)
<1>1. s.b.spans = <<>> /\ s.b.pinnedBytes = 0
  BY DEF LlamaBackend, Backend
<1>2. \A w \in s.b.weights : w.src.kind \in {"mapped", "ram"}
  BY DEF LlamaBackend, Backend, WeightAt, SourceOf, Mapped, InRam
<1>3. HeldBy(s) = {}
  BY <1>2 DEF HeldBy, Packed
<1>4. Divided(s)
  <2>1. DOMAIN s.b.spans = {}
    BY <1>1
  <2> QED
    BY <2>1 DEF Divided
<1> DEFINE bytes == [place \in HeldBy(s) |-> place[2].len]
<1>5. SumOf(bytes) = 0
  <2>1. bytes = [place \in {} |-> bytes[place]]
    BY <1>3
  <2>2. SumOf(bytes) = Sum(bytes, {})
    BY <2>1 DEF Sum
  <2> HIDE DEF bytes
  <2>3. Sum(bytes, {}) = 0
    BY FS_EmptySet, SumAny
  <2> QED
    BY <2>2, <2>3
<1>6. s.b.pinnedBytes <= s.budget
  BY <1>1
<1> QED
  BY <1>1, <1>4, <1>5, <1>6 DEF Counted

\* What one model is served from.
LEMMA ServedBacks ==
  ASSUME BootOK, NEW s \in Serving
  PROVE  /\ HeaderOK(s.g) /\ s.budget \in Nat
         /\ \/ \E mmap : Qwen35Loads(s.g, mmap, s.budget)
                         /\ s.b = Qwen35Backend(s.g, mmap, s.budget)
            \/ s.ahead # "streamer" /\ \E mmap : s.b = LlamaBackend(s.g, mmap)
         /\ s.ahead = "streamer" => Now.target = {s.b}
<1> DEFINE conf == Cases[boot.case].config
           g == Now.header
           d == Now.draftHeader
<1>1. /\ HeaderOK(g) /\ HeaderOK(d)
      /\ Now.config = conf
      /\ \A b \in Now.target : TargetLoads(conf, g) /\ b = TargetOf(conf, g)
      /\ \A b \in Now.draft : DraftLoads(conf, d, g) /\ b = DraftOf(conf, d)
  BY NowIs DEF Outcome
<1>2. conf.budget \in Nat
  BY CasesAssumption DEF BootOK
<1> HIDE DEF conf, g, d
<1>3. CASE \E b \in Now.target : s = [g |-> g, b |-> b, ahead |-> boot.ahead,
                                      budget |-> Now.config.budget]
  <2>1. /\ s.g = g /\ s.b = TargetOf(conf, g) /\ s.ahead = boot.ahead
        /\ s.budget = conf.budget /\ TargetLoads(conf, g) /\ s.b \in Now.target
    BY <1>1, <1>3
  <2>2. Now.target = {s.b}
    BY <1>1, <2>1
  <2>3. CASE IsQwen35(g)
    BY <1>1, <1>2, <2>1, <2>2, <2>3 DEF TargetOf, TargetLoads
  <2>4. CASE ~IsQwen35(g)
    <3>1. s.ahead # "streamer"
      BY <2>1, <2>4 DEF BootOK, g
    <3> QED
      BY <1>1, <1>2, <2>1, <2>4, <3>1 DEF TargetOf, TargetLoads
  <2> QED
    BY <2>3, <2>4
<1>4. CASE \E b \in Now.draft : s = [g |-> d, b |-> b, ahead |-> "nothing", budget |-> 0]
  <2>1. /\ s.g = d /\ s.b = DraftOf(conf, d) /\ s.ahead = "nothing" /\ s.budget = 0
        /\ DraftLoads(conf, d, g)
    BY <1>1, <1>4
  <2> QED
    BY <1>1, <2>1 DEF DraftOf, DraftLoads
<1> QED
  BY <1>3, <1>4 DEF Serving, ServingFrom, g, d

LEMMA ServedKept ==
  ASSUME BootOK, NEW s \in Serving
  PROVE  /\ Counted(s) /\ Divided(s)
         /\ s.ahead = "streamer" =>
              /\ Now.target = {s.b}
              /\ \A w \in Packed(s) : InBlock(w) \subseteq DOMAIN s.b.spans
                                      /\ w.src.kind \in {"mapped", "owned"}
<1>1. /\ HeaderOK(s.g) /\ s.budget \in Nat
      /\ \/ \E mmap : Qwen35Loads(s.g, mmap, s.budget)
                      /\ s.b = Qwen35Backend(s.g, mmap, s.budget)
         \/ s.ahead # "streamer" /\ \E mmap : s.b = LlamaBackend(s.g, mmap)
      /\ s.ahead = "streamer" => Now.target = {s.b}
  BY ServedBacks
<1>2. CASE \E mmap : Qwen35Loads(s.g, mmap, s.budget)
                     /\ s.b = Qwen35Backend(s.g, mmap, s.budget)
  <2>1. PICK mmap : Qwen35Loads(s.g, mmap, s.budget)
                    /\ s.b = Qwen35Backend(s.g, mmap, s.budget)
    BY <1>2
  <2> QED
    BY <1>1, <2>1, Qwen35Kept
<1>3. CASE s.ahead # "streamer" /\ \E mmap : s.b = LlamaBackend(s.g, mmap)
  BY <1>1, <1>3, LlamaKept
<1> QED
  BY <1>1, <1>2, <1>3

\* A server that runs was given what the loader left.
DealtOut == Running => pinned = Blocks \ LeftToStream

LEMMA DealtMoves == BootOK /\ DealtOut /\ [EngineNext]_engineVars => DealtOut'
<1> SUFFICES ASSUME BootOK, DealtOut, [EngineNext]_engineVars PROVE DealtOut'
  OBVIOUS
<1>1. boot'.case = boot.case => LeftToStream' = LeftToStream
  BY DEF LeftToStream, Now, Prepared, Blocks
<1>2. CASE EngineStart
  <2>1. boot'.case = boot.case
    <3> DEFINE o == Now
    <3>1. Step(o)
      BY <1>2 DEF EngineStart, StartNext
    <3> HIDE DEF o
    <3>2. /\ \A phase : Go(phase) => boot'.case = boot.case
          /\ \A ahead, phase : boot' = [boot EXCEPT !.ahead = ahead, !.phase = phase]
                              => boot'.case = boot.case
      BY DEF Go, BootOK
    <3>3. Wire(o.config, o.header) => boot'.case = boot.case
      BY <3>2 DEF Wire
    <3> QED
      BY <3>1, <3>2, <3>3 DEF Step, Validate, OpenCheckpoint, ParseCheckpoint, LoadTarget,
        LoadDraft
  <2>2. Running' => pinned' = Blocks \ LeftToStream
    BY <1>2 DEF EngineStart
  <2> QED
    BY <1>1, <2>1, <2>2 DEF DealtOut, Blocks
<1>3. CASE UNCHANGED <<pinned, boot>>
  <2>1. Running' <=> Running
    BY <1>3 DEF Running
  <2> QED
    BY <1>1, <1>3, <2>1 DEF DealtOut, Blocks
<1>4. CASE EngineRuns
  <2>1. ASSUME NEW p \in Passes, Begin(p) \/ PassStep(p) PROVE UNCHANGED pinned
    <3>1. CASE Begin(p)
      BY <3>1 DEF Begin
    <3>2. CASE HintAhead(p) \/ RunLayer(p)
      BY <3>2 DEF HintAhead, RunLayer
    <3>3. CASE Borrow(p)
      BY <3>3 DEF Borrow
    <3>4. CASE ReadInline(p)
      BY <3>4 DEF ReadInline
    <3>5. CASE Attend(p) \/ Recur(p) \/ FeedForward(p)
      BY <3>5 DEF Attend, Recur, FeedForward, Leave
    <3> QED
      BY <2>1, <3>1, <3>2, <3>3, <3>4, <3>5 DEF PassStep
  <2>2. ASSUME NEW r \in Readers, TakeHint(r) \/ Fetch(r) \/ Prefetch(r)
        PROVE  UNCHANGED pinned
    BY <2>2 DEF TakeHint, Fetch, Prefetch
  <2>3. UNCHANGED <<pinned, boot>>
    BY <1>4, <2>1, <2>2 DEF EngineRuns, Next
  <2> QED
    BY <1>3, <2>3
<1> QED
  BY <1>2, <1>3, <1>4 DEF EngineNext, engineVars, vars

\* A model that is streamed is streamed in just those blocks.
LEMMA DealtWhole == BootOK /\ DealtOut => PinnedOrStreamed
<1> SUFFICES ASSUME BootOK, DealtOut PROVE PinnedOrStreamed
  OBVIOUS
<1>1. PinsKept
  BY ServedKept DEF PinsKept, Counted, Divided, HeldBy
<1>2. ASSUME Running, NEW s \in Serving, s.ahead = "streamer", NEW w \in Packed(s),
             NEW l \in InBlock(w) \cap Blocks, HasBytes(w)
      PROVE  l \in pinned <=> w.src.kind = "owned"
  <2>1. /\ Divided(s) /\ Now.target = {s.b} /\ InBlock(w) \subseteq DOMAIN s.b.spans
        /\ w.src.kind \in {"mapped", "owned"}
    BY <1>2, ServedKept
  <2>2. l \in pinned <=> ~(s.b.spans[l].len > 0)
    BY <1>2, <2>1 DEF DealtOut, LeftToStream
  <2>3. /\ w.src.kind = "owned" => s.b.spans[l].len = 0
        /\ w.src.kind = "mapped" => s.b.spans[l].len > 0
    BY <1>2, <2>1 DEF Divided
  <2> QED
    BY <2>1, <2>2, <2>3
<1> QED
  BY <1>1, <1>2 DEF PinnedOrStreamed

-----------------------------------------------------------------------------
(* What is warmed for an expert.                                           *)

(* A mixture's file that is laid out as files are: no two tensors overlap, *)
(* and the networks' matrices have rows, each whole blocks of its type and *)
(* of a byte at least.                                                     *)
LaidApart(g) ==
  /\ \A t, u \in ToSet(g.tensors) : t.name # u.name =>
       \/ StartOf(g, t) + SizeOf(t) <= StartOf(g, u)
       \/ StartOf(g, u) + SizeOf(u) <= StartOf(g, t)
  /\ \A l \in 0..(LlamaShape(g).layers - 1) : \A need \in FfnNeeds(g, LlamaShape(g), l) :
       LET type == TensorOf(g, need.name).type
       IN need.rows > 0 /\ Sized(type, need.cols) /\ ByteSize(type, need.cols) > 0

\* The matrices of an expert's network.
Kinds == {"ffn_gate", "ffn_up", "ffn_down"}

\* Their shape.
RowCount(c, kind) == IF kind = "ffn_down" THEN c.d ELSE c.f
ColCount(c, kind) == IF kind = "ffn_down" THEN c.f ELSE c.d

\* The matrix that has every expert's, one after the other.
Stack(kind) ==
  CASE kind = "ffn_gate" -> "ffn_gate_exps" [] kind = "ffn_up" -> "ffn_up_exps"
    [] kind = "ffn_down" -> "ffn_down_exps"

\* Part of matrix w: n of its rows from one on.
Piece(w, from, n) == [w |-> w, from |-> from, n |-> n]

\* The pieces that are expert e of block l.
Pieces(s, c, l, e) ==
  UNION {{Piece(w, e * RowCount(c, kind), RowCount(c, kind)) :
            w \in {v \in Packed(s) : v.name = <<l, Stack(kind)>>}}
          \cup {Piece(w, 0, RowCount(c, kind)) :
                  w \in {v \in Packed(s) : v.name = <<l, kind, e>>}} : kind \in Kinds}

RowBytes(w) == ByteSize(w.type, w.cols)

\* What block l asks for under the names of that matrix is that matrix.
NamesIt(c, l, need, kind) ==
  /\ \A b : need.name = <<b, Stack(kind)>> =>
       /\ b = l /\ c.experts > 0
       /\ need = Weight(<<l, Stack(kind)>>, c.experts * RowCount(c, kind), ColCount(c, kind))
  /\ \A b, e : need.name = <<b, kind, e>> =>
       /\ b = l /\ e \in 0..(c.experts - 1)
       /\ need = Weight(<<l, kind, e>>, RowCount(c, kind), ColCount(c, kind))

LEMMA KindsAre ==
  /\ \A kind \in Kinds : kind = "ffn_gate" \/ kind = "ffn_up" \/ kind = "ffn_down"
  /\ Stack("ffn_gate") = "ffn_gate_exps" /\ Stack("ffn_up") = "ffn_up_exps"
  /\ Stack("ffn_down") = "ffn_down_exps"
  /\ \A x, y \in Kinds : Stack(x) = Stack(y) => x = y
<1>1. /\ Stack("ffn_gate") = "ffn_gate_exps" /\ Stack("ffn_up") = "ffn_up_exps"
      /\ Stack("ffn_down") = "ffn_down_exps"
  BY DEF Stack
<1> QED
  BY <1>1 DEF Kinds

\* What is asked for under the name of an expert's matrix is that matrix.
LEMMA FfnNamed ==
  ASSUME NEW g, NEW c, c.experts \in Nat, NEW l, NEW need \in FfnNeeds(g, c, l), NEW kind \in Kinds
  PROVE  NamesIt(c, l, need, kind)
<1> USE DEF NamesIt
<1>0. \A name, rows, cols : Weight(name, rows, cols).name = name
  BY DEF Weight
<1>1. \A b, x, m, y : <<b, x>> = <<m, y>> => b = m /\ x = y
  OBVIOUS
<1>2. \A b, x, e, m, y, k : <<b, x, e>> = <<m, y, k>> => b = m /\ x = y /\ e = k
  OBVIOUS
<1>3. \A b, x, m, y, k : <<b, x>> # <<m, y, k>>
  <2> SUFFICES ASSUME NEW b, NEW x, NEW m, NEW y, NEW k, <<b, x>> = <<m, y, k>> PROVE FALSE
    OBVIOUS
  <2>1. Len(<<b, x>>) = 2 /\ Len(<<m, y, k>>) = 3
    OBVIOUS
  <2> QED
    BY <2>1
<1>4. CASE /\ c.experts > 0 /\ HasTensor(g, <<l, "ffn_gate_exps">>)
  <2>1. need \in {Weight(<<l, "ffn_gate_inp">>, c.experts, c.d),
                  Weight(<<l, "ffn_gate_exps">>, c.experts * c.f, c.d),
                  Weight(<<l, "ffn_up_exps">>, c.experts * c.f, c.d),
                  Weight(<<l, "ffn_down_exps">>, c.experts * c.d, c.f)}
    BY <1>4 DEF FfnNeeds
  <2> QED
    BY <1>0, <1>1, <1>3, <1>4, <2>1, KindsAre DEF RowCount, ColCount
<1>5. CASE /\ ~(c.experts > 0 /\ HasTensor(g, <<l, "ffn_gate_exps">>))
           /\ c.experts > 0 /\ HasTensor(g, <<l, "ffn_gate", 0>>)
  <2>1. \/ need = Weight(<<l, "ffn_gate_inp">>, c.experts, c.d)
        \/ \E e \in 0..(c.experts - 1) : \E k \in Kinds :
             need = Weight(<<l, k, e>>, RowCount(c, k), ColCount(c, k))
    BY <1>5 DEF FfnNeeds, Kinds, RowCount, ColCount
  <2>2. CASE need = Weight(<<l, "ffn_gate_inp">>, c.experts, c.d)
    BY <1>0, <1>1, <1>3, <2>2, KindsAre
  <2>3. ASSUME NEW e \in 0..(c.experts - 1), NEW k \in Kinds,
               need = Weight(<<l, k, e>>, RowCount(c, k), ColCount(c, k))
        PROVE  /\ \A b : need.name # <<b, Stack(kind)>>
               /\ \A b, x : need.name = <<b, kind, x>> => b = l /\ kind = k /\ x = e
    BY <1>0, <1>2, <1>3, <2>3
  <2>4. ASSUME NEW e \in 0..(c.experts - 1), NEW k \in Kinds,
               need = Weight(<<l, k, e>>, RowCount(c, k), ColCount(c, k)),
               NEW b, NEW x, need.name = <<b, kind, x>>
        PROVE  /\ b = l /\ x \in 0..(c.experts - 1)
               /\ need = Weight(<<l, kind, x>>, RowCount(c, kind), ColCount(c, kind))
    <3>1. b = l /\ kind = k /\ x = e
      BY <2>3, <2>4
    <3> QED
      BY <2>4, <3>1
  <2>5. \A b : need.name # <<b, Stack(kind)>>
    <3>1. CASE need = Weight(<<l, "ffn_gate_inp">>, c.experts, c.d)
      <4>1. need.name = <<l, "ffn_gate_inp">>
        BY <1>0, <3>1
      <4>2. Stack(kind) # "ffn_gate_inp"
        BY KindsAre
      <4> QED
        BY <1>1, <4>1, <4>2
    <3> QED
      BY <2>1, <2>3, <3>1
  <2>6. ASSUME NEW b, NEW x, need.name = <<b, kind, x>>
        PROVE  /\ b = l /\ x \in 0..(c.experts - 1)
               /\ need = Weight(<<l, kind, x>>, RowCount(c, kind), ColCount(c, kind))
    <3>1. need # Weight(<<l, "ffn_gate_inp">>, c.experts, c.d)
      BY <1>0, <1>3, <2>6
    <3> QED
      BY <2>1, <2>4, <2>6, <3>1
  <2> QED
    BY <2>5, <2>6
<1>6. CASE /\ ~(c.experts > 0 /\ HasTensor(g, <<l, "ffn_gate_exps">>))
           /\ ~(c.experts > 0 /\ HasTensor(g, <<l, "ffn_gate", 0>>))
  <2>1. \E k \in Kinds : need.name = <<l, k>>
    BY <1>0, <1>6 DEF FfnNeeds, Kinds
  <2> QED
    BY <1>1, <1>3, <2>1, KindsAre
<1> QED
  BY <1>4, <1>5, <1>6

LEMMA LlamaNamed ==
  ASSUME NEW g, NEW c, NEW need \in LlamaNeeds(g, c), NEW kind \in Kinds, NEW b,
         need.name = <<b, Stack(kind)>> \/ \E e : need.name = <<b, kind, e>>
  PROVE  \E l \in 0..(c.layers - 1) : need \in FfnNeeds(g, c, l)
<1>1. \A name, rows, cols : Weight(name, rows, cols).name = name /\ Norm(name, cols).name = name
  BY DEF Weight, Norm
<1>2. Len(need.name) # 1
  <2>1. \A x : Len(<<b, x>>) = 2 /\ \A y : Len(<<b, x, y>>) = 3
    OBVIOUS
  <2> QED
    BY <2>1
<1>3. ASSUME NEW m, NEW x, need.name = <<m, x>> PROVE x = Stack(kind)
  <2>1. \A y, z : Len(<<b, y, z>>) = 3 /\ Len(<<m, x>>) = 2
    OBVIOUS
  <2>2. \A e : need.name # <<b, kind, e>>
    BY <1>3, <2>1
  <2>3. <<m, x>> = <<b, Stack(kind)>>
    BY <1>3, <2>2
  <2> QED
    BY <2>3
<1>4. CASE need \in {Weight(<<"token_embd">>, c.vocab, c.d), Norm(<<"output_norm">>, c.d)}
           \/ need \in HeadNeeds(g, c)
  <2>1. \E x : need.name = <<x>>
    BY <1>1, <1>4 DEF HeadNeeds
  <2>2. \A x : Len(<<x>>) = 1
    OBVIOUS
  <2> QED
    BY <1>2, <2>1, <2>2
<1>5. ASSUME NEW l \in 0..(c.layers - 1),
             need \in {Norm(<<l, "attn_norm">>, c.d), Norm(<<l, "ffn_norm">>, c.d),
                 Weight(<<l, "attn_q">>, c.d, c.d), Weight(<<l, "attn_k">>, c.kvDim, c.d),
                 Weight(<<l, "attn_v">>, c.kvDim, c.d), Weight(<<l, "attn_output">>, c.d, c.d)}
      PROVE  FALSE
  <2>1. \E x \in {"attn_norm", "ffn_norm", "attn_q", "attn_k", "attn_v", "attn_output"} :
          need.name = <<l, x>>
    BY <1>1, <1>5
  <2>2. Stack(kind) \in {"ffn_gate_exps", "ffn_up_exps", "ffn_down_exps"}
    BY KindsAre
  <2> QED
    BY <1>3, <2>1, <2>2
<1> QED
  BY <1>4, <1>5 DEF LlamaNeeds

\* Called name and rows high, a matrix is expert e's of block l, or has it.
OfExpert(c, kind, l, e, name, rows) ==
  \/ name = <<l, Stack(kind)>> /\ rows = c.experts * RowCount(c, kind)
  \/ name = <<l, kind, e>> /\ rows = RowCount(c, kind)

\* Matrix w is what block l asked for, and it was loaded.
LoadedAs(g, c, l, w, need) ==
  /\ l \in 0..(c.layers - 1) /\ need \in FfnNeeds(g, c, l)
  /\ NeedOK(need) /\ Loads(g, Mapped(g), need) /\ w = WeightAt(g, Mapped(g), need)

\* A packed matrix of an expert's name: what it is, and that it was loaded.
LEMMA ExpertMatrix ==
  ASSUME NEW g, HeaderOK(g), NEW mmap, LlamaLoads(g, mmap), NEW c, c = LlamaShape(g),
         NEW s, s.b = LlamaBackend(g, mmap), NEW w \in Packed(s), NEW kind \in Kinds, NEW l,
         NEW e, NEW rows, OfExpert(c, kind, l, e, w.name, rows)
  PROVE  LoadedAs(g, c, l, w, Weight(w.name, rows, ColCount(c, kind)))
<1> DEFINE name == w.name
<1>1. LlamaConfigures(g) /\ LlamaShapeOK(c)
  BY LlamaShapeNat DEF LlamaLoads
<1>2. PICK need \in LlamaNeeds(g, c) : w = WeightAt(g, SourceOf(g, mmap, need), need)
  BY DEF LlamaBackend, Backend, Packed
<1>3. w.src = SourceOf(g, mmap, need) /\ w.name = need.name /\ w.src.kind # "ram"
  BY <1>2 DEF WeightAt, Packed
<1>4. SourceOf(g, mmap, need) = Mapped(g)
  BY <1>3 DEF SourceOf, InRam
<1>5. Loads(g, Mapped(g), need)
  BY <1>4 DEF LlamaLoads
<1>6. PICK k \in 0..(c.layers - 1) : need \in FfnNeeds(g, c, k)
  <2>1. need.name = <<l, Stack(kind)>> \/ \E x : need.name = <<l, kind, x>>
    BY <1>3 DEF OfExpert
  <2> QED
    BY <2>1, LlamaNamed
<1>7. need = Weight(name, rows, ColCount(c, kind)) /\ k = l
  <2>1. /\ \A b : need.name = <<b, Stack(kind)>> =>
             /\ b = k /\ c.experts > 0
             /\ need = Weight(<<k, Stack(kind)>>, c.experts * RowCount(c, kind), ColCount(c, kind))
        /\ \A b, x : need.name = <<b, kind, x>> =>
             /\ b = k /\ x \in 0..(c.experts - 1)
             /\ need = Weight(<<k, kind, x>>, RowCount(c, kind), ColCount(c, kind))
    <3>1. c.experts \in Nat /\ need \in FfnNeeds(g, c, k)
      BY <1>1, <1>6 DEF LlamaShapeOK
    <3>2. NamesIt(c, k, need, kind)
      BY <3>1, FfnNamed
    <3> QED
      BY <3>2 DEF NamesIt
  <2>2. CASE name = <<l, Stack(kind)>> /\ rows = c.experts * RowCount(c, kind)
    <3>1. need.name = <<l, Stack(kind)>>
      BY <1>3, <2>2
    <3>2. l = k /\ need = Weight(<<k, Stack(kind)>>, c.experts * RowCount(c, kind), ColCount(c, kind))
      BY <2>1, <3>1
    <3> QED
      BY <2>2, <3>2
  <2>3. CASE name = <<l, kind, e>> /\ rows = RowCount(c, kind)
    <3>1. need.name = <<l, kind, e>>
      BY <1>3, <2>3
    <3>2. l = k /\ need = Weight(<<k, kind, e>>, RowCount(c, kind), ColCount(c, kind))
      BY <2>1, <3>1
    <3> QED
      BY <2>3, <3>2
  <2> QED
    BY <2>2, <2>3 DEF OfExpert
<1>8. NeedOK(need)
  BY <1>1, LlamaNeedsOK
<1> QED
  BY <1>2, <1>4, <1>5, <1>6, <1>7, <1>8 DEF LoadedAs

\* Rows of a matrix that there are, between two places of the file.
PieceOK(g, p) ==
  LET t == TensorOf(g, p.w.name)
  IN /\ t \in ToSet(g.tensors) /\ t.name = p.w.name /\ SizeOf(t) \in Nat
     /\ p.w.src.base = 0 /\ p.w.start \in Nat /\ p.w.start = StartOf(g, t)
     /\ RowBytes(p.w) \in Nat /\ RowBytes(p.w) > 0
     /\ p.w.cols \in Nat /\ Sized(p.w.type, p.w.cols)
     /\ p.w.rows \in Nat /\ p.w.rows * RowBytes(p.w) <= SizeOf(t)
     /\ p.from \in Nat /\ p.n \in Nat /\ p.n > 0 /\ p.from + p.n <= p.w.rows

LEMMA MatrixSpans ==
  ASSUME NEW g, HeaderOK(g), LaidApart(g), NEW c, c = LlamaShape(g), NEW l \in 0..(c.layers - 1),
         NEW need \in FfnNeeds(g, c, l), NeedOK(need), Loads(g, Mapped(g), need),
         NEW from \in Nat, NEW n \in Nat, n > 0, from + n <= need.rows
  PROVE  PieceOK(g, Piece(WeightAt(g, Mapped(g), need), from, n))
<1> DEFINE w == WeightAt(g, Mapped(g), need)
           t == TensorOf(g, need.name)
           size == ByteSize(t.type, NElements(t))
           row == ByteSize(w.type, w.cols)
           p == Piece(w, from, n)
<1>0. PlaceOK(g, Mapped(g))
  BY DEF Mapped, PlaceOK, HeaderOK
<1>1. /\ t \in ToSet(g.tensors) /\ t.name = need.name
      /\ SizeOf(t) = size /\ size \in Nat /\ StartOf(g, t) \in Nat /\ row \in Nat
      /\ w.name = need.name /\ w.type = t.type /\ w.src = Mapped(g)
      /\ w.start + Mapped(g).base = StartOf(g, t) /\ w.start \in Nat
      /\ \A r \in 0..(w.rows - 1) : r * row \in Nat /\ r * row + row <= size
  BY <1>0, LoadedFits
<1>2. w.rows = need.rows /\ w.cols = need.cols /\ w.rows \in Nat
  BY DEF WeightAt, NeedOK
<1>3. Mapped(g).base = 0
  BY DEF Mapped
<1>4. row > 0 /\ w.cols \in Nat /\ Sized(w.type, w.cols)
  BY <1>1, <1>2 DEF LaidApart, NeedOK
<1> HIDE DEF w, t, size, row
<1>5. w.rows * row <= size
  <2>1. w.rows - 1 \in 0..(w.rows - 1)
    BY <1>2
  <2>2. (w.rows - 1) * row + row <= size
    BY <1>1, <2>1
  <2>3. w.rows * row = (w.rows - 1) * row + row
    BY <1>1, <1>2
  <2> QED
    BY <2>2, <2>3
<1>6. p.w = w /\ p.from = from /\ p.n = n
  BY DEF Piece
<1>7. w.start = StartOf(g, t) /\ TensorOf(g, w.name) = t /\ RowBytes(w) = row
  BY <1>1, <1>3 DEF t, RowBytes, row
<1> HIDE DEF p
<1>8. PieceOK(g, p)
  BY <1>1, <1>2, <1>3, <1>4, <1>5, <1>6, <1>7 DEF PieceOK
<1> QED
  BY <1>8 DEF p, w

\* The rows of a piece begin at these bytes, and it is this range.
PieceRows(p) == {p.w.start + r * RowBytes(p.w) : r \in p.from..(p.from + p.n - 1)}
PieceRange(p) == [start |-> p.w.start + p.from * RowBytes(p.w), len |-> p.n * RowBytes(p.w)]
PieceRanges(s, c, l, e) == {PieceRange(p) : p \in Pieces(s, c, l, e)}

\* A loaded mixture, one of its blocks and one of its experts.
Mixture(g, mmap, s, c) ==
  /\ HeaderOK(g) /\ LlamaLoads(g, mmap) /\ LaidApart(g)
  /\ c = LlamaShape(g) /\ s.b = LlamaBackend(g, mmap)

LEMMA PieceIs ==
  ASSUME NEW g, NEW mmap, NEW s, NEW c, Mixture(g, mmap, s, c), NEW l,
         NEW e \in 0..(c.experts - 1), NEW p \in Pieces(s, c, l, e)
  PROVE  /\ PieceOK(g, p) /\ p.w \in Packed(s)
         /\ \E kind \in Kinds :
              /\ p.n = RowCount(c, kind)
              /\ \/ /\ p.w.name = <<l, Stack(kind)>> /\ p.from = e * RowCount(c, kind)
                    /\ p.w.rows = c.experts * RowCount(c, kind)
                 \/ /\ p.w.name = <<l, kind, e>> /\ p.from = 0 /\ p.w.rows = RowCount(c, kind)
              /\ p.w = WeightAt(g, Mapped(g), Weight(p.w.name, p.w.rows, ColCount(c, kind)))
<1>1. HeaderOK(g) /\ LlamaLoads(g, mmap) /\ LaidApart(g) /\ c = LlamaShape(g)
      /\ s.b = LlamaBackend(g, mmap)
  BY DEF Mixture
<1>2. c.experts \in Nat /\ c.d \in Nat /\ c.f \in Nat /\ e \in Nat /\ e + 1 <= c.experts
  BY <1>1, LlamaShapeNat DEF LlamaShapeOK, LlamaLoads
<1>3. PICK kind \in Kinds :
        \/ \E w \in Packed(s) : /\ w.name = <<l, Stack(kind)>>
                                /\ p = Piece(w, e * RowCount(c, kind), RowCount(c, kind))
        \/ \E w \in Packed(s) : /\ w.name = <<l, kind, e>>
                                /\ p = Piece(w, 0, RowCount(c, kind))
  BY DEF Pieces
<1> DEFINE n == RowCount(c, kind)
<1>4. n \in Nat
  BY <1>2 DEF RowCount
<1>5. \A name, rows, cols : /\ Weight(name, rows, cols).rows = rows
                            /\ Weight(name, rows, cols).name = name
  BY DEF Weight
<1>6. \A w, from, k : Piece(w, from, k).w = w /\ Piece(w, from, k).from = from
                      /\ Piece(w, from, k).n = k
  BY DEF Piece
<1>7. ASSUME NEW w \in Packed(s), w.name = <<l, Stack(kind)>>, p = Piece(w, e * n, n)
      PROVE  /\ PieceOK(g, p) /\ p.w \in Packed(s) /\ p.n = n
             /\ p.w.name = <<l, Stack(kind)>> /\ p.from = e * n /\ p.w.rows = c.experts * n
             /\ p.w = WeightAt(g, Mapped(g), Weight(p.w.name, p.w.rows, ColCount(c, kind)))
  <2> DEFINE need == Weight(w.name, c.experts * n, ColCount(c, kind))
  <2>1. /\ l \in 0..(c.layers - 1) /\ need \in FfnNeeds(g, c, l)
        /\ NeedOK(need) /\ Loads(g, Mapped(g), need) /\ w = WeightAt(g, Mapped(g), need)
    <3> DEFINE rows == c.experts * RowCount(c, kind)
    <3>1. OfExpert(c, kind, l, e, w.name, rows)
      BY <1>7 DEF OfExpert
    <3> HIDE DEF rows
    <3>2. LoadedAs(g, c, l, w, Weight(w.name, rows, ColCount(c, kind)))
      BY <1>1, <1>7, <3>1, ExpertMatrix
    <3>3. LoadedAs(g, c, l, w, need)
      BY <3>2 DEF rows
    <3> HIDE DEF need
    <3> QED
      BY <3>3 DEF LoadedAs
  <2>2. need.rows = c.experts * n
    BY <1>5
  <2>3. need.rows > 0
    BY <1>1, <2>1 DEF LaidApart
  <2>4. w.rows = need.rows
    BY <2>1 DEF WeightAt
  <2> HIDE DEF need, n
  <2>5. n > 0
    <3>1. n = 0 => c.experts * n = 0
      BY <1>2
    <3> QED
      BY <1>4, <2>2, <2>3, <3>1
  <2>6. e * n \in Nat /\ e * n + n <= need.rows
    <3>1. (e + 1) * n <= c.experts * n
      BY <1>2, <1>4, TimesMonotone
    <3>2. (e + 1) * n = e * n + n /\ e * n \in Nat
      BY <1>2, <1>4
    <3> QED
      BY <2>2, <3>1, <3>2
  <2>7. PieceOK(g, p)
    BY <1>1, <1>4, <1>7, <2>1, <2>5, <2>6, MatrixSpans DEF n
  <2> QED
    BY <1>6, <1>7, <2>1, <2>2, <2>4, <2>7 DEF need, n
<1>8. ASSUME NEW w \in Packed(s), w.name = <<l, kind, e>>, p = Piece(w, 0, n)
      PROVE  /\ PieceOK(g, p) /\ p.w \in Packed(s) /\ p.n = n
             /\ p.w.name = <<l, kind, e>> /\ p.from = 0 /\ p.w.rows = n
             /\ p.w = WeightAt(g, Mapped(g), Weight(p.w.name, p.w.rows, ColCount(c, kind)))
  <2> DEFINE need == Weight(w.name, n, ColCount(c, kind))
  <2>1. /\ l \in 0..(c.layers - 1) /\ need \in FfnNeeds(g, c, l)
        /\ NeedOK(need) /\ Loads(g, Mapped(g), need) /\ w = WeightAt(g, Mapped(g), need)
    <3> DEFINE rows == RowCount(c, kind)
    <3>1. OfExpert(c, kind, l, e, w.name, rows)
      BY <1>8 DEF OfExpert
    <3> HIDE DEF rows
    <3>2. LoadedAs(g, c, l, w, Weight(w.name, rows, ColCount(c, kind)))
      BY <1>1, <1>8, <3>1, ExpertMatrix
    <3>3. LoadedAs(g, c, l, w, need)
      BY <3>2 DEF rows
    <3> HIDE DEF need
    <3> QED
      BY <3>3 DEF LoadedAs
  <2>2. need.rows = n
    BY <1>5
  <2>3. need.rows > 0
    BY <1>1, <2>1 DEF LaidApart
  <2>4. w.rows = need.rows
    BY <2>1 DEF WeightAt
  <2> HIDE DEF need, n
  <2>5. PieceOK(g, p)
    BY <1>1, <1>4, <1>8, <2>1, <2>2, <2>3, MatrixSpans DEF n
  <2> QED
    BY <1>6, <1>8, <2>1, <2>2, <2>4, <2>5 DEF need, n
<1> QED
  BY <1>3, <1>7, <1>8

\* Pieces of two experts: of two matrices, or apart in one.
LEMMA PiecesApart ==
  ASSUME NEW g, NEW mmap, NEW s, NEW c, Mixture(g, mmap, s, c), NEW l,
         NEW e \in 0..(c.experts - 1), NEW o \in 0..(c.experts - 1), e # o,
         NEW p \in Pieces(s, c, l, e), NEW q \in Pieces(s, c, l, o)
  PROVE  \/ p.w.name # q.w.name
         \/ p.w = q.w /\ (p.from + p.n <= q.from \/ q.from + q.n <= p.from)
<1>1. \A b, x, y : Len(<<b, x>>) = 2 /\ Len(<<b, x, y>>) = 3
  OBVIOUS
<1>2. \A b, x, e1, m, y, e2 : <<b, x, e1>> = <<m, y, e2>> => e1 = e2
  OBVIOUS
<1>0. \A b, x, m, y : <<b, x>> = <<m, y>> => x = y
  OBVIOUS
<1>3. PICK k \in Kinds :
        /\ p.n = RowCount(c, k)
        /\ \/ /\ p.w.name = <<l, Stack(k)>> /\ p.from = e * RowCount(c, k)
              /\ p.w.rows = c.experts * RowCount(c, k)
           \/ p.w.name = <<l, k, e>>
        /\ p.w = WeightAt(g, Mapped(g), Weight(p.w.name, p.w.rows, ColCount(c, k)))
  BY PieceIs
<1>4. PICK j \in Kinds :
        /\ q.n = RowCount(c, j)
        /\ \/ /\ q.w.name = <<l, Stack(j)>> /\ q.from = o * RowCount(c, j)
              /\ q.w.rows = c.experts * RowCount(c, j)
           \/ q.w.name = <<l, j, o>>
        /\ q.w = WeightAt(g, Mapped(g), Weight(q.w.name, q.w.rows, ColCount(c, j)))
  BY PieceIs
<1>5. CASE p.w.name = <<l, k, e>> \/ q.w.name = <<l, j, o>>
  <2>1. p.w.name # q.w.name
    <3> SUFFICES ASSUME p.w.name = q.w.name PROVE FALSE
      OBVIOUS
    <3>1. Len(p.w.name) = 3 /\ Len(q.w.name) = 3
      BY <1>1, <1>5
    <3>2. p.w.name = <<l, k, e>> /\ q.w.name = <<l, j, o>>
      BY <1>1, <1>3, <1>4, <3>1
    <3> QED
      BY <1>2, <3>2
  <2> QED
    BY <2>1
<1>6. CASE /\ p.w.name = <<l, Stack(k)>> /\ p.from = e * RowCount(c, k)
           /\ q.w.name = <<l, Stack(j)>> /\ q.from = o * RowCount(c, j)
           /\ p.w.rows = c.experts * RowCount(c, k) /\ q.w.rows = c.experts * RowCount(c, j)
           /\ p.w.name = q.w.name
  <2>1. k = j
    BY <1>6, <1>0, KindsAre
  <2>9. p.w = q.w
    BY <1>3, <1>4, <1>6, <2>1
  <2> DEFINE n == RowCount(c, k)
  <2>2. PieceOK(g, p)
    BY PieceIs
  <2>3. n \in Nat /\ e \in Nat /\ o \in Nat /\ p.from = e * n /\ q.from = o * n
        /\ p.n = n /\ q.n = n
    BY <1>3, <1>4, <1>6, <2>1, <2>2 DEF PieceOK
  <2> HIDE DEF n
  <2>4. ASSUME NEW a \in Nat, NEW b \in Nat, a < b PROVE a * n + n <= b * n
    <3>1. (a + 1) * n <= b * n
      BY <2>3, <2>4, TimesMonotone
    <3>2. (a + 1) * n = a * n + n
      BY <2>3
    <3> QED
      BY <3>1, <3>2
  <2>5. e < o \/ o < e
    BY <2>3
  <2> QED
    BY <2>3, <2>4, <2>5, <2>9
<1> QED
  BY <1>3, <1>4, <1>5, <1>6

\* The rows of an expert are those of its pieces.
LEMMA ExpertRowsAre ==
  ASSUME NEW g, NEW mmap, NEW s, NEW c, Mixture(g, mmap, s, c), NEW l,
         NEW e \in 0..(c.experts - 1)
  PROVE  ExpertRows(s, c, l, e) = UNION {PieceRows(p) : p \in Pieces(s, c, l, e)}
<1> DEFINE stacked == {<<l, "ffn_gate_exps">>, <<l, "ffn_up_exps">>, <<l, "ffn_down_exps">>}
           split == {<<l, "ffn_gate", e>>, <<l, "ffn_up", e>>, <<l, "ffn_down", e>>}
           Rows(w) == IF w.name \in split THEN 0..(w.rows - 1)
                      ELSE {r \in 0..(w.rows - 1) : r \div (w.rows \div c.experts) = e}
           Begun(w) == {RowAt(w, r, {}).byte : r \in Rows(w)}
           named == {v \in Packed(s) : v.name \in stacked \cup split}
<1>1. ExpertRows(s, c, l, e) = UNION {Begun(w) : w \in named}
  BY DEF ExpertRows
<1>2. c.experts \in Nat /\ e \in Nat /\ e + 1 <= c.experts /\ c.experts > 0
  BY LlamaShapeNat DEF Mixture, LlamaShapeOK, LlamaLoads
<1>3. /\ \A name : name \in stacked <=> \E kind \in Kinds : name = <<l, Stack(kind)>>
      /\ \A name : name \in split <=> \E kind \in Kinds : name = <<l, kind, e>>
  BY KindsAre DEF Kinds
<1>4. \A b, x, y : Len(<<b, x>>) = 2 /\ Len(<<b, x, y>>) = 3
  OBVIOUS
<1>5. \A name \in stacked : name \notin split
  BY <1>3, <1>4
<1> HIDE DEF stacked, split
<1>6. ASSUME NEW p \in Pieces(s, c, l, e)
      PROVE  p.w \in named /\ Begun(p.w) = PieceRows(p)
  <2>1. /\ PieceOK(g, p) /\ p.w \in Packed(s)
        /\ \E kind \in Kinds :
             /\ p.n = RowCount(c, kind)
             /\ \/ /\ p.w.name = <<l, Stack(kind)>> /\ p.from = e * RowCount(c, kind)
                   /\ p.w.rows = c.experts * RowCount(c, kind)
                \/ /\ p.w.name = <<l, kind, e>> /\ p.from = 0 /\ p.w.rows = RowCount(c, kind)
    BY PieceIs
  <2>2. /\ p.w.src.base = 0 /\ p.w.start \in Nat /\ RowBytes(p.w) \in Nat
        /\ p.w.rows \in Nat /\ p.from \in Nat /\ p.n \in Nat /\ p.n > 0
        /\ p.from + p.n <= p.w.rows
    BY <2>1 DEF PieceOK
  <2>3. Rows(p.w) = p.from..(p.from + p.n - 1)
    <3>1. CASE p.w.name \in split
      <4>1. p.from = 0 /\ p.n = p.w.rows
        BY <1>3, <1>5, <2>1, <3>1
      <4> QED
        BY <2>2, <3>1, <4>1
    <3>2. CASE p.w.name \notin split
      <4>1. p.from = e * p.n /\ p.w.rows = c.experts * p.n
        BY <1>3, <2>1, <3>2
      <4> DEFINE n == p.n
                 rows == p.w.rows
      <4>2. n \in Nat /\ n > 0 /\ p.from = e * n /\ rows = c.experts * n /\ e * n \in Nat
        BY <1>2, <2>2, <4>1
      <4> HIDE DEF n, rows
      <4>3. rows \div c.experts = n
        <5>1. c.experts * n = n * c.experts
          BY <1>2, <4>2
        <5>2. \A x, y \in Nat : y > 0 => (x * y) \div y = x
          OBVIOUS
        <5> QED
          BY <1>2, <4>2, <5>1, <5>2
      <4>4. \A r \in Nat : r \div n = e <=> e * n <= r /\ r <= e * n + n - 1
        <5> SUFFICES ASSUME NEW r \in Nat
                     PROVE  r \div n = e <=> e * n <= r /\ r <= e * n + n - 1
          OBVIOUS
        <5> DEFINE k == r \div n
        <5>1. k \in Nat /\ n * k <= r /\ r < n * k + n
          BY <4>2
        <5> HIDE DEF k
        <5>2. n * k = k * n /\ k * n \in Nat
          BY <4>2, <5>1
        <5>3. k < e => k * n + n <= e * n
          <6>1. k + 1 <= e => (k + 1) * n <= e * n
            BY <1>2, <4>2, <5>1, TimesMonotone
          <6>2. (k + 1) * n = k * n + n
            BY <4>2, <5>1
          <6> QED
            BY <1>2, <5>1, <6>1, <6>2
        <5>4. e < k => e * n + n <= k * n
          <6>1. e + 1 <= k => (e + 1) * n <= k * n
            BY <1>2, <4>2, <5>1, TimesMonotone
          <6>2. (e + 1) * n = e * n + n
            BY <1>2, <4>2
          <6> QED
            BY <1>2, <5>1, <6>1, <6>2
        <5>5. k = e <=> e * n <= r /\ r <= e * n + n - 1
          BY <1>2, <4>2, <5>1, <5>2, <5>3, <5>4
        <5> QED
          BY <5>5 DEF k
      <4>5. e * n + n <= rows /\ rows \in Nat
        BY <2>2, <4>2 DEF n, rows
      <4>6. Rows(p.w) = {r \in 0..(rows - 1) : r \div n = e}
        BY <3>2, <4>3 DEF rows
      <4>7. p.from..(p.from + p.n - 1) = (e * n)..(e * n + n - 1)
        BY <4>2 DEF n
      <4> HIDE DEF Rows
      <4>8. {r \in 0..(rows - 1) : r \div n = e} = (e * n)..(e * n + n - 1)
        BY <4>2, <4>4, <4>5
      <4> QED
        BY <4>6, <4>7, <4>8
    <3> QED
      BY <3>1, <3>2
  <2>4. p.w \in named
    BY <1>3, <2>1
  <2> HIDE DEF Rows, named
  <2>5. \A r \in p.from..(p.from + p.n - 1) :
          RowAt(p.w, r, {}).byte = p.w.start + r * RowBytes(p.w)
    <3> TAKE r \in p.from..(p.from + p.n - 1)
    <3> DEFINE past == r * RowBytes(p.w)
    <3>1. past \in Nat
      <4>1. r \in Nat
        BY <2>2
      <4> QED
        BY <2>2, <4>1, TimesMonotone
    <3>2. RowAt(p.w, r, {}).byte = p.w.src.base + (p.w.start + past)
      BY DEF RowAt, RowBytes
    <3> HIDE DEF past
    <3>3. p.w.src.base + (p.w.start + past) = p.w.start + past
      BY <2>2, <3>1
    <3> QED
      BY <3>2, <3>3 DEF past
  <2>6. Begun(p.w) = PieceRows(p)
    BY <2>3, <2>5 DEF PieceRows
  <2> QED
    BY <2>4, <2>6
<1>7. ASSUME NEW w \in named PROVE \E p \in Pieces(s, c, l, e) : p.w = w
  <2>1. w \in Packed(s) /\ \E kind \in Kinds : w.name = <<l, Stack(kind)>> \/ w.name = <<l, kind, e>>
    BY <1>3, <1>7
  <2>2. PICK kind \in Kinds : w.name = <<l, Stack(kind)>> \/ w.name = <<l, kind, e>>
    BY <2>1
  <2> DEFINE n == RowCount(c, kind)
  <2>3. /\ w.name = <<l, Stack(kind)>> => Piece(w, e * n, n) \in Pieces(s, c, l, e)
        /\ w.name = <<l, kind, e>> => Piece(w, 0, n) \in Pieces(s, c, l, e)
    BY <2>1 DEF Pieces
  <2>4. \A from : Piece(w, from, n).w = w
    BY DEF Piece
  <2> QED
    BY <2>2, <2>3, <2>4
<1> HIDE DEF Begun, named
<1>8. UNION {Begun(w) : w \in named} = UNION {PieceRows(p) : p \in Pieces(s, c, l, e)}
  <2>1. ASSUME NEW x, \E w \in named : x \in Begun(w)
        PROVE  \E p \in Pieces(s, c, l, e) : x \in PieceRows(p)
    BY <1>6, <1>7, <2>1
  <2>2. ASSUME NEW x, \E p \in Pieces(s, c, l, e) : x \in PieceRows(p)
        PROVE  \E w \in named : x \in Begun(w)
    BY <1>6, <2>2
  <2> QED
    BY <2>1, <2>2
<1> QED
  BY <1>1, <1>8

\* Rows of whole blocks take what their matrix does.
LEMMA WholeRows ==
  ASSUME NEW type, NEW n \in Nat, NEW c \in Nat, Sized(type, c)
  PROVE  /\ Sized(type, n * c) /\ ByteSize(type, n * c) = n * ByteSize(type, c)
         /\ ByteSize(type, c) \in Nat
<1> DEFINE e == BlockLayout[type].elems
           b == BlockLayout[type].bytes
           q == c \div e
<1>1. type \in QTypes /\ c % e = 0
  BY DEF Sized
<1>2. e \in {1, 32, 256} /\ b \in Nat
  BY <1>1, LayoutOK
<1> HIDE DEF e, b
<1>3. q \in Nat /\ c = e * q
  BY <1>1, <1>2
<1> HIDE DEF q
<1> DEFINE k == n * q
<1>4. k \in Nat /\ n * c = e * k
  <2>1. k \in Nat
    BY <1>3
  <2>2. CASE e = 1
    BY <1>3, <2>2
  <2>3. CASE e = 32
    BY <1>3, <2>3
  <2>4. CASE e = 256
    BY <1>3, <2>4
  <2> QED
    BY <1>2, <2>1, <2>2, <2>3, <2>4
<1> HIDE DEF k
<1>5. (n * c) % e = 0 /\ (n * c) \div e = k
  <2> DEFINE m == n * c
  <2>1. m = e * k
    BY <1>4
  <2> HIDE DEF m
  <2>2. m % e = 0 /\ m \div e = k
    BY <1>2, <1>4, <2>1
  <2> QED
    BY <2>2 DEF m
<1>6. k * b = n * (q * b) /\ q * b \in Nat
  BY <1>2, <1>3 DEF k
<1>7. Sized(type, n * c)
  BY <1>1, <1>5 DEF Sized, e
<1>8. ByteSize(type, n * c) = k * b /\ ByteSize(type, c) = q * b
  BY <1>5 DEF ByteSize, e, b, q
<1> QED
  BY <1>6, <1>7, <1>8

\* The pages warmed for an expert are the ranges of its pieces.
LEMMA RangesAre ==
  ASSUME NEW g, NEW mmap, NEW s, NEW c, Mixture(g, mmap, s, c), NEW l,
         NEW e \in 0..(c.experts - 1)
  PROVE  ExpertPageRanges(s.b, c, l, e) = PieceRanges(s, c, l, e)
<1> DEFINE Stacked(kind) == {ExpertRange(w, e, RowCount(c, kind)) :
                               w \in {v \in Packed(s) : /\ v.name = <<l, Stack(kind)>>
                                                       /\ Sized(v.type, v.cols)}}
           Split(kind) == {OwnRange(w, RowCount(c, kind)) :
                             w \in {v \in Packed(s) : /\ v.name = <<l, kind, e>>
                                                     /\ Sized(v.type, RowCount(c, kind) * v.cols)}}
<1>1. {w \in s.b.weights : w.src.kind = "mapped"} = Packed(s)
  <2>1. \A w \in s.b.weights : w.src.kind \in {"mapped", "ram"}
    BY DEF Mixture, LlamaBackend, Backend, WeightAt, SourceOf, Mapped, InRam
  <2> QED
    BY <2>1 DEF Packed
<1>2. ExpertPageRanges(s.b, c, l, e) = UNION {Stacked(kind) \cup Split(kind) : kind \in Kinds}
  <2>1. ExpertPageRanges(s.b, c, l, e) =
          Stacked("ffn_gate") \cup Stacked("ffn_up") \cup Stacked("ffn_down")
            \cup UNION {Split(kind) : kind \in Kinds}
    BY <1>1, KindsAre DEF ExpertPageRanges, RowCount, Kinds
  <2> HIDE DEF Stacked, Split
  <2>2. Stacked("ffn_gate") \cup Stacked("ffn_up") \cup Stacked("ffn_down")
          = UNION {Stacked(kind) : kind \in Kinds}
    BY DEF Kinds
  <2> QED
    BY <2>1, <2>2
<1>3. ASSUME NEW kind \in Kinds, NEW w \in Packed(s), w.name = <<l, Stack(kind)>>
      PROVE  LET p == Piece(w, e * RowCount(c, kind), RowCount(c, kind))
             IN /\ p \in Pieces(s, c, l, e) /\ Sized(w.type, w.cols)
                /\ PieceRange(p) = ExpertRange(w, e, RowCount(c, kind))
  <2> DEFINE p == Piece(w, e * RowCount(c, kind), RowCount(c, kind))
  <2>1. p \in Pieces(s, c, l, e)
    BY <1>3 DEF Pieces
  <2>2. p.w = w
    BY DEF Piece
  <2>3. Sized(w.type, w.cols)
    BY <2>1, <2>2, PieceIs DEF PieceOK
  <2>4. PieceRange(p) = ExpertRange(w, e, RowCount(c, kind))
    BY DEF PieceRange, Piece, RowBytes, ExpertRange
  <2> QED
    BY <2>1, <2>3, <2>4
<1>4. ASSUME NEW kind \in Kinds, NEW w \in Packed(s), w.name = <<l, kind, e>>
      PROVE  LET p == Piece(w, 0, RowCount(c, kind))
             IN /\ p \in Pieces(s, c, l, e) /\ Sized(w.type, RowCount(c, kind) * w.cols)
                /\ PieceRange(p) = OwnRange(w, RowCount(c, kind))
  <2> DEFINE p == Piece(w, 0, RowCount(c, kind))
             n == RowCount(c, kind)
  <2>1. p \in Pieces(s, c, l, e)
    BY <1>4 DEF Pieces
  <2>2. p.w = w /\ p.from = 0 /\ p.n = n
    BY DEF Piece
  <2>3. Sized(w.type, w.cols) /\ w.cols \in Nat /\ n \in Nat /\ w.start \in Nat
    BY <2>1, <2>2, PieceIs DEF PieceOK
  <2> HIDE DEF n, p
  <2>4. /\ Sized(w.type, n * w.cols) /\ ByteSize(w.type, n * w.cols) = n * ByteSize(w.type, w.cols)
        /\ ByteSize(w.type, w.cols) \in Nat
    BY <2>3, WholeRows
  <2>5. PieceRange(p) = [start |-> w.start + 0 * ByteSize(w.type, w.cols),
                         len |-> n * ByteSize(w.type, w.cols)]
    BY <2>2 DEF PieceRange, RowBytes
  <2>6. w.start + 0 * ByteSize(w.type, w.cols) = w.start
    BY <2>3, <2>4
  <2>7. PieceRange(p) = OwnRange(w, n)
    BY <2>4, <2>5, <2>6 DEF OwnRange
  <2> QED
    BY <2>1, <2>4, <2>7 DEF n, p
<1>5. {PieceRange(p) : p \in Pieces(s, c, l, e)} = UNION {Stacked(kind) \cup Split(kind) : kind \in Kinds}
  <2>1. ASSUME NEW p \in Pieces(s, c, l, e)
        PROVE  \E kind \in Kinds : PieceRange(p) \in Stacked(kind) \cup Split(kind)
    <3>1. PICK kind \in Kinds :
            \/ \E w \in Packed(s) : /\ w.name = <<l, Stack(kind)>>
                                    /\ p = Piece(w, e * RowCount(c, kind), RowCount(c, kind))
            \/ \E w \in Packed(s) : /\ w.name = <<l, kind, e>>
                                    /\ p = Piece(w, 0, RowCount(c, kind))
      BY DEF Pieces
    <3>2. ASSUME NEW w \in Packed(s), w.name = <<l, Stack(kind)>>,
                 p = Piece(w, e * RowCount(c, kind), RowCount(c, kind))
          PROVE  PieceRange(p) \in Stacked(kind)
      BY <1>3, <3>2
    <3>3. ASSUME NEW w \in Packed(s), w.name = <<l, kind, e>>, p = Piece(w, 0, RowCount(c, kind))
          PROVE  PieceRange(p) \in Split(kind)
      BY <1>4, <3>3
    <3> QED
      BY <3>1, <3>2, <3>3
  <2>2. ASSUME NEW kind \in Kinds, NEW x \in Stacked(kind) \cup Split(kind)
        PROVE  \E p \in Pieces(s, c, l, e) : x = PieceRange(p)
    <3>1. CASE x \in Stacked(kind)
      BY <1>3, <3>1
    <3>2. CASE x \in Split(kind)
      BY <1>4, <3>2
    <3> QED
      BY <2>2, <3>1, <3>2
  <2> HIDE DEF Stacked, Split
  <2> QED
    BY <2>1, <2>2
<1> QED
  BY <1>2, <1>5 DEF PieceRanges

\* The rows of a piece begin within its range, and the range within its tensor.
LEMMA PieceWithin ==
  ASSUME NEW g, NEW p, PieceOK(g, p)
  PROVE  LET t == TensorOf(g, p.w.name)
             from == p.from * RowBytes(p.w)
             past == (p.from + p.n) * RowBytes(p.w)
         IN /\ from \in Nat /\ past \in Nat /\ p.w.start \in Nat /\ SizeOf(t) \in Nat
            /\ PieceRange(p).start = p.w.start + from
            /\ PieceRange(p).start + PieceRange(p).len = p.w.start + past
            /\ p.w.start = StartOf(g, t) /\ past <= SizeOf(t)
            /\ \A x \in PieceRows(p) : /\ x \in Nat /\ p.w.start + from <= x
                                       /\ x < p.w.start + past
            /\ p.w.start + from \in PieceRows(p)
<1> DEFINE rb == RowBytes(p.w)
           rows == p.w.rows
           t == TensorOf(g, p.w.name)
           size == SizeOf(t)
           start == p.w.start
<1>1. /\ size \in Nat /\ start \in Nat /\ start = StartOf(g, t)
      /\ rb \in Nat /\ rb > 0 /\ rows \in Nat /\ rows * rb <= size
      /\ p.from \in Nat /\ p.n \in Nat /\ p.n > 0 /\ p.from + p.n <= rows
  BY DEF PieceOK
<1> DEFINE from == p.from * rb
           past == (p.from + p.n) * rb
<1>2. PieceRange(p).start = start + from /\ PieceRange(p).len = p.n * rb
  BY DEF PieceRange
<1>3. PieceRows(p) = {start + r * rb : r \in p.from..(p.from + p.n - 1)}
  BY DEF PieceRows
<1> HIDE DEF rb, rows, size, start, t
<1>4. from \in Nat /\ past \in Nat /\ p.n * rb \in Nat
  BY <1>1
<1>5. past = from + p.n * rb
  BY <1>1
<1>6. past <= rows * rb /\ rows * rb \in Nat
  BY <1>1, TimesMonotone
<1>7. ASSUME NEW r \in p.from..(p.from + p.n - 1)
      PROVE  r * rb \in Nat /\ from <= r * rb /\ r * rb < past
  <2>1. r \in Nat /\ p.from <= r /\ r + 1 <= p.from + p.n
    BY <1>1
  <2>2. from <= r * rb /\ (r + 1) * rb <= past /\ r * rb \in Nat
    BY <1>1, <2>1, TimesMonotone
  <2>3. (r + 1) * rb = r * rb + rb
    BY <1>1, <2>1
  <2> QED
    BY <1>1, <1>4, <2>2, <2>3
<1>8. \A x \in PieceRows(p) : x \in Nat /\ start + from <= x /\ x < start + past
  <2> TAKE x \in PieceRows(p)
  <2>1. PICK r \in p.from..(p.from + p.n - 1) : x = start + r * rb
    BY <1>3
  <2> DEFINE k == r * rb
  <2>2. k \in Nat /\ from <= k /\ k < past /\ x = start + k
    BY <1>7, <2>1
  <2> HIDE DEF k, from, past
  <2> QED
    BY <1>1, <1>4, <2>2
<1>9. start + from \in PieceRows(p)
  <2>1. p.from \in p.from..(p.from + p.n - 1)
    BY <1>1
  <2> QED
    BY <1>3, <2>1
<1> HIDE DEF from, past
<1>10. PieceRange(p).start + PieceRange(p).len = start + past /\ past <= size
  BY <1>1, <1>2, <1>4, <1>5, <1>6
<1> QED
  BY <1>1, <1>2, <1>4, <1>8, <1>9, <1>10 DEF from, past, rb, start, size, t

\* A piece of one expert reaches no row of another's.
LEMMA PiecesMiss ==
  ASSUME NEW g, NEW mmap, NEW s, NEW c, Mixture(g, mmap, s, c), NEW l,
         NEW e \in 0..(c.experts - 1), NEW o \in 0..(c.experts - 1), e # o,
         NEW p \in Pieces(s, c, l, e), NEW q \in Pieces(s, c, l, o), NEW x \in PieceRows(q)
  PROVE  ~(PieceRange(p).start <= x /\ x < PieceRange(p).start + PieceRange(p).len)
<1> DEFINE t == TensorOf(g, p.w.name)
           u == TensorOf(g, q.w.name)
           pfrom == p.from * RowBytes(p.w)
           ppast == (p.from + p.n) * RowBytes(p.w)
           qfrom == q.from * RowBytes(q.w)
           qpast == (q.from + q.n) * RowBytes(q.w)
<1>1. PieceOK(g, p) /\ PieceOK(g, q)
  BY PieceIs
<1>2. /\ pfrom \in Nat /\ ppast \in Nat /\ p.w.start \in Nat /\ SizeOf(t) \in Nat
      /\ PieceRange(p).start = p.w.start + pfrom
      /\ PieceRange(p).start + PieceRange(p).len = p.w.start + ppast
      /\ p.w.start = StartOf(g, t) /\ ppast <= SizeOf(t)
  BY <1>1, PieceWithin
<1>3. /\ qfrom \in Nat /\ qpast \in Nat /\ q.w.start \in Nat /\ SizeOf(u) \in Nat
      /\ q.w.start = StartOf(g, u) /\ qpast <= SizeOf(u)
      /\ x \in Nat /\ q.w.start + qfrom <= x /\ x < q.w.start + qpast
  BY <1>1, PieceWithin
<1>4. CASE p.w.name # q.w.name
  <2>1. t \in ToSet(g.tensors) /\ u \in ToSet(g.tensors) /\ t.name # u.name
    BY <1>1, <1>4 DEF PieceOK
  <2>2. \/ StartOf(g, t) + SizeOf(t) <= StartOf(g, u)
        \/ StartOf(g, u) + SizeOf(u) <= StartOf(g, t)
    BY <2>1 DEF Mixture, LaidApart
  <2> HIDE DEF t, u, pfrom, ppast, qfrom, qpast
  <2> QED
    BY <1>2, <1>3, <2>2
<1>5. CASE p.w = q.w /\ (p.from + p.n <= q.from \/ q.from + q.n <= p.from)
  <2>1. /\ RowBytes(p.w) \in Nat /\ p.from \in Nat /\ q.from \in Nat /\ p.n \in Nat /\ q.n \in Nat
    BY <1>1 DEF PieceOK
  <2>2. p.from + p.n \in Nat /\ q.from + q.n \in Nat
    BY <2>1
  <2>3. ppast <= qfrom \/ qpast <= pfrom
    BY <1>5, <2>1, <2>2, TimesMonotone
  <2>4. p.w.start = q.w.start
    BY <1>5
  <2> HIDE DEF t, u, pfrom, ppast, qfrom, qpast
  <2> QED
    BY <1>2, <1>3, <2>3, <2>4
<1> QED
  BY <1>4, <1>5, PiecesApart

LEMMA MixtureWarmed ==
  ASSUME NEW g, NEW mmap, NEW s, NEW c, Mixture(g, mmap, s, c), NEW l,
         NEW e \in 0..(c.experts - 1)
  PROVE  /\ {p.start : p \in ExpertPageRanges(s.b, c, l, e)} \subseteq ExpertRows(s, c, l, e)
         /\ \A o \in 0..(c.experts - 1) : \A x \in ExpertRows(s, c, l, o) :
              (\E p \in ExpertPageRanges(s.b, c, l, e) : x \in p.start..(p.start + p.len - 1))
                <=> o = e
<1>1. ExpertPageRanges(s.b, c, l, e) = PieceRanges(s, c, l, e)
  BY RangesAre
<1>r. PieceRanges(s, c, l, e) = {PieceRange(p) : p \in Pieces(s, c, l, e)}
  BY DEF PieceRanges
<1>n. \A a, b \in Nat : \A y : y \in a..(b - 1) <=> y \in Nat /\ a <= y /\ y < b
  OBVIOUS
<1>2. \A o \in 0..(c.experts - 1) :
        ExpertRows(s, c, l, o) = UNION {PieceRows(p) : p \in Pieces(s, c, l, o)}
  BY ExpertRowsAre
<1>3. ASSUME NEW p \in Pieces(s, c, l, e)
      PROVE  /\ PieceRange(p).start \in PieceRows(p)
             /\ PieceRange(p).start \in Nat /\ PieceRange(p).len \in Nat
             /\ PieceRange(p).start + PieceRange(p).len \in Nat
             /\ \A x \in PieceRows(p) :
                  x \in Nat /\ PieceRange(p).start <= x
                  /\ x < PieceRange(p).start + PieceRange(p).len
  <2>1. PieceOK(g, p)
    BY PieceIs
  <2> DEFINE from == p.from * RowBytes(p.w)
             past == (p.from + p.n) * RowBytes(p.w)
  <2>2. /\ from \in Nat /\ past \in Nat /\ p.w.start \in Nat
        /\ PieceRange(p).start = p.w.start + from
        /\ PieceRange(p).start + PieceRange(p).len = p.w.start + past
        /\ \A x \in PieceRows(p) : x \in Nat /\ p.w.start + from <= x /\ x < p.w.start + past
        /\ p.w.start + from \in PieceRows(p)
    BY <2>1, PieceWithin
  <2>3. PieceRange(p).len \in Nat
    <3> DEFINE n == p.n
               row == RowBytes(p.w)
    <3>1. n \in Nat /\ row \in Nat /\ PieceRange(p).len = n * row
      BY <2>1 DEF PieceOK, PieceRange
    <3> HIDE DEF n, row
    <3> QED
      BY <3>1
  <2> HIDE DEF from, past
  <2> QED
    BY <2>2, <2>3
<1>4. {p.start : p \in ExpertPageRanges(s.b, c, l, e)} \subseteq ExpertRows(s, c, l, e)
  BY <1>1, <1>2, <1>3, <1>r
<1>5. ASSUME NEW x \in ExpertRows(s, c, l, e)
      PROVE  \E p \in ExpertPageRanges(s.b, c, l, e) : x \in p.start..(p.start + p.len - 1)
  <2>1. PICK p \in Pieces(s, c, l, e) : x \in PieceRows(p)
    BY <1>2
  <2> DEFINE range == PieceRange(p)
             past == range.start + range.len
  <2>l. range.len \in Nat
    BY <1>3, <2>1
  <2>2. /\ range.start \in Nat /\ past \in Nat /\ x \in Nat
        /\ range.start <= x /\ x < past
    BY <1>3, <2>1
  <2>3. range \in ExpertPageRanges(s.b, c, l, e)
    BY <1>1, <1>r
  <2> HIDE DEF range
  <2>p. past - 1 = range.start + range.len - 1
    BY <2>l, <2>2
  <2> HIDE DEF past
  <2>4. x \in range.start..(past - 1)
    BY <1>n, <2>2
  <2> QED
    BY <2>3, <2>4, <2>p
<1>6. ASSUME NEW o \in 0..(c.experts - 1), NEW x \in ExpertRows(s, c, l, o),
             NEW range \in ExpertPageRanges(s.b, c, l, e),
             x \in range.start..(range.start + range.len - 1)
      PROVE  o = e
  <2> SUFFICES ASSUME o # e PROVE FALSE
    OBVIOUS
  <2>1. PICK p \in Pieces(s, c, l, e) : range = PieceRange(p)
    BY <1>1, <1>r
  <2>2. PICK q \in Pieces(s, c, l, o) : x \in PieceRows(q)
    BY <1>2
  <2>3. ~(range.start <= x /\ x < range.start + range.len)
    BY <2>1, <2>2, PiecesMiss
  <2> DEFINE past == range.start + range.len
  <2>4. range.start \in Nat /\ range.len \in Nat /\ past \in Nat
    BY <1>3, <2>1
  <2>p. past - 1 = range.start + range.len - 1
    BY <2>4
  <2>5. x \in range.start..(past - 1)
    BY <1>6, <2>p
  <2> HIDE DEF past
  <2>6. range.start <= x /\ x < past
    BY <1>n, <2>4, <2>5
  <2> QED
    BY <2>3, <2>6 DEF past
<1> QED
  BY <1>4, <1>5, <1>6

\* The mixtures whose experts are warmed are laid out apart.
ExpertsApart == \A s \in Serving : s.ahead = "pages" => LaidApart(s.g)

LEMMA ServedWarmed ==
  ASSUME BootOK, ExpertsApart
  PROVE  WarmsItsExpert
<1> DEFINE conf == Cases[boot.case].config
           g == Now.header
           d == Now.draftHeader
<1>1. /\ HeaderOK(g) /\ Now.config = conf
      /\ \A b \in Now.target : TargetLoads(conf, g) /\ b = TargetOf(conf, g)
  BY NowIs DEF Outcome
<1> HIDE DEF conf, g
<1>2. ASSUME NEW s \in Serving, s.ahead = "pages"
      PROVE  Mixture(s.g, conf.mmap, s, LlamaShape(s.g))
  <2>1. PICK b \in Now.target : s = [g |-> g, b |-> b, ahead |-> boot.ahead,
                                     budget |-> Now.config.budget]
    BY <1>2 DEF Serving, ServingFrom, g
  <2>2. /\ s.g = g /\ s.b = TargetOf(conf, g) /\ boot.ahead = "pages"
        /\ TargetLoads(conf, g)
    BY <1>1, <1>2, <2>1
  <2>3. ~IsQwen35(g)
    BY <2>2 DEF BootOK, g
  <2>4. LlamaLoads(g, conf.mmap) /\ s.b = LlamaBackend(g, conf.mmap)
    BY <2>2, <2>3 DEF TargetLoads, TargetOf
  <2>5. LaidApart(g)
    BY <1>2, <2>2 DEF ExpertsApart
  <2> QED
    BY <1>1, <2>2, <2>4, <2>5 DEF Mixture
<1>3. ASSUME NEW s \in Serving, s.ahead = "pages",
             NEW l \in 0..(LlamaShape(s.g).layers - 1), NEW e \in 0..(LlamaShape(s.g).experts - 1)
      PROVE  LET c == LlamaShape(s.g)
             IN /\ {p.start : p \in ExpertPageRanges(s.b, c, l, e)} \subseteq ExpertRows(s, c, l, e)
                /\ \A o \in 0..(c.experts - 1) : \A x \in ExpertRows(s, c, l, o) :
                     (\E p \in ExpertPageRanges(s.b, c, l, e) : x \in p.start..(p.start + p.len - 1))
                       <=> o = e
  <2> DEFINE c == LlamaShape(s.g)
  <2>1. Mixture(s.g, conf.mmap, s, c) /\ e \in 0..(c.experts - 1)
    BY <1>2, <1>3
  <2> HIDE DEF c
  <2>2. /\ {p.start : p \in ExpertPageRanges(s.b, c, l, e)} \subseteq ExpertRows(s, c, l, e)
        /\ \A o \in 0..(c.experts - 1) : \A x \in ExpertRows(s, c, l, o) :
             (\E p \in ExpertPageRanges(s.b, c, l, e) : x \in p.start..(p.start + p.len - 1))
               <=> o = e
    BY <2>1, MixtureWarmed
  <2> QED
    BY <2>2 DEF c
<1> QED
  BY <1>3 DEF WarmsItsExpert

-----------------------------------------------------------------------------
(* The results for a server that is started.                               *)

(* A checkpoint never half-loads: whatever the server is started with,     *)
(* once it serves every row of every weight is read from exactly the       *)
(* file's bytes for it, within the tensor and the file.                    *)
THEOREM LoadedWholeAlways == EngineSpec => []LoadedWhole
<1>1. EngineInit => BootOK
  BY BootStarts DEF EngineInit
<1>2. BootOK => LoadedWhole
  BY ServedReads DEF LoadedWhole
<1> QED
  BY <1>1, <1>2, BootMoves, PTL DEF EngineSpec

(* "A streamed block must be exactly the bytes at that offset in the       *)
(* file, however it was fetched": in a server that was started, where the  *)
(* loader left some blocks to the ring and pinned the others, as in a ring *)
(* by itself.  Until it serves nobody has touched the ring.                *)
THEOREM EngineOwnBytes == EngineSpec => []OwnBytes
<1> DEFINE Untouched == boot.phase # "serving" => Init
           EInv == BootOK /\ IInv /\ Untouched
<1>1. EngineInit => EInv
  BY BootStarts, InitHolds DEF EngineInit
<1>2. EInv /\ [EngineNext]_engineVars => EInv'
  <2> SUFFICES ASSUME EInv, [EngineNext]_engineVars PROVE EInv'
    OBVIOUS
  <2>1. BootOK'
    BY BootMoves
  <2>2. CASE EngineStart
    <3>1. boot.phase # "serving"
      BY <2>2 DEF EngineStart, StartNext, Step, Validate, OpenCheckpoint, ParseCheckpoint,
        LoadTarget, Wire, LoadDraft
    <3>2. pinned' \in SUBSET Blocks
      BY <2>2 DEF EngineStart, IInv, TypesOK
    <3>3. Init
      BY <3>1
    <3>4. UNCHANGED <<slots, owner, filled, queue, reader, pass, begun, failed>>
      BY <2>2 DEF EngineStart, ring
    <3>5. Init'
      BY <3>2, <3>3, <3>4 DEF Init
    <3>6. IInv'
      BY <3>5, InitHolds, PTL
    <3> QED
      BY <2>1, <3>5, <3>6
  <2>3. CASE EngineRuns
    <3>1. IInv'
      BY <2>3, StepKeeps DEF EngineRuns
    <3>2. boot'.phase = "serving"
      BY <2>3 DEF EngineRuns, Running
    <3> QED
      BY <2>1, <3>1, <3>2
  <2>4. CASE UNCHANGED engineVars
    <3>1. UNCHANGED vars /\ UNCHANGED boot
      BY <2>4 DEF engineVars
    <3>2. IInv'
      BY <3>1, StepKeeps
    <3>3. Untouched'
      BY <3>1 DEF Init, vars, ring
    <3> QED
      BY <2>1, <3>2, <3>3
  <2> QED
    BY <2>2, <2>3, <2>4 DEF EngineNext
<1>3. EInv => OwnBytes
  BY FromTheRing
<1> QED
  BY <1>1, <1>2, <1>3, PTL DEF EngineSpec

(* Pinning spends no more than its budget and counts just what it holds,   *)
(* and no block is both held and streamed, or neither: the ring of a       *)
(* server that was started is given the blocks whose weights the loader    *)
(* left in the file, whatever the checkpoint.                              *)
THEOREM PinnedOrStreamedAlways == EngineSpec => []PinnedOrStreamed
<1> DEFINE EInv == BootOK /\ DealtOut
<1>1. EngineInit => EInv
  <2> SUFFICES ASSUME EngineInit PROVE EInv
    OBVIOUS
  <2>1. BootOK
    BY BootStarts DEF EngineInit
  <2>2. ~Running
    BY DEF EngineInit, StartInit, Running
  <2> QED
    BY <2>1, <2>2 DEF DealtOut
<1>2. EInv /\ [EngineNext]_engineVars => EInv'
  BY BootMoves, DealtMoves
<1>3. EInv => PinnedOrStreamed
  BY DealtWhole
<1> QED
  BY <1>1, <1>2, <1>3, PTL DEF EngineSpec

(* The pages warmed for an expert begin where a row of it does, cover      *)
(* every row it is read from and reach no row of another expert, in a      *)
(* stacked checkpoint and in a split one, for every mixture whose tensors  *)
(* do not overlap and whose networks' rows are whole blocks.  The loader   *)
(* checks neither, so a file may break it; warming is only advice to the   *)
(* kernel, and what is read does not change (LoadedWhole).                 *)
THEOREM ExpertsWarmedAlways == EngineSpec => [](ExpertsApart => ExpertsWarmed)
<1>1. EngineInit => BootOK
  BY BootStarts DEF EngineInit
<1>2. BootOK => (ExpertsApart => ExpertsWarmed)
  BY ServedWarmed DEF ExpertsWarmed
<1> QED
  BY <1>1, <1>2, BootMoves, PTL DEF EngineSpec
=============================================================================
