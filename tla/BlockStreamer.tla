---------------------------- MODULE BlockStreamer ----------------------------
(***************************************************************************)
(* Streaming a checkpoint larger than RAM: the forward passes read the     *)
(* blocks the loader did not pin through a ring of buffers                 *)
(* (stream::BlockStreamer) that reader threads fill ahead of them          *)
(* (stream::StreamPrefetcher); StreamedEngine says which are pinned.  Many *)
(* passes share one ring: the scheduler's worker and the embedding tasks   *)
(* run on one backend.  The file is a sequence of pieces, each worth its   *)
(* own offset; a step is one hint, one lock, one read or one half of a     *)
(* block's arithmetic.                                                     *)
(***************************************************************************)
EXTENDS Integers, Sequences, FiniteSets, SequencesExt, FiniteSetsExt, Functions

CONSTANTS
  Passes,     \* forward passes under way at one time
  Readers,    \* StreamPrefetcher's threads
  Slots,      \* BlockStreamer::SLOTS
  NLayers,    \* cfg.n_layers
  Recurrent,  \* the blocks with a recurrence in place of attention
  Tensors,    \* the file's tensors: block, first piece, pieces
  MaxPasses,  \* bound: passes begun
  MaxFaults,  \* bound: blocks whose reads fail
  NoOne       \* an unlocked slot

Blocks == 0..(NLayers - 1)
None == -1    \* SlotState.block before a read has completed
Zero == -1    \* a byte that resize put there

ASSUME StreamAssumption ==
  /\ Slots \in Nat \ {0} /\ NLayers \in Nat \ {0}
  /\ Recurrent \subseteq Blocks /\ MaxPasses \in Nat /\ MaxFaults \in Nat
  /\ Tensors \subseteq [block : Nat, start : Nat, len : Nat \ {0}]
  /\ IsFiniteSet(Tensors) /\ IsFiniteSet(Readers)
  /\ NoOne \notin Passes \cup Readers /\ Passes \cap Readers = {}

VARIABLES
  pinned,   \* the blocks the loader copied into memory of its own
  slots,    \* the ring: the block a buffer holds, whether it is ready, its bytes
  owner,    \* who holds each slot's lock
  queue,    \* the hints no reader has taken yet
  reader,   \* where each reader stands, and its block
  pass,     \* where each pass stands: its block and its next hint
  filled,   \* the pieces read so far by whoever is filling a slot
  begun,    \* passes begun
  failed    \* blocks a read of which has failed

ring == <<slots, owner, filled>>
vars == <<pinned, ring, queue, reader, pass, begun, failed>>

-----------------------------------------------------------------------------
(* The file.                                                               *)

(* block_spans: from the first piece of a block's tensors to their last.   *)
Span(b) ==
  LET ts == {t \in Tensors : t.block = b}
      first == Min({t.start : t \in ts})
  IN IF ts = {} THEN [start |-> 0, len |-> 0]
     ELSE [start |-> first, len |-> Max({t.start + t.len : t \in ts}) - first]

(* streams: a pinned block has an empty span, and so has one past the end. *)
Streams(b) == b \in Blocks \ pinned /\ Span(b).len > 0

-----------------------------------------------------------------------------
(* The ring.                                                               *)

SlotOf(b) == b % Slots

(* fill, before it reads: the slot promises nothing and keeps stale bytes. *)
Cleared(slot, b) ==
  [block |-> None, ready |-> FALSE,
   buf |-> [i \in 1..Span(b).len |->
              IF i <= Len(slot.buf) THEN slot.buf[i] ELSE Zero]]

(* Whatever the slot has ready is taken for the block asked for.           *)
BugIsThere(b) == slots[SlotOf(b)].ready

IsThere(b) == slots[SlotOf(b)].block = b /\ slots[SlotOf(b)].ready

Free(b) == owner[SlotOf(b)] = NoOne

Unlock(b) == owner' = [owner EXCEPT ![SlotOf(b)] = NoOne]

(* Lock the slot of b and, unless its bytes are there, begin to fill it.   *)
Lock(w, b) ==
  /\ Free(b)
  /\ owner' = [owner EXCEPT ![SlotOf(b)] = w]
  /\ slots' = IF IsThere(b) THEN slots
              ELSE [slots EXCEPT ![SlotOf(b)] = Cleared(@, b)]
  /\ UNCHANGED filled

(* One read_at: the n bytes that arrived, and ready once all of them have. *)
Read(w, b, n) ==
  LET upTo == filled[w] + n
      done == upTo = Span(b).len
  IN /\ upTo <= Span(b).len
     /\ filled' = [filled EXCEPT ![w] = IF done THEN 0 ELSE upTo]
     /\ slots' = [slots EXCEPT ![SlotOf(b)] =
          [block |-> IF done THEN b ELSE None, ready |-> done,
           buf |-> [i \in DOMAIN @.buf |->
                      IF i \in (filled[w] + 1)..upTo THEN Span(b).start + i - 1
                      ELSE @.buf[i]]]]

(* A failed read, or the end of the file: the slot stays as it is.         *)
ReadFails(w, b) ==
  /\ Cardinality(failed) < MaxFaults
  /\ failed' = failed \cup {b}
  /\ filled' = [filled EXCEPT ![w] = 0]
  /\ UNCHANGED slots

-----------------------------------------------------------------------------
(* The reader threads.                                                     *)

Waiting == [at |-> "idle", block |-> 0]

(* A full queue makes the pass wait for a reader.                          *)
BugHint(b) ==
  /\ Len(queue) < Cardinality(Readers)
  /\ queue' = Append(queue, b)

(* try_send: a hint the queue has no room for is dropped.                  *)
Hint(b) ==
  queue' = IF Len(queue) < Cardinality(Readers) THEN Append(queue, b) ELSE queue

(* recv, and fetch's first look: a pinned block has nothing to read.       *)
TakeHint(r) ==
  /\ reader[r].at = "idle" /\ queue # <<>>
  /\ queue' = Tail(queue)
  /\ reader' = [reader EXCEPT ![r] =
       IF Streams(Head(queue)) THEN [at |-> "fetch", block |-> Head(queue)] ELSE @]
  /\ UNCHANGED <<pinned, ring, pass, begun, failed>>

(* fetch: wait for the slot, however stale the hint is by then.            *)
Fetch(r) ==
  LET b == reader[r].block
  IN /\ reader[r].at = "fetch"
     /\ IF IsThere(b)
        THEN /\ Free(b) /\ UNCHANGED ring
             /\ reader' = [reader EXCEPT ![r] = Waiting]
        ELSE /\ Lock(r, b)
             /\ reader' = [reader EXCEPT ![r].at = "fill"]
     /\ UNCHANGED <<pinned, queue, pass, begun, failed>>

Prefetch(r) ==
  LET b == reader[r].block
  IN /\ reader[r].at = "fill"
     /\ \/ \E n \in 1..Span(b).len :
             /\ Read(r, b, n) /\ UNCHANGED failed
             /\ IF filled'[r] = 0
                THEN Unlock(b) /\ reader' = [reader EXCEPT ![r] = Waiting]
                ELSE UNCHANGED <<owner, reader>>
        \/ /\ ReadFails(r, b) /\ Unlock(b)
           /\ reader' = [reader EXCEPT ![r] = Waiting]
     /\ UNCHANGED <<pinned, queue, pass, begun>>

-----------------------------------------------------------------------------
(* The forward passes.                                                     *)

Depth == Max({Slots - 1, 1})

Ended == [at |-> "idle", l |-> 0, ahead |-> 1]

Onward(p) ==
  IF pass[p].l + 1 < NLayers THEN [at |-> "hint", l |-> pass[p].l + 1, ahead |-> 1]
  ELSE Ended

(* forward_tail, logits_batch: a walk over the blocks.  The chunks of a    *)
(* long prompt are walked one after the other, each a pass here.           *)
Begin(p) ==
  /\ pass[p].at = "idle" /\ begun < MaxPasses
  /\ begun' = begun + 1
  /\ pass' = [pass EXCEPT ![p].at = "hint"]
  /\ UNCHANGED <<pinned, ring, queue, reader, failed>>

(* hint_ahead, one try_send.                                               *)
HintAhead(p) ==
  /\ pass[p].at = "hint" /\ pass[p].ahead <= Depth
  /\ Hint(pass[p].l + pass[p].ahead)
  /\ pass' = [pass EXCEPT ![p].ahead = @ + 1]
  /\ UNCHANGED <<pinned, ring, reader, begun, failed>>

(* run_layer: a block that is not streamed is computed where it lies.      *)
RunLayer(p) ==
  /\ pass[p].at = "hint" /\ pass[p].ahead > Depth
  /\ pass' = [pass EXCEPT ![p].at = IF Streams(pass[p].l) THEN "borrow" ELSE "mix"]
  /\ UNCHANGED <<pinned, ring, queue, reader, begun, failed>>

Borrow(p) ==
  /\ pass[p].at = "borrow"
  /\ Lock(p, pass[p].l)
  /\ pass' = [pass EXCEPT ![p].at = IF IsThere(pass[p].l) THEN "mix" ELSE "fill"]
  /\ UNCHANGED <<pinned, queue, reader, begun, failed>>

(* A read that comes to nothing still yields a guard, and the pass goes on *)
(* with whatever the buffer holds.                                         *)
ReadInline(p) ==
  LET b == pass[p].l
  IN /\ pass[p].at = "fill"
     /\ \/ \E n \in 1..Span(b).len :
             /\ Read(p, b, n) /\ UNCHANGED failed
             /\ pass' = IF filled'[p] = 0
                        THEN [pass EXCEPT ![p].at = "mix"] ELSE pass
        \/ /\ ReadFails(p, b)
           /\ pass' = [pass EXCEPT ![p].at = "mix"]
     /\ UNCHANGED <<pinned, owner, queue, reader, begun>>

(* The guard borrow returned lives for as long as the block computes.      *)
Guarded == {"mix", "ffn"}

(* From half of a block's arithmetic to what follows it.                   *)
Leave(p, next) ==
  /\ pass' = [pass EXCEPT ![p] = next]
  /\ IF Streams(pass[p].l) /\ next.at \notin Guarded
     THEN Unlock(pass[p].l) ELSE UNCHANGED owner
  /\ UNCHANGED <<pinned, slots, filled, queue, reader, begun, failed>>

(* attn_batch appends to the caches as it goes, and a spill may fail it.   *)
Attend(p) ==
  /\ pass[p].at = "mix" /\ pass[p].l \notin Recurrent
  /\ \E next \in {[pass[p] EXCEPT !.at = "ffn"], Ended} : Leave(p, next)

(* delta_net_batch keeps its state in memory: nothing in it can fail.      *)
Recur(p) ==
  /\ pass[p].at = "mix" /\ pass[p].l \in Recurrent
  /\ Leave(p, [pass[p] EXCEPT !.at = "ffn"])

FeedForward(p) ==
  /\ pass[p].at = "ffn"
  /\ Leave(p, Onward(p))

-----------------------------------------------------------------------------
(* Whatever the loader pinned.                                             *)
Init ==
  /\ pinned \in SUBSET Blocks
  /\ slots = [i \in 0..(Slots - 1) |-> [block |-> None, ready |-> FALSE, buf |-> <<>>]]
  /\ owner = [i \in 0..(Slots - 1) |-> NoOne]
  /\ queue = <<>>
  /\ reader = [r \in Readers |-> Waiting]
  /\ pass = [p \in Passes |-> Ended]
  /\ filled = [w \in Passes \cup Readers |-> 0]
  /\ begun = 0
  /\ failed = {}

PassStep(p) ==
  \/ HintAhead(p)
  \/ RunLayer(p)
  \/ Borrow(p)
  \/ ReadInline(p)
  \/ Attend(p)
  \/ Recur(p)
  \/ FeedForward(p)

Next ==
  \/ \E p \in Passes : Begin(p) \/ PassStep(p)
  \/ \E r \in Readers : TakeHint(r) \/ Fetch(r) \/ Prefetch(r)

(* A pass under way runs on, and a read under way comes to an end.  No     *)
(* reader need ever take a hint.                                           *)
Fairness ==
  /\ \A p \in Passes : WF_vars(PassStep(p))
  /\ \A r \in Readers : WF_vars(Prefetch(r))

Spec == Init /\ [][Next]_vars /\ Fairness

-----------------------------------------------------------------------------
(* The bytes a weight of block b is read from: located, in the buffer at   *)
(* its own offset less the span's.                                         *)
Located(t, b) ==
  LET at == t.start - Span(b).start
  IN SubSeq(slots[SlotOf(b)].buf, at + 1, at + t.len)

Bytes(t) == [i \in 1..t.len |-> t.start + i - 1]

(* The shape of the state; a slot is locked by whoever fills it or         *)
(* computes from it, and by nobody else.                                   *)
TypeOK ==
  /\ pinned \subseteq Blocks
  /\ \A i \in 0..(Slots - 1) :
       /\ slots[i].block \in Blocks \cup {None} /\ slots[i].ready \in BOOLEAN
       /\ owner[i] \in Passes \cup Readers \cup {NoOne}
  /\ Len(queue) <= Cardinality(Readers)
  /\ \A p \in Passes :
       /\ pass[p].l \in Blocks /\ pass[p].ahead \in 1..(Depth + 1)
       /\ pass[p].at \in {"fill"} \cup Guarded /\ Streams(pass[p].l)
            <=> \E i \in 0..(Slots - 1) : owner[i] = p
  /\ \A r \in Readers :
       reader[r].at = "fill" <=> \E i \in 0..(Slots - 1) : owner[i] = r

(* "A streamed block must be exactly the bytes at that offset in the       *)
(* file, however it was fetched": what a pass multiplies by is the         *)
(* weight's own bytes, though stale hints, other passes and other blocks'  *)
(* bytes went through that buffer.  The exception is a block whose inline  *)
(* read failed under this very guard: its slot says so, and nobody looks.  *)
OwnBytes ==
  /\ TypeOK
  /\ \A p \in Passes, t \in Tensors :
       (pass[p].at \in {"mix", "ffn"} /\ t.block = pass[p].l /\ Streams(t.block))
         => LET slot == slots[SlotOf(t.block)]
            IN \/ slot.block = t.block /\ Located(t, t.block) = Bytes(t)
               \/ slot.block = None /\ ~slot.ready /\ t.block \in failed

(* Every pass comes to its end, whatever the readers do with its hints:    *)
(* passes that borrow in turn and readers that wait never wait for each    *)
(* other in a circle, and a full queue holds nobody up.                    *)
PassesEnd == \A p \in Passes : (pass[p].at # "idle") ~> (pass[p].at = "idle")
=============================================================================
