----------------------------- MODULE ExpertTiers -----------------------------
(***************************************************************************)
(* The expert store of the synthetic engine: the byte-budgeted cache of    *)
(* loaded experts (cache::ExpertCache), the tiers below it                 *)
(* (memory::MemoryManager), the decoding threads that load what a token    *)
(* routes to (moe::MoeEngine), and the predictor and prefetch engine that  *)
(* warm experts on worker threads.  A loader is a decoding thread, or the  *)
(* background load of one expert, named by that expert: the in-flight      *)
(* claim allows one such load at a time.  A step is one critical section   *)
(* of the cache's mutex or of an expert's load lock.                       *)
(***************************************************************************)
EXTENDS Integers, Sequences, FiniteSets, SequencesExt, FiniteSetsExt, Functions

CONSTANTS
  Threads,      \* decoding threads, each with a sequence of its own
  NExperts,     \* dims.n_experts
  TopK,         \* experts a token routes to, and experts warmed per step
  ExpertBytes,  \* Expert::size_bytes, the same for every expert of one model
  Budget,       \* ExpertCache::budget_bytes
  Workers,      \* threads of the pool that runs background loads
  Starts,       \* what L2 and L3 may hold of each expert at the start
  MaxSteps,     \* bound: decoding steps taken in all
  MaxFaults,    \* bound: failing reads and writes of the tiers
  NoOne         \* an unheld load lock

Experts == 0..(NExperts - 1)

(* What a tier holds for an expert: nothing, the weights it was published  *)
(* with, the ones synthesised for it, or bytes that do not parse.          *)
Weights == {"own", "synthesised"}
Files == Weights \cup {"none", "damaged"}

(* Two copies of an expert that parse are the same, when a run begins.     *)
ASSUME TiersAssumption ==
  /\ NExperts \in Nat \ {0} /\ TopK \in 1..NExperts
  /\ ExpertBytes \in Nat \ {0} /\ Budget \in Nat \ {0}
  /\ Workers \in Nat \ {0} /\ MaxSteps \in Nat /\ MaxFaults \in Nat
  /\ Starts \subseteq [Experts -> [l2 : Files, l3 : Files]]
  /\ \A s \in Starts, e \in Experts : {s[e].l2, s[e].l3} # Weights
  /\ NoOne \notin Threads \cup Nat /\ Threads \cap Nat = {}

Loaders == Threads \cup Experts

VARIABLES
  loaded,     \* ExpertCache.loaded: the weights of each resident expert
  lru,        \* ExpertCache.lru, least recently used first
  bytes,      \* ExpertCache.bytes
  l2, l3,     \* the file of each expert in the SSD and the archive tier
  lock,       \* MemoryManager.loading: who holds each expert's load lock
  at,         \* where each loader stands
  todo,       \* experts a thread's step has still to load, warm or claim
  used,       \* experts a thread's step has loaded
  last,       \* KvCache.last_experts of each thread's sequence
  counts,     \* ExpertPredictor.counts
  inflight,   \* PrefetchEngine.inflight
  steps,      \* decoding steps taken
  faults      \* reads and writes that failed

cache == <<loaded, lru, bytes>>
files == <<l2, l3>>
seqs == <<todo, used, last>>
vars == <<cache, files, lock, at, seqs, counts, inflight, steps, faults>>

Places == {"idle", "look", "wait", "fetch", "learn", "warm", "claim",
           "queued", "release"}

(* retain, on a queue that names nobody twice: what is left when x is cut.  *)
Without(s, x) ==
  LET i == CHOOSE j \in DOMAIN s : s[j] = x
  IN IF x \in Range(s) THEN SubSeq(s, 1, i - 1) \o SubSeq(s, i + 1, Len(s)) ELSE s

-----------------------------------------------------------------------------
(* The cache of loaded experts.                                            *)

Resident(e) == e \in DOMAIN loaded

(* get: a hit becomes the most recently used; a miss changes nothing.      *)
Touch(e) ==
  /\ lru' = Append(Without(lru, e), e)
  /\ UNCHANGED <<loaded, bytes>>

(* Room is made for what was held, not for the newcomer.                   *)
BugVictims(queue, held) ==
  Min({n \in 0..Len(queue) : n = Len(queue) \/ held - n * ExpertBytes <= Budget})

(* Victims popped from the front until the newcomer fits or nobody is left. *)
Victims(queue, held) ==
  Min({n \in 0..Len(queue) :
         n = Len(queue) \/ held - n * ExpertBytes + ExpertBytes <= Budget})

(* insert: an older copy goes first, then the least recently used until    *)
(* the newcomer fits; one that exceeds the budget alone is kept anyway.    *)
Insert(e, w) ==
  LET queue == Without(lru, e)
      held == IF Resident(e) THEN bytes - ExpertBytes ELSE bytes
      n == Victims(queue, held)
      evicted == Range(SubSeq(queue, 1, n))
  IN /\ lru' = Append(SubSeq(queue, n + 1, Len(queue)), e)
     /\ bytes' = held - n * ExpertBytes + ExpertBytes
     /\ loaded' = [x \in (DOMAIN loaded \ evicted) \cup {e} |->
                     IF x = e THEN w ELSE loaded[x]]

-----------------------------------------------------------------------------
(* The tiers below it.                                                     *)

Parses(file) == file # "damaged"

(* A copy that cannot be read taken for none at all.                       *)
BugReads(e) ==
  {[got |-> "synthesised", l2 |-> "synthesised", failed |-> 1]}

(* Each way reading e can end: the weights, or "error", what is then in    *)
(* L2, and how many operations of the storage failed.  A tier that has the *)
(* file decides; only a write that fails is survived.                      *)
Reads(e) ==
  LET From(file, fill) ==
        {[got |-> "error", l2 |-> l2[e], failed |-> 1]}
        \cup IF ~Parses(file)
             THEN {[got |-> "error", l2 |-> l2[e], failed |-> 0]}
             ELSE {[got |-> file, l2 |-> fill, failed |-> 0]}
                  \cup (IF fill = l2[e] THEN {}
                        ELSE {[got |-> file, l2 |-> l2[e], failed |-> 1]})
  IN IF l2[e] # "none" THEN From(l2[e], l2[e])
     ELSE IF l3[e] # "none" THEN From(l3[e], l3[e])
     ELSE {[got |-> "synthesised", l2 |-> "synthesised", failed |-> 0],
           [got |-> "synthesised", l2 |-> "none", failed |-> 1]}

(* The expert a loader is after.                                           *)
Want(p) == IF p \in Threads THEN Head(todo[p]) ELSE p

(* A load that succeeded: a thread goes on to its next expert, or to what  *)
(* follows the feed-forward part; a background load releases its claim.    *)
Loaded(p) ==
  IF p \in Threads
  THEN /\ todo' = [todo EXCEPT ![p] = Tail(@)]
       /\ used' = [used EXCEPT ![p] = Append(@, Head(todo[p]))]
       /\ at' = [at EXCEPT ![p] = IF Len(todo[p]) = 1 THEN "learn" ELSE "look"]
       /\ UNCHANGED last
  ELSE /\ at' = [at EXCEPT ![p] = "release"]
       /\ UNCHANGED seqs

(* A load that failed: the step fails and its sequence is given up.        *)
Failed(p) ==
  IF p \in Threads
  THEN /\ todo' = [todo EXCEPT ![p] = <<>>]
       /\ used' = [used EXCEPT ![p] = <<>>]
       /\ last' = [last EXCEPT ![p] = <<>>]
       /\ at' = [at EXCEPT ![p] = "idle"]
  ELSE /\ at' = [at EXCEPT ![p] = "release"]
       /\ UNCHANGED seqs

(* load: the first look, without the load lock.                            *)
FirstLook(p) ==
  /\ at[p] = "look"
  /\ \/ /\ Resident(Want(p))
        /\ Touch(Want(p))
        /\ Loaded(p)
     \/ /\ ~Resident(Want(p))
        /\ at' = [at EXCEPT ![p] = "wait"]
        /\ UNCHANGED <<cache, seqs>>
  /\ UNCHANGED <<files, lock, counts, inflight, steps, faults>>

(* No second look.                                                         *)
BugFoundAfterAll(p) == FALSE

(* The second look: the expert may have come while p waited for the lock.  *)
FoundAfterAll(p) == Resident(Want(p))

(* load: p gets the expert's lock and looks again.                         *)
Acquire(p) ==
  /\ at[p] = "wait"
  /\ lock[Want(p)] = NoOne
  /\ \/ /\ FoundAfterAll(p)
        /\ Touch(Want(p))
        /\ Loaded(p)
        /\ UNCHANGED lock
     \/ /\ ~FoundAfterAll(p)
        /\ lock' = [lock EXCEPT ![Want(p)] = p]
        /\ at' = [at EXCEPT ![p] = "fetch"]
        /\ UNCHANGED <<cache, seqs>>
  /\ UNCHANGED <<files, counts, inflight, steps, faults>>

(* The lock forgotten when the read fails.                                 *)
BugUnlocked(p, r) == IF r.got = "error" THEN lock ELSE [lock EXCEPT ![Want(p)] = NoOne]

(* The guard of the lock is dropped on either way out.                     *)
Unlocked(p, r) == [lock EXCEPT ![Want(p)] = NoOne]

(* load_uncached returns; what it read is inserted and the lock given up.  *)
Fetch(p) ==
  /\ at[p] = "fetch"
  /\ LET e == Want(p)
     IN /\ \E r \in Reads(e) :
             /\ faults + r.failed <= MaxFaults
             /\ faults' = faults + r.failed
             /\ l2' = [l2 EXCEPT ![e] = r.l2]
             /\ lock' = Unlocked(p, r)
             /\ \/ r.got # "error" /\ Insert(e, r.got) /\ Loaded(p)
                \/ r.got = "error" /\ Failed(p) /\ UNCHANGED cache
  /\ UNCHANGED <<l3, counts, inflight, steps>>

-----------------------------------------------------------------------------
(* A decoding step.                                                        *)

(* The router picks the experts of a token, best first.                    *)
Route(t) ==
  /\ at[t] = "idle"
  /\ steps < MaxSteps
  /\ \E chosen \in {s \in [1..TopK -> Experts] : IsInjective(s)} :
       todo' = [todo EXCEPT ![t] = chosen]
  /\ used' = [used EXCEPT ![t] = <<>>]
  /\ at' = [at EXCEPT ![t] = "look"]
  /\ steps' = steps + 1
  /\ UNCHANGED <<cache, files, lock, last, counts, inflight, faults>>

(* observe: every expert of the last step was followed by every one of this. *)
Observed(prev, next) ==
  [p \in Experts |-> [q \in Experts |->
     counts[p][q] + IF p \in Range(prev) /\ q \in Range(next) THEN 1 ELSE 0]]

(* predict: the likeliest successors seen so far, ties to the lower expert. *)
Predictions(learned, current) ==
  LET score == [q \in Experts |-> FoldSet(LAMBDA p, acc : acc + learned[p][q], 0, Range(current))]
      seen == {q \in Experts : score[q] > 0}
      Before(a, b) == score[a] > score[b] \/ (score[a] = score[b] /\ a < b)
  IN {s \in [1..Min({TopK, Cardinality(seen)}) -> seen] :
        \A i \in DOMAIN s, q \in seen : Before(q, s[i]) <=> \E j \in 1..(i - 1) : s[j] = q}

(* observe_step: learn from the step, then warm what the next may need.    *)
Learn(t) ==
  /\ at[t] = "learn"
  /\ counts' = Observed(last[t], used[t])
  /\ \E ahead \in Predictions(counts', used[t]) :
       /\ todo' = [todo EXCEPT ![t] = ahead]
       /\ at' = [at EXCEPT ![t] = IF ahead = <<>> THEN "idle" ELSE "warm"]
  /\ last' = [last EXCEPT ![t] = used[t]]
  /\ UNCHANGED <<cache, files, lock, used, inflight, steps, faults>>

(* The warming of one predicted expert is over.                            *)
Warmed(t) ==
  /\ todo' = [todo EXCEPT ![t] = Tail(@)]
  /\ at' = [at EXCEPT ![t] = IF Len(todo[t]) = 1 THEN "idle" ELSE "warm"]

(* warm: an expert that is resident is left alone.                         *)
WarmLook(t) ==
  /\ at[t] = "warm"
  /\ \/ /\ Resident(Head(todo[t]))
        /\ Warmed(t)
     \/ /\ ~Resident(Head(todo[t]))
        /\ at' = [at EXCEPT ![t] = "claim"]
        /\ UNCHANGED todo
  /\ UNCHANGED <<cache, files, lock, used, last, counts, inflight, steps, faults>>

(* warm: the claim decides who spawns the background load.                 *)
WarmClaim(t) ==
  /\ at[t] = "claim"
  /\ LET e == Head(todo[t])
         next == IF Len(todo[t]) = 1 THEN "idle" ELSE "warm"
     IN /\ inflight' = inflight \cup {e}
        /\ at' = IF e \in inflight THEN [at EXCEPT ![t] = next]
                 ELSE [at EXCEPT ![t] = next, ![e] = "queued"]
        /\ todo' = [todo EXCEPT ![t] = Tail(@)]
  /\ UNCHANGED <<cache, files, lock, used, last, counts, steps, faults>>

-----------------------------------------------------------------------------
(* A background load.                                                      *)

(* A pool thread takes the load up; prefetch looks first.                  *)
Begin(e) ==
  /\ at[e] = "queued"
  /\ Cardinality({x \in Experts : at[x] \notin {"idle", "queued"}}) < Workers
  /\ at' = [at EXCEPT ![e] = IF Resident(e) THEN "release" ELSE "look"]
  /\ UNCHANGED <<cache, files, lock, seqs, counts, inflight, steps, faults>>

(* The claim goes only when the expert was loaded.                         *)
BugReleased(e) == IF Resident(e) THEN inflight \ {e} ELSE inflight

Released(e) == inflight \ {e}

(* The claim goes, however the load ended.                                 *)
Release(e) ==
  /\ at[e] = "release"
  /\ at' = [at EXCEPT ![e] = "idle"]
  /\ inflight' = Released(e)
  /\ UNCHANGED <<cache, files, lock, seqs, counts, steps, faults>>

-----------------------------------------------------------------------------

(* A start: nothing resident, and files left by earlier runs or published. *)
Init ==
  /\ loaded = [e \in {} |-> "own"] /\ lru = <<>> /\ bytes = 0
  /\ \E s \in Starts : l2 = [e \in Experts |-> s[e].l2] /\ l3 = [e \in Experts |-> s[e].l3]
  /\ lock = [e \in Experts |-> NoOne]
  /\ at = [p \in Loaders |-> "idle"]
  /\ todo = [t \in Threads |-> <<>>] /\ used = [t \in Threads |-> <<>>]
  /\ last = [t \in Threads |-> <<>>]
  /\ counts = [p \in Experts |-> [q \in Experts |-> 0]]
  /\ inflight = {} /\ steps = 0 /\ faults = 0

Load(p) == FirstLook(p) \/ Acquire(p) \/ Fetch(p)

ThreadStep(t) == Load(t) \/ Learn(t) \/ WarmLook(t) \/ WarmClaim(t)

TaskStep(e) == Begin(e) \/ Load(e) \/ Release(e)

Next ==
  \/ \E t \in Threads : Route(t) \/ ThreadStep(t)
  \/ \E e \in Experts : TaskStep(e)

(* Threads that can run do run.  With MaxSteps finite a lock is given up    *)
(* for good in the end, so nothing more is asked of the mutex.             *)
Fairness ==
  /\ \A t \in Threads : WF_vars(ThreadStep(t))
  /\ \A e \in Experts : WF_vars(TaskStep(e))

Spec == Init /\ [][Next]_vars /\ Fairness

-----------------------------------------------------------------------------

\* Every variable has its type; a part of CacheExact.
TypeOK ==
  /\ DOMAIN loaded \subseteq Experts /\ Range(loaded) \subseteq Weights
  /\ lru \in Seq(Experts) /\ bytes \in Nat
  /\ l2 \in [Experts -> Files] /\ l3 \in [Experts -> Files]
  /\ lock \in [Experts -> Loaders \cup {NoOne}]
  /\ at \in [Loaders -> Places]
  /\ \A t \in Threads : {todo[t], used[t], last[t]} \subseteq Seq(Experts)
  /\ counts \in [Experts -> [Experts -> Nat]]
  /\ inflight \subseteq Experts
  /\ steps \in 0..MaxSteps /\ faults \in 0..MaxFaults

(* cache:88 - through hits, evictions and late insertions of any loader,   *)
(* the recency list names each resident expert once, the byte count is     *)
(* what they take, and only an expert alone may exceed the budget.         *)
CacheExact ==
  /\ TypeOK
  /\ IsInjective(lru) /\ Range(lru) = DOMAIN loaded
  /\ bytes = ExpertBytes * Cardinality(DOMAIN loaded)
  /\ bytes <= Budget \/ Cardinality(DOMAIN loaded) = 1

(* memory:177 - of all threads and background loads that miss an expert    *)
(* together one reads it, and not after it has become resident.            *)
OneReads ==
  \A p \in Loaders :
    at[p] = "fetch" =>
      /\ ~Resident(Want(p))
      /\ \A q \in Loaders \ {p} : at[q] = "fetch" => Want(q) # Want(p)

(* memory:131 - however tiers fail, what is resident and what is on disk   *)
(* never differ about an expert: no published expert is replaced by a      *)
(* synthesised one, in memory or in the tier below.                        *)
SameWeights ==
  \A e \in Experts :
    ({l2[e], l3[e]} \cup {loaded[x] : x \in {e} \cap DOMAIN loaded}) \cap Weights # Weights

(* prefetch:116 - a claim exists exactly while its background load does:   *)
(* no load runs that somebody else may start again.                        *)
ClaimsCover ==
  inflight = {e \in Experts : at[e] # "idle"}

(* prefetch:116, memory:177 - with load locks held across reads, and the   *)
(* pool's threads waiting for them, every decoding step ends, and every    *)
(* claim is released, whatever became of its load.                         *)
Settles == <>[](inflight = {} /\ \A p \in Loaders : at[p] = "idle")
==============================================================================
