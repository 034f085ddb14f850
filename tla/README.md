# Garuda in TLA+

Garuda (`src/garuda`) is an inference server: clients submit prompts over
several HTTP dialects, one scheduler batches them into decode slots, and a
runtime generates tokens with attention caches that may spill to disk and experts
that are loaded on demand.  This directory models the parts of it that carry
state: TLA+ modules translated from the Rust code, TLC configurations that check
them on small instances, and TLAPS proofs for every value of the constants.
Paths below are relative to `src/garuda/src`.

## Inventory

| component | state it keeps | operations | hard about it | what makes it correct |
|---|---|---|---|---|
| scheduler (`scheduler/mod.rs`) | bounded channel, priority heap, batch (`prefilling`, `active`), per-user semaphores, counters, cancel flags, event channels | `submit`, `Handle::cancel`/drop, one iteration of `run_loop` (`admit_one`, `advance_prefills`, `step_batch`) | many submitting threads against one loop; cancellation, deadlines, failures and panics at any point | slot, queue and user limits; no permit leaked; each request ends once, is counted once and tells its client; fair order; every accepted request ends |
| runtime (`runtime/mod.rs`) | `Pending`, `Session` (context, caches, draft cache) | `start_incremental`, `advance_prefill`, `next_token`, `next_tokens_speculative`, `next_token_batch` | rollback of rejected guesses; partial failure of a batched pass | cache and context stay one apart; speculation changes no greedy output; one failing sequence does not end the others |
| KV cache (`cache/mod.rs`) | resident and spilled blocks, files | `append`, `ensure_resident`, `truncate`, `rekey`, `purge_spill_files`, `clone`, drop | reload, cut, rewrite and respill of a block; failing writes | reads what a plain log of positions would give; residency budget; files owned by one sequence |
| sequence state (`cache/mod.rs`) | one cache per layer, recurrent states and their copies | `begin_recording`, `snapshot`, `advance`, `truncate` | rewinding a summary | all layers describe the same tokens; a copy to go back to is there when it is needed |
| prompt cache (`cache/mod.rs`) | entries, LRU list, byte count | `get`, `insert` | clones of a shared entry, two bounds | an entry is what its key says; bounds hold, byte count exact, identities disjoint |
| expert cache, memory tiers (`cache/mod.rs`, `memory/mod.rs`) | L1 map with LRU and bytes, L2/L3 files, load locks | `load`, `prefetch`, `get`, `insert` | concurrent misses, failing promotion | one load per miss, exact budget, no published expert shadowed by a synthesised one |
| prefetch (`prefetch/mod.rs`, `predictor/mod.rs`) | transition counts, set of in-flight loads | `observe_step`, `warm` | claims released on every outcome | no double load, no lost claim |
| block streamer (`stream/mod.rs`) | ring of slots, hint queue | `fetch`, `borrow`, `fill` | readers with stale hints against several passes; read errors | the borrowed bytes are those of the block asked for; every pass ends |
| loader (`gguf`, `llama`, `qwen35`, `server`, `config`) | what is mapped, pinned, expanded | `Gguf::parse`, `from_gguf_pinned`, `Engine::build` | addresses with three different bases; damaged files | a checkpoint loads whole or not at all, and every row is read where the file has it |
| kernels (`quant/mod.rs`) | none | decoders, integer kernels | index arithmetic written twice | kernel and decoder read the same numbers |
| embedding slots (`api/mod.rs`) | a semaphore | the embeddings handler and its blocking task | disconnects and timeouts while the task runs | never more permits in use than slots |
| web socket (`websocket/mod.rs`) | one run | `handle_socket`, `run_one` | client messages race events | one terminal message; cancels let go |
| adapters (`api`, `anthropic`, `ollama`, `llamacpp`, `tgi`, `session`, `auth`) | a stream decoder, a `Handle` | one handler per route | pieces of characters, errors and silence in six formats | the client is told what the scheduler said |
| tokenizers and templates (`tokenizer`, `chat`) | tables | `encode`, `decode`, stream decoders, `encode_chat` | stale heap entries, split characters, one leading token | text goes in and comes out unchanged |
| benchmark, CLI, page | none | | | not modelled |

The components interact by calls: the handlers call `Scheduler::submit` and read
the event channel of the `Handle`; the loop hands its batch to a blocking worker,
which calls the runtime; the runtime looks prompts up in the prompt cache and
calls a backend, which appends to the sequence's caches and asks the memory
manager for experts.  Shared state is behind locks, semaphores and channels.
Every hazard of these parts, with its line, is in `PROJECT.json`.

## Modules

In the order in which they were written, the most important first; EXTENDS goes to
the right.

| module | models | proofs, instance |
|---|---|---|
| `Scheduler`, abstract `RequestService` | `scheduler/mod.rs` | `SchedulerProofs`, `SchedulerServiceProofs`; `MCScheduler`, `MCSchedulerOrder` |
| `Decode`, abstract `PlainDecoding` | `runtime/mod.rs`, sequence state and prompt cache | `DecodeProofs`; `MCDecode` |
| `KVCache`, abstract `PositionLog` | one layer's cache | `KVCacheProofs`; `MCKVCache` |
| `ExpertTiers` | expert cache, tiers, prefetch, predictor | `ExpertTiersProofs`; `MCExpertTiers` |
| `Startup` (`Backends` (`Checkpoint` (`Quant`))) | from a configuration and a file to a loaded engine | `MCStreamedEngine` |
| `BlockStreamer` | the ring, its readers, the passes | `StreamedEngineProofs` |
| `StreamedEngine` (`BlockStreamer`, `Startup`) | a start and the passes over what it left to be streamed | `StreamedEngineProofs`; `MCStreamedEngine` |
| `Frontends` (`TextStream`, `Prompts`) | every handler between a client and the scheduler | `TextStreamProofs`, `FrontendsProofs`; `MCFrontends` |

The models meet where the code does.  `Frontends` takes from the scheduler what
`RequestService` promises of a request: tokens and then one end, or silence
after a panic.  `Scheduler` takes from the runtime that a round yields tokens, an end or an
error (`RoundYields`).  `Decode` takes from a cache that it is a log of positions
(`ImplementsLog`) and from a backend that a pass reads the weights it was given,
which `OwnBytes` and `LoadedWhole` say of the streamed and of the loaded ones.

What is proved is under a heading on proofs in each part, with what it rests on; all three
abstract specifications are proved to be implemented.  In common:

- A proof assumes the ASSUME of the module it is about (finite sets, natural numbers,
  values that are not `None`) and, where the theorem says so, one condition more.
- The provers have no induction over data.  Where a proof needs what a sum or a join of
  parts is, it takes a smallest case for which it is not: a set (`SumAny`, `SumParts`,
  `SumImage`, for the byte counts of both caches and of what is pinned), a length
  (`JoinExists`, `FlattenJoins`, for the text of a reply; `LayersExist`, for the depth of a
  header's values) or, for any fold, the elements it has taken (`FoldExists`, `FoldKeeps`, for
  a header's sizes and for the spending of the budget).  What the folds of `Prompts` make
  of a text stays with TLC.
- Liveness under fairness is beyond the prover, and stays with TLC: `AcceptedEnds`,
  `EveryReplyEnds`, `Settles`, `PassesEnd`, `Answered`.

Left to TLC are the invariants `Prompted` and `KernelsExact`; the parts say why.

## The scheduler

`Scheduler.tla` has one member of `Req` for each call of `submit`.  `where` says
which structure owns the request:

| `where` | in the code |
|---|---|
| `new` | `submit` not called yet |
| `lookup` | between `user_semaphore` and `try_acquire_owned` |
| `holding`, `bounced` | the `Request` on the submitter's stack, before `try_send` and after it failed |
| `channel`, `heap` | in `rx`, in the `BinaryHeap` |
| `admit`, `prefill`, `active` | popped in this iteration, `batch.prefilling`, `batch.active` |
| `finishing` | its last event is sent, its permit not yet returned |
| `retired`, `refused`, `lost` | gone: after its end, refused, with a panicked worker |

An action is one access to state another thread can see.  `submit` is `Lookup`
(the user table's lock), `Acquire` or `RateLimited`, `Enqueue` or `Busy` with
`Bounce` (the permit of the refused request comes back), and `Submitted`, which
can happen after the loop has finished with the request.  One iteration of
`run_loop` is the phases `collect` (`Drain`), `purge`, `admit`, `start`,
`prefill`, `check` and `emit`; within a phase each action treats one request, so
that submissions, cancels, hang-ups and deadlines fall anywhere between.
`Finish` counts and sends, `Release` drops: between the two a client can see its
end and still be charged for its slot.  `Panic` unwinds the batch.  Outside the
model: how many tokens a prefill piece has (any number of at least one), what
tokens are, and metrics.

### Runs

| run | instance | shows |
|---|---|---|
| `scheduler_pair` | two requests of one user, two slots, lookahead 1, three tokens, panics, one fickle client, one hasty deadline | `TypeOK`, `CountersBalance`, `StreamsEnd`; `ImplementsService`; `CancelStopsSoon`; `AcceptedEnds` under fairness |
| `scheduler_trio` | three requests of two users, one slot, channel and quota of one, panics, one fickle client | `SlotLimit`, `PermitsConserved`, `UserLimit`, `NoOvertaking` |
| `scheduler_queue` | three requests, a capacity of one | `QueueLimit` is violated: the queue bound does not bound the queue |
| `scheduler_race` | three requests of two users, a table that holds one user before it prunes | `UserLimit` is violated: a pruned semaphore is still in use |

The bounds are small and enough: the limits are all one or two, so that two
requests contend for each and the third finds it taken; three tokens let a
speculative round end before, at and after `max_tokens`; a prompt of two pieces
is one that can be interrupted.  `NoOvertaking` needs three requests: two
submitted in an order and one that keeps the slot.  `Fickle` and `Hasty` say whose
client may go away and whose deadline may pass; two different requests have
them in `scheduler_pair`, and their interplay on one request is the order of the
checks in `Abandon`.

Fairness is weak, on `Loop` (a tokio task and its worker keep running) and on each
`submit` once entered (it never awaits).  No client is required to submit or to
cancel, no deadline to pass, no worker to panic.  `AcceptedEnds` therefore rests
on the loop alone.  The loop ends only in `Quiet`, blocked on `recv` for ever.

### Findings

`queue_capacity` is documented as the number of requests that may wait; the loop
moves them at once into an unbounded heap.  And `user_semaphore` prunes
semaphores that are idle, one of which another thread may have just been
handed, so that above `USER_TABLE_HIGH_WATER` users a user can exceed
`max_concurrent_per_user`.

### Proofs

`SchedulerProofs` proves `Inductive` and from it the limits; it assumes only
`SchedulerAssumption` (finite sets, natural numbers).

The inductive invariant is `TypesOK`, `SemOK` (past `user_semaphore` a request
has a semaphore) and `TodoOK` (a request the phase still has to treat is in the
place the phase expects).  The last is what makes it inductive: without it
`Start` could move a request that already ended.  With it, every step moves a
request in one of a few ways (`LoopMoves`, `AdmitMoves`, `StillMoves`), and the
limits follow from how a move changes a set by at most one element:

- `PermitsAlwaysConserved`: a permit is available or owned, by counting the
  holders of each semaphore before and after a move;
- `SlotsNeverExceeded`: only `Admit` enlarges the batch, and looks first;
- `UserLimitHolds`: while the users are no more than the high-water mark, all
  requests of a user share one semaphore, whose permits are conserved.  The run
  `scheduler_race` shows that the assumption is needed.

`SchedulerServiceProofs` is about what callers see.  Every step is first sorted into
the few deeds a caller can notice (`Deeds`): a request is counted and told its end, one
token or one round is sent, one moves on, or nothing.  From those:

- `StreamsEndAlways` and `TypeOKAlways`: a stream's bound is not inductive while a
  round is being sent, so the invariant counts what is sent with what the round still
  has to send (`Due`);
- `CountersAlwaysBalance`: ended requests and submissions, counted set by set;
- `NobodyOvertakes` and `CancelAlwaysStopsSoon`, over the histories of
  `MCSchedulerOrder`: an admission follows a look at everything queued, and a
  request the loop goes on with was not cancelled when it looked;
- `ServiceImplemented`: each deed is a step of `RequestService` or none.  It
  assumes, like `UserLimitHolds`, no more users than the high-water mark.

Model-checked only: `AcceptedEnds`.

## Decoding

`Decode.tla` is the runtime behind the scheduler's worker.  The worker is its only
caller, so one call is one action: `Start` or `Refuse` (`start_incremental`),
`Prefill` or `PrefillFails` (`advance_prefill`, `finish_prefill`), `BatchRound` and
`BatchFallback` (`next_token_batch`), `SpecRound` (`next_tokens_speculative`; with
no guess it is what `next_token` does).  Which round is taken is `step_batch`'s
choice: guesses for a session alone, one pass for several.

A cache is, for each layer, the sequence of tokens whose positions it has absorbed,
and that is all of it the properties can tell apart.  The operators on it do what the
code does with positions: `Fed` appends to every layer what the *first* layer lacks
of the context (the backends take `seq.len()`, the first layer's length, for all),
`Cut` is `truncate`.  A pass answers from the cache and not from the
context: only if every layer holds exactly the context does it give the model's
`Choice`; otherwise any token may come out.  A rollback that is one position off,
or a cached prefix that belongs to something else, shows up as a wrong reply.

The layers in `Linear` are recurrent: a summary of the tokens, which can only go back to
a copy.  A round with guesses records one before each position (`begin_recording`),
and `Cut` takes the copy that stands where the round is cut to, or refuses.  The prompt
cache is `cached`, its `recency` and its byte count `held`; a reply that ends offers
what it absorbed, an older entry of the same prompt is replaced, and the
least recently used go until both bounds hold.

The guesses come from `Echo` (the prompt-lookup drafter) or `Proposals` (the draft
model, whose cache has a window of its own and fills up first; a failure loses all
guesses of the round).  `drafter` says which kind the engine has: none, one of
attention layers, whose cache can be cut, or a recurrent one, which holds no copy to
go back to and is started over.  A session in `Greedy` takes the model's choice; the
others draw any token, and keep any subset of the guesses they drew.  A session in
`Flaky` is one whose own passes, samples and rollbacks may fail.

`PlainDecoding.tla` says what all this is for: replies grow by the model's own
choices, stop at the first end token, at the budget or at the window, and never
change afterwards.  `ImplementsPlain` maps a session to its reply, and a
session that ended for a failure to `failed`, whatever reason the code gave.

### Runs

| run | instance | shows |
|---|---|---|
| `decode_rounds` | one greedy and one sampling session, an attention and a recurrent layer, a prompt cache with room for two prompts and a bound of one entry, or for one prompt and a bound of two entries, a window of 5, drafts of 4, three tokens to generate, two guesses a round, both may fail | `TypeOK`, `InStep`, `CachedExactly`, `CacheBounded`, `Handed`, `DraftTrails`; `RoundYields`, `GuessingIsFree`, `ImplementsPlain`; `EveryReplyEnds` under fairness |
| `decode_batch` | the same with one session that never fails | `FailureIsOwn` is violated: a failure spreads to it |

A prompt of two or three tokens leaves a prefix that is absorbed in one piece or two;
three tokens in a window of five end at the budget or at the window, before, at or
after a guess; two guesses are none, one or both right; the draft's window of four
ends inside a round.  Two layers are what it takes for one to differ from another.
`MCChoice` repeats itself, so that lookup finds something, and ends some replies.

`GuessingIsFree` is what the copies are for: a session that guesses alone ends as full
only when its window is.  The two prompt caches make one bound bind and then the other;
the smaller one also declines the longest prefix.

Fairness is weak, on `Loop`: the scheduler's loop steps whatever is in its batch.  No
request is required to start, and no pass to succeed.

### Finding

A batched pass that fails has by then appended to caches that were fine.  The
fallback steps each session alone without cutting them back, the backend
finds "no new tokens to process for this context", and sessions that had nothing to do
with the failure end as `ContextFull`.  The comment on the fallback promises the
contrary.

### Proofs

`DecodeProofs` proves all safety properties of the run, for any `Choice`, any number of
sessions, layers and tokens, any window, budget, lookahead and drafter, from
`DecodeAssumption`: `InStepAlways`, `CachedExactlyAlways`, `CacheBoundedAlways`,
`HandedAlways`, `DraftTrailsAlways`, `TypeOKAlways`, `RoundsAlwaysYield`,
`GuessingAlwaysFree`, and `PlainImplemented`.

The inductive invariant `Inv` says of each session what its status promises (`Sound`).
A cache that is being prefilled must hold a proper prefix of the prompt in every layer,
or `Fed`, which asks the first layer how far it is, would leave the others behind; that
is also why an entry of the prompt cache has to be exact before a request may start
from it (`StoreOK`).  A drafter's cache must hold a proper prefix too: were it ever to
hold what was rejected, the next guesses would be read from a context that is not there.

The rounds are the hard part and take three steps.  During one the caches are ahead of the
context by guesses that may be wrong; `GoesBack` shows that whatever is kept, the cut finds
a copy of every recurrent layer and leaves a prefix of context and guesses, and `NewTrails`
that the draft's cache never contradicts them.  `LastIs` and `PushedIs` show that the
tokens kept are the model's own answers up to the last, so that this prefix is
one of the new context.  Then each kind of round, the batched ones and their fallback
among them, is an instance of `Round`: every active session gets some tokens and goes on,
with caches in step, or ends, without.  Everything else is proved of `Round`; a
greedy reply is plain decoding's because each token is the choice after exactly
what precedes it (`Given`).

The prompt cache is apart from that: `InsertKeeps` computes what is left after an eviction
as a sum over the rest of the list (`SumRest`), and shows that some number of evictions
always restores both bounds.  Model-checked only: `EveryReplyEnds`.

## The attention cache

`KVCache.tla` opens up what `Decode` takes for granted: one layer's cache is the log
of its positions.  `cache[o]` is the `KVCacheState` of one layer of a sequence, or of
an entry of the prompt cache: its length, the blocks in RAM, the blocks that were
spilled with their paths, its `seq_id`.  `disk` is the one directory all of them
write to.  A key and a value are one `Value`.

The operators of the first part are the methods, one for each: `Appended`, `Victims` and
`Spilled` (`enforce_residency`), `Reloaded`, `Needed` (`ensure_resident`), `InRam`
(`slice_at`), `Cut`, `Refused` and `Stale` (`truncate`), `Rekeyed`.  The actions are
their callers: `Position` is a pass over one position (append, spill, read back,
read, as `attend_one` does, and any of them may fail), `Truncate` the end of a
speculative round, `Hit` and `Finish` the two sides of the prompt cache, `Drop` the
end of an owner with its purge.  An owner whose call failed is `broken`, and the
runtime drops it.  `floor` keeps `Truncate` to what the runtime asks for: never more
than the guesses of the round.  Layers do not share anything, so one stands for all.

`ImplementsLog` maps a cache to the values at its positions, in RAM or in the file:
no step changes, loses or invents one, however often a block is spilled, read back, cut,
written again and spilled again.  `FilesGoWithOwner` is the comment on `SeqState::drop`.

### Runs

| run | instance | shows |
|---|---|---|
| `kv_pages` | two sequences, one of which writes two values and one whose file operations may fail, an entry of the prompt cache; five positions in blocks of two, one block in RAM; a window of two, or none; rounds of up to two guesses | `Whole` (with the types), `PathsApart`, `BreaksOnlyByFault`, `Bounded`; `ImplementsLog` |
| `kv_files` | the same without failures | `FilesGoWithOwner` is violated: a block that was read back leaves its file behind |

Five positions in blocks of two are three blocks, the last never full; with one in
RAM the other two are spilled.  Two guesses reach back over a block boundary, so that
a spilled and reloaded block is cut, written again and spilled again.  Two values
tell the old from the new; the second sequence has a value of its own, to tell whose
block it is.  The two values are symmetric, and nothing is checked under fairness.

`BreaksOnlyByFault` holds because the window is as large as a round's guesses.  With one
block in RAM and a window smaller than that, a round can spill the block it is then to
be cut in, `truncate` refuses, and the session ends.  "Resident by construction"
in its comment is true of configurations with at least two resident blocks and
blocks no smaller than a round.

### Finding

`reload` forgets the path of the file it read and leaves the file.  Neither `truncate`
nor `purge_spill_files` can remove it any more, so a sequence that ends after its
blocks were read back, which without a window is every one, leaves its files behind.

### Proofs

`KVCacheProofs` proves every property of `kv_pages`, for any numbers of sequences, entries
and positions, any block size, windows and bound on the blocks in RAM.  The inductive
invariant `IInv` is about every owner, whatever its status: each block a position
uses is in RAM or in a file that is there, and as full as the length says (`Sound`); a file
bears the name of the sequence that wrote it, and what the prompt cache keeps has none
(`Named`), or one sequence's rewrite could take another's positions; an owner not begun is
empty (`Fresh`).  `WholeAlways`, `PathsApartAlways` and `BoundedAlways` follow, and
`LogImplemented`: every method, spilling and reading back among them, leaves the values at
the positions alone or changes them as the log does.

`BreaksOnlyByFaultAlways` assumes `WindowsReach`: every sliding window is at least as
large as a round's guesses.  Nothing in the code checks that, and it is needed: with a
window of one position, one block in RAM and four guesses TLC finds a session that is
ended by a cut that is refused.

## Experts

`ExpertTiers.tla` is the engine with synthetic experts: decoding threads route each
token to `TopK` experts and load them, learn which experts follow which, and have the
likeliest warmed on a pool.  A loader is a thread or the background load of one
expert.  `load` is `FirstLook` (the cache's mutex), `Acquire` (the expert's load lock and
the second look under it) and `Fetch` (`load_uncached`, `insert`, the lock given up);
`observe_step` is `Learn`; `warm` is `WarmLook` and `WarmClaim`; a task of the pool is
`Begin`, a load and `Release`.  Between any two of these anybody else may run.  `Reads`
lists the ways a read can end: L2 if it has the file, then L3 with a promotion that may
fail, then synthesis with a write that may fail.  A file that does not parse fails the load.

| run | instance | shows |
|---|---|---|
| `expert_tiers` | two threads, one pool worker, three experts of two bytes, two to a token, a budget of five; three steps in all; each expert in L2, in L3, in neither, or damaged; one storage operation that fails | `CacheExact`, `OneReads`, `SameWeights`, `ClaimsCover`; `Settles` under fairness |

A budget of five holds two experts and not three, so that every third load evicts,
and the two threads want what the other has just pushed out; one worker makes two
claims queue.  Three steps let a thread learn, be served by what it warmed, and
meet a background load of the same expert at each of its places.  The counts of the
predictor are those of the code, so that what is warmed is what it would warm.

Fairness is weak on threads and tasks that can run.  No token need be routed.  With
finitely many steps a lock is given up for good in the end, so strong
fairness of the mutex is not needed.

### Proofs

`ExpertTiersProofs` proves the safety properties for every number of threads, experts and
workers, from `TiersAssumption` alone (among it: that two copies of an expert
which parse do not differ when the server starts).  `OneReads` is not inductive by itself:
`Held` adds that who reads an expert holds its lock, so that the second
reader would have to hold the same lock, and that it is not resident, which `Acquire`
has looked up and nobody but the holder can change.  `SameWeights` needs from a read only
that it brings what some tier held, or, when none did, what is then the only copy.

`CacheAlwaysExact` is about the accounts: eviction pops the recency list, so `StoreInv`
counts the bytes along that list, and the list is shown to name each resident once.
`ClaimsAlwaysCover` follows a background load through its places.  Model-checked only:
`Settles`.

## Loading and streaming

Four modules, each a layer of the loader.  `Quant` is `quant/mod.rs`: the block formats,
the decoders and the integer kernels.  A packed number is the sequence of bits it is put
together from and a product the set of terms it sums; that a kernel and a decoder
agree means they read the same bits, scales and minima for each element of each vector.
`Checkpoint` is the header (`Parse`), tensors and weights: `Loads` is what
`load_weight`, `pinned_weight` and `load_norm` demand, `WeightAt` what they return, `RowAt` the
byte a row is read from.  `Backends` says what each tokenizer and each architecture asks of
a file, which blocks are pinned, which spans are left, which pages belong to an expert.
`Startup` is `Engine::build`: `Validate`, `OpenCheckpoint`, `ParseCheckpoint`,
`LoadTarget`, `Wire`, `LoadDraft`, each of which can refuse.

`BlockStreamer.tla` is the ring.  A pass visits the blocks in order: it hints ahead
(`HintAhead`, `try_send` on a queue as long as there are readers), borrows a block
(`Borrow`, with `ReadInline` if it is not there), and computes from it under the guard
(`Attend` or `Recur`, then `FeedForward`).  A reader is `TakeHint`, `Fetch`, `Prefetch`.
Each read may be short or fail.  Several passes run at once: the scheduler's worker and
the embedding tasks share a backend.  `StreamedEngine` lets `Startup` decide what is
pinned and runs `BlockStreamer` over the rest.

| run | instance | shows |
|---|---|---|
| `block_streamer` | 513 starts: two good files of each kind under every kind of configuration, and files with one tensor, one key or one part of the header wrong; for two of them two passes and two readers share two slots over three blocks, one of them recurrent, nothing pinned or the head and a block; one failing block | `LoadedWhole`, `PinnedOrStreamed`, `ExpertsWarmed`, `KernelsExact`, `OwnBytes`; `PassesEnd` under fairness |

`LoadedWhole`, `PinnedOrStreamed`, `ExpertsWarmed` and `KernelsExact` speak of an engine that has
started: once loaded it does not change, so they look at it before its first pass.
The files have every tensor type the loaders take, stacked and split experts, a tied and
an untied head, a block stored before the one it follows, and a block past the stack.
Budgets are nothing, the head alone, one that is just short of a block, the head and a
block, and everything.  Three blocks in two slots make a buffer hold two blocks in turn;
two passes one block apart contend for it, and a stale hint refills it in between.

`OwnBytes` has an exception because the code does: `fill` that fails leaves the buffer
half filled, and `borrow` hands it out all the same; the pass goes on with it.  The
property says that this is the only way to wrong bytes, and that the slot then never
passes for ready.

Fairness is weak, on the steps of a pass under way and on a reader that has begun to
read.  Readers need take no hint, and no pass need begin.

### Proofs

`StreamedEngineProofs` proves what a server multiplies by, from the file to the pass.

The ring: `OwnBytes` for any file and pinned blocks, any number of blocks,
slots, passes and readers.  It speaks of the slots a pass computes from, which were
filled step by step by others; the inductive invariant `IInv` (`RingInductive`) says of every
slot that while it is ready it holds the block it names, whole; that while it is filled it
promises nothing, and its first pieces are the block's; and that its lock is held by the
one worker that fills it or computes from it, so that nobody touches it meanwhile.
A failed read leaves a slot that promises nothing, which is all of the exception.
`EngineOwnBytes` is the same of `EngineSpec`: `Startup` chooses what is pinned, and
until the server serves nobody has touched the ring.

The loader: `LoadedWhole` for any checkpoints and configurations (`LoadedWholeAlways`).
`CasesAssumption` is all that is asked of a file: its values have their types, its sizes are
natural numbers (`FileOK`), as is the size that may be pinned.  Nothing changes once it is loaded, so the invariant
is slight (`BootOK`: a streamer is set up only for a Qwen3.5 checkpoint) and the proof
follows the bytes.  `Parse` gives a header whose data begins somewhere (`ParseType`); a shape
that configures asks for matrices of natural dimensions, each the model's own or a
block's (`LlamaNeedsOK`, `Qwen35NeedsOK`); the span of a block is around its tensors, whatever
their order (`BlockSpanAround`); the rows of a matrix add up to no more than its
tensor, even where a row is no whole number of quantisation blocks (`RowFits`); so a
weight that `Loads` lies in its tensor, the tensor in its memory and the memory in
the file, and a row is read from the same byte in place (`ReadInPlace`) as from the block handed
along (`ReadStreamed`).  A pinned weight is never looked for in a streamed block, because a pinned
block's span is empty.

What is pinned: `PinnedOrStreamed` for any checkpoint, also one whose tensors overlap or
lie across the span of another block (`PinnedOrStreamedAlways`).  Going through the
blocks, the loader holds what fits: what it has counted is the head's bytes and those of the
blocks it holds, and is within the budget (`SpendHolds`, kept through the fold by
`PinsHold`).  The places that its weights are then read from are those blocks and
the head, each one once (`PinnedHeld`: every block has a matrix that is packed), so their
lengths add up to what was counted (`PinsCounted`).  A block that is held has an empty
span, and one that is not has a span around its tensors, which is empty only if they
are (`PinsDivided`).  The ring is given just these blocks when the server begins to
serve, and keeps them (`DealtOut`, the inductive part).  A matrix of no bytes is the one
exception, and `HasBytes` in the property says so: it is read from nowhere.

What is warmed: `ExpertsWarmed` for any mixture that is laid out as files are
(`ExpertsWarmedAlways`).  The theorem has a condition, `ExpertsApart`, because the loader
does not check it: no two tensors overlap, and the matrices of the networks have rows, each
whole blocks of its type (`LaidApart`).  Without it the property is false: of two overlapping tensors one
expert's pages hold the other's rows, and `byte_range` has nothing for a stacked
matrix of ragged rows.  Every mixture the run serves meets it, stacked and split.  An
expert is cut into pieces, rows of one matrix next to each other (`Pieces`): the name of a matrix
determines how many rows it has (`FfnNamed`), so a piece is within its tensor
(`PieceIs`); what is read is the rows of the pieces (`ExpertRowsAre`) and what is warmed
their ranges (`RangesAre`); and pieces of two experts are of two tensors, or apart in one
(`PiecesMiss`).

Model-checked only: `KernelsExact`, an evaluation of kernels bit by bit.  `PassesEnd` is
liveness.

## The front ends

`Frontends.tla` has one member of `Conns` for a client's connection.  A request arrives,
and `TurnAway` (key and checks), `Serve` (the static routes), `Submit`, `Embed` or `Upgrade`
takes it.  After `Submit` the handler reads the request's stream: `StreamToken`,
`StreamDone`, `StreamError`, `StreamSilence` if it streams, `CollectToken` and
`CollectEnd` otherwise.  The scheduler's side of that stream is `SayToken`, `SayDone`,
`SayError` and `FallSilent`.  A client may `Disconnect` at any moment and its handler is
then dropped with what it holds (`Leave`).  A socket reads messages when idle (`ReadIdle`) and while a
request runs (`ReadRunning`).  What a format makes of an answer is its `EndFrames`,
`Reason` and `Status`.

`TextStream.tla` turns tokens into text, all at once and piece by piece; a byte is the part
it plays in UTF-8.  `Prompts.tla` turns text into tokens: the templates, the
pre-tokenizer, both merges, the SentencePiece heap with its stale entries; and
beside them what they are meant to compute: the pattern the pre-tokenizer writes out
(`PatternSplit`), the merging of the best pair each time (`Resegmented`), and the transcript that
each chat format documents, written out in full (`Transcript`).

A marker is both a token, when the vocabulary holds it, and the characters it is written with,
which anyone may type.  `Prompted` therefore asks two things of the prompt of a conversation, in every
format and with every tokenizer: that its tokens, read back, are the transcript, so that every turn's text is
there in order and nothing else is at the seams; and that each marker is there as a token as often as
the transcript of the same turns without their texts mentions it, so that what a user types never counts.

| run | instance | shows |
|---|---|---|
| `frontends` | every route, streamed and not, with each tokenizer, replies of up to four tokens that cut characters of two and three bytes; some four thousand prompts and conversations in seven formats, with turns empty and turns that spell the markers; keys; three embeddings requests of one to three inputs on one slot; sockets with up to three messages | `Faithful`, `Prompted`, `SlotsHeld`; `Answered` under fairness |
| `ws_cancel` | the sockets alone | `CancelDrops` is violated: `{"cancel": true}` alone does not cancel |

A prompt is checked on its way to a full queue, so that nothing else multiplies it.  Texts
of up to five characters are long enough for a heap entry to go stale twice and for
every alternative of the pre-tokenizer to meet the next.  Three clients for one slot are one that
has it, one that is refused, and one that comes when the first has left.

Fairness is weak on what a handler awaits once it is there, and on the blocking task
of an embeddings request.  Nothing makes a client send or leave, and nothing makes the
scheduler speak.

### Proofs

`FrontendsProofs` proves `TypeOK`, `SlotsHeld` and `Faithful` for any connections, requests,
keys, vocabulary and number of slots, and replies of any length.  It assumes that a token has bytes
(`TokenBytesAssumption`), that connections are finitely many, and that a scenario asks
something of each, whose inputs are texts (`FrontendsAssumption`).

`TextStreamProofs` treats the decoder by itself, which is where a reply can go wrong unseen:

- `CompleteAt` and `ContinuesAt` say of a byte, without a quantifier, whether it is part of a whole character.
  Appending bytes never changes that of a byte that is whole, so the lossy decoding
  of what is whole is a prefix of the decoding of everything (`StaysComplete`, `LossyBeyond`);
- `PushTells`: after each token, what was sent is the decoding of the bytes that were whole
  by then and the decoder holds the rest, which begins with no whole character.
  For SentencePiece the one leading space is dropped from both;
- `FinishTells`: what was sent and what the end adds is the decoding of all the bytes.

A reply that is no UTF-8 in the middle is outside both, unless the tokenizer is byte-level BPE: there the two
replacement characters differ (see below), and `Faithful` says so by `Readable`.

The inductive invariant `IInv` (`Invariance`) has `ConnOK` for each connection, which says of its handler,
its frames and its job together:

| part | says |
|---|---|
| `Courses` | which phases a route has, and what has been sent, said and read in each; a task at work has a handler that embeds or a client that left |
| `Refused` | a request that `submit` refused is over, with the status of its refusal |
| `Flowing`, `EndsLast` | while a handler streams, nothing it sent is an end; an end is the last frame |
| `TextTold` | the text sent is that of the tokens read, as far as whole, with the decoder holding the rest |
| `EndTold` | once a handler is done, the reason and the count are those of the last event |

and for all of them together that the free permits and the handlers that embed are as many as the
slots.
`ConnOK` is needed beside `Faithful` because the text of the next frame depends on
what the decoder holds, which no client sees.  There is a lemma `Conn...` for each
move of a handler, and `IInvStep` takes the actions one by one.

Left to TLC: `Prompted`, which is about what folds over a text compute (that a heap with
stale entries merges as a search for the best pair does), and `Answered`, which is liveness.

### Finding

`WsRequest` requires `prompt`, so that the documented `{"cancel": true}` does not parse: during a
run it is ignored, and otherwise answered with an error.  Leaving the socket does cancel.

## Other disagreements

Met while translating, each with the model true to the code, and no run of its own:

- `tokenizer/mod.rs:39` promises that streaming agrees with `decode`.  It does for text;
  for bytes that are no UTF-8 the streamed replacement characters differ in number
  (`Faithful` is about `Readable` replies).
- `chat/mod.rs:277-279` says of a prompt that opens with a marker that `encode("")` is the leading
  token "and nothing else", and empty for a vocabulary that asks for none.  For SentencePiece that is not so:
  `encode_spm` pushes the space mark whenever it leads, before it looks at the text
  (`tokenizer/spm.rs:174-176`), so `encode("")` is `<s>`, `▁`, or `▁` alone without
  `add_bos_token`, and where the vocabulary holds `<|im_start|>` the prompt is
  `<s>`, `▁`, `<|im_start|>`.  The model does the same, and `Prompted` asks for what the code does: its
  reading of a SentencePiece prompt has the mark in front, also before a marker.
- `chat/mod.rs:22-32` says that `encode` does not recognise markers.  Byte-level BPE leaves them out of
  its `lookup` (`tokenizer/bpe.rs:332`); SentencePiece's `lookup` has every entry, markers too
  (`tokenizer/spm.rs:117`), and `token_id` reads the same map.  A text that spells a marker stays text
  because no sequence of merges leads to it; in a vocabulary whose other entries do lead
  there (`</` and `</s`, say), it becomes the marker.  `Prompted` is checked with a vocabulary
  that has the markers and no such entries.
- A request whose worker panicked falls silent.  A web socket then reports `stop`, the
  Anthropic format `max_tokens`; the Ollama, llama.cpp and TGI streams end without a last frame.
- `api/mod.rs:611` says the permit bounds the blocking tasks.  A client that leaves
  gives it back while the task runs on, so tasks can outnumber slots.
- `server/mod.rs:183` says a draft model is not for `qwen35`; the code loads one.  That
  target and draft agree is checked by the sizes of their vocabularies.
- `memory.weight_cache` is parsed only where it is used: a size that is no size is accepted
  with any other checkpoint.
- `quant/mod.rs:13` says every quantised type has an integer kernel; `Q4_0` has none and
  is expanded.
- A weight that stays mapped is never checked for finite values, one that is expanded is.
- A mapped tensor whose rows are not whole blocks loads, and every product with it fails.

## Not modelled

- Floating-point arithmetic: what a forward pass, a kernel's sum or a sampler computes.
  Models answer by a function of the context, products are sets of terms.
- What only advises the kernel: `LayerPrefetcher` and the page prefetcher.  Which pages
  they name is in `Startup`.
- The scheduler's pacing and metrics, statistics and timings of replies, identifiers.
- Reading the configuration file, binding and shutting down the socket; arithmetic on
  offsets too large for their type; strings of a header that are no text.
- `unload`, which only the benchmark calls; the benchmark, the command line and the page.

`PROJECT.json` lists each component with what is left out of it and why.  Everything
not named under a heading on proofs is model-checked on the instances above, and no more.
