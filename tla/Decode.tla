-------------------------------- MODULE Decode --------------------------------
(***************************************************************************)
(* Generation (src/garuda/src/runtime/mod.rs): a session is started from   *)
(* a prompt, perhaps with a cached prefix, prefilled in pieces and decoded *)
(* in rounds: all active sessions in one batched pass, or one alone with   *)
(* guesses that are verified and rolled back.  The scheduler's worker is   *)
(* the only caller, so a round is one action.                              *)
(*                                                                         *)
(* A cache holds, for each layer, the tokens whose positions it has        *)
(* absorbed: a KVCacheState, or a LinearState, which sums them up and can  *)
(* only go back to a copy.  The model is a function Choice of the context: *)
(* what a pass reads off caches that hold exactly the context.  From any   *)
(* other cache it reads any token at all.                                  *)
(***************************************************************************)
EXTENDS Integers, Sequences, FiniteSets, Functions

CONSTANTS
    Session,      \* the requests
    Token,        \* the vocabulary
    EndTokens,    \* the tokens for which ends_turn holds
    Prompts,      \* the prompts requests come with
    Choice(_),    \* the model's greedy choice after a context
    Greedy,       \* the sessions with temperature 0; the others sample
    Flaky,        \* the sessions whose own passes may fail (a spill that cannot be
                  \* written, a block that cannot be read back)
    Layers,       \* layers of the model and of its drafter
    Linear,       \* the target's recurrent layers: a LinearState each
    MaxContext,   \* InferenceRuntime::max_context
    DraftContext, \* the context window of the drafter's cache
    MaxTokens,    \* SamplingParams::max_tokens
    Lookahead,    \* SchedulerConfig::speculative_lookahead
    Ngram,        \* NGRAM
    CacheLimits,  \* the bounds a prompt cache may be made with
    None

Layer == 1..Layers
Seqs(S, n) == UNION {[1..k -> S] : k \in 0..n}

ASSUME DecodeAssumption ==
    /\ IsFiniteSet(Session)
    /\ EndTokens \subseteq Token /\ None \notin Token /\ None \notin [Layer -> Seq(Token)]
    /\ Prompts \subseteq Seq(Token)
    /\ \A c \in Seqs(Token, MaxContext) : Choice(c) \in Token
    /\ Greedy \subseteq Session /\ Flaky \subseteq Session
    /\ Layers \in Nat \ {0} /\ Linear \subseteq Layer /\ MaxContext \in Nat /\ MaxTokens \in Nat
    /\ Lookahead \in Nat /\ DraftContext \in Nat /\ Ngram \in Nat \ {0}
    /\ CacheLimits \subseteq [entries : Nat \ {0}, bytes : Nat]

VARIABLES
    status,     \* new, prefill, decode, done, failed
    context,    \* Session::context, Pending::context
    promptLen,  \* Session::prompt_len
    kv,         \* the target's cache: for each layer the tokens it has absorbed
    draft,      \* Session::draft_seq, or None
    reuse,      \* Pending::cache_on_finish
    out,        \* the tokens handed to the caller so far
    reason,     \* StopReason: none yet, eos, length, full
    cached,     \* PromptCache.entries: a function from prefixes to caches
    recency,    \* PromptCache.lru, least recently used first
    held,       \* PromptCache.bytes
    limits,     \* PromptCache.capacity and budget_bytes, in positions and recurrent states
    drafter     \* the engine's draft model: none, of attention layers, or recurrent

store == <<cached, recency, held, limits>>
vars == <<status, context, promptLen, kv, draft, reuse, out, reason, store, drafter>>

-----------------------------------------------------------------------------
(* Caches.                                                                 *)

Fresh == [l \in Layer |-> <<>>]

\* The backends take a sequence to have absorbed what its first layer has, and
\* append the rest of the context to every layer.
Fed(c, ctx) == [l \in Layer |-> c[l] \o SubSeq(ctx, Len(c[1]) + 1, Len(ctx))]

\* KVCacheState::truncate, layer by layer.
Cut(c, len) == [l \in Layer |-> IF len >= Len(c[l]) THEN c[l] ELSE SubSeq(c[l], 1, len)]

NoCopies == [l \in Linear |-> << >>]

\* The state copied after the token is folded in, under the count from before.
BugCopies(c, ctx) ==
    LET fed == Fed(c, ctx)
    IN  [l \in Linear |-> [n \in Len(c[l])..(Len(fed[l]) - 1) |-> SubSeq(fed[l], 1, n + 1)]]

\* What a recorded pass over ctx copies of each recurrent layer (LinearState::snapshot):
\* its state before every token, found by the number of tokens folded into it.
Copies(c, ctx) ==
    LET fed == Fed(c, ctx)
    IN  [l \in Linear |-> [n \in Len(c[l])..(Len(fed[l]) - 1) |-> SubSeq(fed[l], 1, n)]]

\* A recurrent layer goes back to a copy, if it holds one (SeqState::truncate).
Recoverable(c, copies, len) ==
    len < Len(c[1]) => \A l \in Linear : len \in {Len(c[l])} \cup DOMAIN copies[l]

Rewound(c, copies, len) ==
    [l \in Layer |-> IF l \notin Linear THEN Cut(c, len)[l]
                     ELSE IF len \in DOMAIN copies[l] THEN copies[l][len]
                     ELSE c[l]]

Holds(c, ctx) == \A l \in Layer : c[l] = ctx

\* What a pass over ctx that left the cache c can choose to follow its first n tokens.
Answers(s, c, ctx, n) ==
    IF s \in Greedy /\ Holds(c, ctx) THEN {Choice(SubSeq(ctx, 1, n))} ELSE Token

Front(q) == SubSeq(q, 1, Len(q) - 1)
Least(a, b) == IF a < b THEN a ELSE b
Minus(a, b) == IF a < b THEN 0 ELSE a - b      \* saturating_sub

Generated(s) == Len(context[s]) - promptLen[s]
Active == {s \in Session : status[s] = "decode"}

\* The checks at the head of every decode step.
Stop(s) == IF Generated(s) >= MaxTokens THEN "length"
           ELSE IF Len(context[s]) >= MaxContext THEN "full"
           ELSE "none"

-----------------------------------------------------------------------------
Init ==
    /\ status = [s \in Session |-> "new"]
    /\ context = [s \in Session |-> <<>>]
    /\ promptLen = [s \in Session |-> 0]
    /\ kv = [s \in Session |-> Fresh]
    /\ draft = [s \in Session |-> None]
    /\ reuse = [s \in Session |-> FALSE]
    /\ out = [s \in Session |-> <<>>]
    /\ reason = [s \in Session |-> "none"]
    /\ cached = << >> /\ recency = <<>> /\ held = 0 /\ limits \in CacheLimits
    /\ drafter \in {"none", "attention", "recurrent"}

\* lru.retain, on a list that names no prefix twice: what is left when x is cut.
Without(q, x) ==
    LET i == CHOOSE j \in DOMAIN q : q[j] = x
    IN  IF x \in Range(q) THEN SubSeq(q, 1, i - 1) \o SubSeq(q, i + 1, Len(q)) ELSE q

Total(f) == FoldFunction(LAMBDA a, b : a + b, 0, f)

\* SeqState::resident_bytes: positions count, and a recurrent state whatever its length.
Size(c) == Total([l \in Layer |-> IF l \in Linear THEN 1 ELSE Len(c[l])])

\* start_incremental: the prompt but for its last token may be in the prompt cache.
Start(s) ==
    /\ status[s] = "new"
    /\ \E p \in Prompts :
          LET prefix == Front(p)
              hit == prefix \in DOMAIN cached
          IN  /\ p # <<>> /\ Len(p) < MaxContext
              /\ status' = [status EXCEPT ![s] = "prefill"]
              /\ context' = [context EXCEPT ![s] = p]
              /\ promptLen' = [promptLen EXCEPT ![s] = Len(p)]
              /\ kv' = [kv EXCEPT ![s] = IF hit THEN cached[prefix] ELSE Fresh]
              /\ reuse' = [reuse EXCEPT ![s] = prefix # <<>> /\ ~hit]
              /\ recency' = IF hit THEN Append(Without(recency, prefix), prefix) ELSE recency
    /\ UNCHANGED <<draft, out, reason, cached, held, limits, drafter>>

\* An empty or oversized prompt, or invalid parameters.
Refuse(s) ==
    /\ status[s] = "new"
    /\ \E p \in Prompts : p = <<>> \/ Len(p) >= MaxContext
    /\ status' = [status EXCEPT ![s] = "failed"]
    /\ UNCHANGED <<context, promptLen, kv, draft, reuse, out, reason, store, drafter>>

\* The bytes of an entry that is replaced are not given back.
BugReplaced(prefix) == held

\* What the entries hold without the one that is replaced, if there is one.
Replaced(prefix) == IF prefix \in DOMAIN cached THEN held - Size(cached[prefix]) ELSE held

\* PromptCache::insert: an entry that alone exceeds the budget is declined; another
\* replaces its like, and the least recently used go until both bounds hold.
Insert(prefix, c) ==
    IF Size(c) > limits.bytes THEN UNCHANGED store
    ELSE LET order == Append(Without(recency, prefix), prefix)
             At(q) == IF q = prefix THEN c ELSE cached[q]
             Left(n) == Replaced(prefix) + Size(c) - Total([i \in 1..n |-> Size(At(order[i]))])
             fits == {n \in 0..Len(order) : n = Len(order) \/
                         (Len(order) - n <= limits.entries /\ Left(n) <= limits.bytes)}
             n == CHOOSE x \in fits : \A y \in fits : x <= y
         IN  /\ recency' = SubSeq(order, n + 1, Len(order))
             /\ cached' = [q \in {order[i] : i \in (n + 1)..Len(order)} |-> At(q)]
             /\ held' = Left(n)
             /\ UNCHANGED limits

\* A prefix offered to the prompt cache before all of it is absorbed.
BugAbsorbedEarly(consumed, prefix) == consumed >= Len(prefix) - 1

\* A prefix that is absorbed and not taken to be.
BugNeverAbsorbed(consumed, prefix) == consumed > Len(prefix)

Absorbed(consumed, prefix) == consumed >= Len(prefix)

\* advance_prefill by one piece, and finish_prefill after the last; a cache with
\* something spilled is not offered to the prompt cache.
Prefill(s) ==
    LET prefix == Front(context[s])
        consumed == Len(kv[s][1])
    IN  /\ status[s] = "prefill"
        /\ \/ /\ Absorbed(consumed, prefix)
              /\ status' = [status EXCEPT ![s] = "decode"]
              /\ UNCHANGED <<kv, store>>
           \/ \E target \in (consumed + 1)..Len(prefix) :
                 LET c == Fed(kv[s], SubSeq(context[s], 1, target))
                     whole == Absorbed(target, prefix)
                 IN  /\ kv' = [kv EXCEPT ![s] = c]
                     /\ \/ UNCHANGED store
                        \/ whole /\ reuse[s] /\ Insert(prefix, c)
                     /\ status' = IF whole THEN [status EXCEPT ![s] = "decode"] ELSE status
        /\ UNCHANGED <<context, promptLen, draft, reuse, out, reason, drafter>>

PrefillFails(s) ==
    /\ status[s] = "prefill" /\ s \in Flaky
    /\ Len(kv[s][1]) < Len(Front(context[s]))
    /\ status' = [status EXCEPT ![s] = "failed"]
    /\ kv' = [kv EXCEPT ![s] = Fresh]
    /\ UNCHANGED <<context, promptLen, draft, reuse, out, reason, store, drafter>>

-----------------------------------------------------------------------------
(* A batched round: next_token_batch over all active sessions.             *)

\* One session's outcome: the token it got, if any, and why it ends, if it does.
Got(t) == [tok |-> t, end |-> IF t \in EndTokens THEN "eos" ELSE "none"]
Ends(why) == [tok |-> None, end |-> why]

Steps(s) == {Got(t) : t \in Answers(s, Fed(kv[s], context[s]), context[s], Len(context[s]))}

\* A failed step that leaves its session unfinished.
BugFails(s) == IF s \in Flaky THEN {Ends("none")} ELSE {}
Fails(s) == IF s \in Flaky THEN {Ends("full")} ELSE {}

\* Each session of verdict gets its token and ends or goes on; one that ends is
\* dropped with its caches.
Settle(verdict) ==
    LET A == DOMAIN verdict
        over == {s \in A : verdict[s].end # "none"}
        given == {s \in A : verdict[s].tok # None}
    IN  /\ context' = [s \in Session |-> IF s \in given
                          THEN Append(context[s], verdict[s].tok) ELSE context[s]]
        /\ out' = [s \in Session |-> IF s \in given \ over
                          THEN Append(out[s], verdict[s].tok) ELSE out[s]]
        /\ kv' = [s \in Session |-> CASE s \in over -> Fresh
                                      [] s \in A \ over -> Fed(kv[s], context[s])
                                      [] OTHER -> kv[s]]
        /\ draft' = [s \in Session |-> IF s \in over THEN None ELSE draft[s]]
        /\ status' = [s \in Session |-> IF s \in over THEN "done" ELSE status[s]]
        /\ reason' = [s \in Session |-> IF s \in over THEN verdict[s].end ELSE reason[s]]
        /\ UNCHANGED <<promptLen, reuse, store, drafter>>

Batching == Active # {} /\ (Lookahead = 0 \/ Cardinality(Active) # 1)
Live == {s \in Active : Stop(s) = "none"}

\* The pass succeeds; sampling fails or succeeds for each session alone.
BatchRound ==
    /\ Batching
    /\ \E verdict \in [Active -> UNION {{Ends(Stop(s))} \cup Steps(s) \cup Fails(s) :
                                           s \in Active}] :
          /\ \A s \in Active : verdict[s] \in IF s \in Live THEN Steps(s) \cup Fails(s)
                                                            ELSE {Ends(Stop(s))}
          /\ Settle(verdict)

\* The pass fails in one session, in one layer: the sessions before it have that layer
\* appended, and all have the layers before it, so that any may have its first layer
\* appended.  Each is then stepped alone, and those have nothing new to process.
BatchFallback ==
    /\ Batching
    /\ Live \cap Flaky # {}
    /\ \E stuck \in SUBSET Live :
       \E verdict \in [Active -> UNION {{Ends(Stop(s)), Ends("full")} \cup Steps(s) :
                                           s \in Active}] :
          /\ \A s \in Active : verdict[s] \in
                CASE s \notin Live -> {Ends(Stop(s))}
                  [] s \in stuck -> {Ends("full")}
                  [] OTHER -> Steps(s) \cup Fails(s)
          /\ Settle(verdict)

-----------------------------------------------------------------------------
(* A speculative round: next_tokens_speculative for a session alone.       *)

\* draft_from_context: what followed the latest earlier occurrence of the last
\* Ngram tokens.
Echo(ctx, n) ==
    LET len == Len(ctx)
        matches == {i \in 0..(len - Ngram - 1) :
                       SubSeq(ctx, i + 1, i + Ngram) = SubSeq(ctx, len - Ngram + 1, len)}
    IN  IF n = 0 \/ matches = {} THEN <<>>
        ELSE LET from == Ngram + CHOOSE i \in matches : \A j \in matches : j <= i
             IN  SubSeq(ctx, from + 1, from + Least(n, len - from))

\* propose_with_model: n guesses, after each of which the draft cache has absorbed the
\* guesses before it.  A sampling draft may give up before a guess, and a draft whose
\* window is full fails before it touches its cache, which loses all guesses.
Proposals(s, n) ==
    LET base == Len(context[s])
        old == IF draft[s] = None THEN Fresh ELSE draft[s]
        After(g) == Fed(old, context[s] \o g)
        fit == DraftContext - base
        all == {[guess |-> g, cache |-> IF n = 0 THEN old ELSE After(Front(g))] :
                   g \in [1..n -> Token]}
        some == {[guess |-> g, cache |-> After(g)] : g \in Seqs(Token, Least(n - 1, fit))}
        none == {[guess |-> <<>>, cache |-> IF fit < 0 THEN old ELSE After(g)] :
                   g \in [1..fit -> Token]}
    IN  (IF n - 1 <= fit THEN all ELSE none) \cup (IF s \in Greedy THEN {} ELSE some)

\* The budget follows how well guessing went, and is anything up to Lookahead.
Guesses(s, n, budget) ==
    IF drafter # "none" /\ budget > 0 THEN Proposals(s, n)
    ELSE {[guess |-> Echo(context[s], n), cache |-> draft[s]]}

\* The guesses limited by the budget and the window, but not by the token the pass
\* itself gives.
BugRoom(s) == Least(Minus(MaxTokens, Generated(s)), Minus(MaxContext, Len(context[s])))

\* How many guesses budget and window can take besides the token of the pass itself.
Room(s) ==
    Minus(Least(Minus(MaxTokens, Generated(s)), Minus(MaxContext, Len(context[s]))), 1)

\* A guess that the model would not have made is kept.
BugKeeps(s, guess, toks) == {[i \in DOMAIN toks |-> i <= Len(guess)]}

\* Which guesses are kept: the ones the model would have made (greedy), or some of
\* those that came out as the guess (sampled); the last answer has no guess.
Keeps(s, guess, toks) ==
    {k \in [DOMAIN toks -> BOOLEAN] :
        \A i \in DOMAIN toks :
            LET agrees == i <= Len(guess) /\ toks[i] = guess[i]
            IN  IF s \in Greedy THEN k[i] = agrees ELSE k[i] => agrees}

\* The answer after which the round is over.
LastOf(s, toks, kept) ==
    LET stops == {i \in DOMAIN toks : toks[i] \in EndTokens \/ ~kept[i]
                                         \/ Generated(s) + i >= MaxTokens}
    IN  CHOOSE i \in stops : \A j \in stops : i <= j

\* The end token handed out like any other.
BugHanded(pushed) == pushed

\* What of the round's tokens is handed out: all but an end token.
HandedOf(pushed) == IF pushed # <<>> /\ pushed[Len(pushed)] \in EndTokens
                    THEN Front(pushed) ELSE pushed

\* The draft's rollback one position short.
BugKeepDraft(base, handed) == base + handed

\* How many positions survive: in the target's cache one fewer than the context has,
\* in the draft's the old context and the guesses that came true.
KeepTarget(len) == len - 1
KeepDraft(base, handed) == base + Minus(handed, 1)

\* A recurrent draft has no copy to go back to, and is started over.
CutDraft(guesser, len) ==
    IF guesser = None \/ (drafter = "recurrent" /\ Cut(guesser, len) # guesser)
    THEN None ELSE Cut(guesser, len)

\* The round gave s the tokens pushed, and ended for why unless that is "none": the
\* end token is not handed out, and what was guessed in vain is cut off both caches,
\* or the session ends.
Conclude(s, pushed, why, target, copies, guesser) ==
    LET handed == HandedOf(pushed)
        base == Len(context[s])
        keep == KeepTarget(base + Len(pushed))
        end == IF Recoverable(target, copies, keep) THEN why ELSE "full"
        over == end # "none"
    IN  /\ context' = [context EXCEPT ![s] = @ \o pushed]
        /\ out' = [out EXCEPT ![s] = @ \o handed]
        /\ reason' = [reason EXCEPT ![s] = end]
        /\ status' = [status EXCEPT ![s] = IF over THEN "done" ELSE @]
        /\ kv' = [kv EXCEPT ![s] = IF over THEN Fresh ELSE Rewound(target, copies, keep)]
        /\ draft' = [draft EXCEPT ![s] = IF over THEN None
                                         ELSE CutDraft(guesser, KeepDraft(base, Len(handed)))]
        /\ UNCHANGED <<promptLen, reuse, store, drafter>>

\* logits_multi records only a pass that has guesses to check.
BugRecorded(s, guess) == NoCopies
Recorded(s, guess) == IF guess = <<>> THEN NoCopies ELSE Copies(kv[s], context[s] \o guess)

\* The pass over context and guesses, verification, and the rollback, which may fail
\* like the pass itself and like the sampling of a token.
Verify(s, guess, guesser) ==
    LET base == Len(context[s])
        probe == context[s] \o guess
        target == Fed(kv[s], probe)
        copies == Recorded(s, guess)
    IN  \/ /\ s \in Flaky
           /\ Conclude(s, <<>>, "full", target, copies, guesser)
        \/ \E toks \in [1..(Len(guess) + 1) -> Token] :
              /\ \A i \in DOMAIN toks : toks[i] \in Answers(s, target, probe, base + i - 1)
              /\ \E kept \in Keeps(s, guess, toks) :
                    LET last == LastOf(s, toks, kept)
                        why == IF toks[last] \in EndTokens THEN "eos"
                               ELSE IF kept[last] THEN "length"
                               ELSE "none"
                    IN  \/ Conclude(s, SubSeq(toks, 1, last), why, target, copies, guesser)
                        \/ /\ s \in Flaky
                           /\ \E n \in 0..last :
                                 Conclude(s, SubSeq(toks, 1, n), "full", target, copies, guesser)

SpecRound(s) ==
    /\ Lookahead > 0 /\ Active = {s}
    /\ IF Stop(s) # "none"
       THEN Conclude(s, <<>>, Stop(s), kv[s], NoCopies, draft[s])
       ELSE \E budget \in 0..Lookahead :
            \E p \in Guesses(s, Least(budget, Room(s)), budget) :
                Verify(s, p.guess, p.cache)

-----------------------------------------------------------------------------
Loop == \/ \E s \in Session : Prefill(s) \/ PrefillFails(s) \/ SpecRound(s)
        \/ BatchRound \/ BatchFallback

\* Every request is over.
Idle == /\ \A s \in Session : status[s] \in {"done", "failed"}
        /\ UNCHANGED vars

Next == Loop \/ Idle \/ \E s \in Session : Start(s) \/ Refuse(s)

Spec == Init /\ [][Next]_vars

\* The scheduler's loop keeps stepping what is in its batch.
FairSpec == Spec /\ WF_vars(Loop)

-----------------------------------------------------------------------------
(* What generation must guarantee.                                         *)

Cache == [Layer -> Seq(Token)]

\* Every variable keeps its type, and a session its limits: the context window and
\* the token budget (next_token, next_tokens_speculative, next_token_batch).
TypeOK ==
    /\ status \in [Session -> {"new", "prefill", "decode", "done", "failed"}]
    /\ context \in [Session -> Seq(Token)]
    /\ promptLen \in [Session -> 0..MaxContext]
    /\ kv \in [Session -> Cache]
    /\ draft \in [Session -> Cache \cup {None}]
    /\ reuse \in [Session -> BOOLEAN]
    /\ out \in [Session -> Seq(Token)]
    /\ reason \in [Session -> {"none", "eos", "length", "full"}]
    /\ DOMAIN cached \subseteq Seq(Token) /\ cached \in [DOMAIN cached -> Cache]
    /\ recency \in Seq(Seq(Token)) /\ held \in Nat /\ limits \in CacheLimits
    /\ drafter \in {"none", "attention", "recurrent"}
    /\ \A s \in Session : Len(context[s]) <= MaxContext /\ Generated(s) <= MaxTokens

\* "the invariant the ordinary path keeps: one fewer cache position than context
\* tokens": between rounds every layer of a decoding session has absorbed exactly the
\* context but for its last token, whatever was guessed, kept, cut or retried.
InStep == \A s \in Active : Holds(kv[s], Front(context[s]))

\* An entry of the prompt cache describes exactly the prefix it is found under, in
\* every layer: a request that starts from it reads what its own prefill would give.
CachedExactly == \A prefix \in DOMAIN cached : Holds(cached[prefix], prefix)

\* The prompt cache is "bounded by bytes as well as entries": its byte count is what its
\* entries take, through hits, replacement by a request that missed too, and eviction.
CacheBounded ==
    /\ IsInjective(recency) /\ Range(recency) = DOMAIN cached
    /\ held = Total([q \in DOMAIN cached |-> Size(cached[q])])
    /\ held <= limits.bytes /\ Len(recency) <= limits.entries

\* The caller has been handed exactly what was generated, but for an end token, and a
\* session goes on only while nothing ended it.
Handed ==
    \A s \in Session : status[s] \in {"decode", "done"} =>
        LET reply == SubSeq(context[s], promptLen[s] + 1, Len(context[s]))
        IN  /\ out[s] = IF reply # <<>> /\ reply[Len(reply)] \in EndTokens
                        THEN Front(reply) ELSE reply
            /\ \A i \in DOMAIN out[s] : out[s][i] \notin EndTokens
            /\ reason[s] = "eos" => out[s] # reply

\* "only positions the target went on to accept are kept, so the two always describe
\* the same tokens" (Session::draft_seq): every layer of the draft's cache holds the
\* same proper prefix of the context.
DraftTrails ==
    \A s \in Active : draft[s] # None =>
        \E n \in 0..(Len(context[s]) - 1) : Holds(draft[s], SubSeq(context[s], 1, n))

\* "One bad sequence must not be reported as everyone's failure" (next_token_batch): a
\* session whose own passes do not fail stops only for a reason of its own.
FailureIsOwn ==
    \A s \in Session \ Flaky : reason[s] = "full" => Len(context[s]) = MaxContext

\* A round gives each session it steps between one and Lookahead + 1 tokens or ends
\* it, which is what the scheduler's bookkeeping takes for granted.
RoundYields ==
    [][\A s \in Active :
          \/ UNCHANGED <<status[s], kv[s]>>
          \/ /\ Len(out'[s]) - Len(out[s]) \in 0..(Lookahead + 1)
             /\ status'[s] = "done" \/ Len(out'[s]) > Len(out[s])]_vars

\* "the rejected ones have to leave no trace" (begin_recording): a session alone whose
\* own passes do not fail is never ended by its guesses, recurrent layers or not: a copy
\* to go back to is held whatever was kept and wherever the round stopped.
GuessingIsFree ==
    [][\A s \in Session \ Flaky :
          /\ Active = {s} /\ reason'[s] = "full"
          => Len(context'[s]) = MaxContext /\ context'[s] = context[s]]_vars

\* Every request that starts comes to an end, however its guesses fare.
EveryReplyEnds == \A s \in Session : status[s] = "prefill" ~> status[s] \in {"done", "failed"}

\* Guessing, batching, caching and failing give the replies of plain decoding.
HonestlyFull(s) == /\ Len(context[s]) = MaxContext
                   /\ context[s][MaxContext] \notin EndTokens
State(s) == CASE status[s] = "new" -> "waiting"
              [] status[s] \in {"prefill", "decode"} -> "running"
              [] status[s] = "done" /\ (reason[s] = "full" => HonestlyFull(s)) -> reason[s]
              [] OTHER -> "failed"

Plain == INSTANCE PlainDecoding
         WITH prompt <- [s \in Session |-> SubSeq(context[s], 1, promptLen[s])],
              reply <- [s \in Session |->
                           SubSeq(context[s], promptLen[s] + 1, Len(context[s]))],
              state <- [s \in Session |-> State(s)],
              Burst <- Lookahead + 1

ImplementsPlain == Plain!Spec
=============================================================================
