------------------------------ MODULE Scheduler ------------------------------
(***************************************************************************)
(* The request scheduler (src/garuda/src/scheduler/mod.rs): callers submit *)
(* requests from many threads; one loop task drains the bounded channel    *)
(* into a priority heap, admits requests into a batch of decode slots and  *)
(* hands the batch to a blocking worker that prefills, checks cancellation *)
(* and deadlines, decodes one round and emits events.                      *)
(*                                                                         *)
(* One member of Req is one call of submit together with all that follows  *)
(* from it.  `where' says which structure owns the request: the caller's   *)
(* stack, the channel, the heap, the worker's vectors, or nobody any more. *)
(* The order inside the vectors is abstracted, because every pass over     *)
(* them treats its elements independently; the order of the heap is not.   *)
(* An action is one access to state that another thread can see: a lock, a *)
(* semaphore, the channel, the cancel flag, an event sent, a permit.       *)
(***************************************************************************)
EXTENDS Integers, Sequences, FiniteSets

CONSTANTS
    Req,            \* the submissions
    User,           \* the callers
    userOf,         \* the user of each submission
    priorityOf,     \* its priority; the larger is the more urgent
    MaxConcurrent,  \* SchedulerConfig::max_concurrent
    Lookahead,      \* SchedulerConfig::speculative_lookahead
    QueueCapacity,  \* SchedulerConfig::queue_capacity
    MaxPerUser,     \* SchedulerConfig::max_concurrent_per_user
    HighWater,      \* USER_TABLE_HIGH_WATER
    PromptLen,      \* bound: prompt tokens a request may have to prefill
    MaxTokens,      \* bound: tokens a request may generate
    MayPanic,       \* whether the decode worker may panic
    Fickle,         \* the submissions whose caller may cancel or drop the Handle
    Hasty,          \* the submissions whose timeout may pass
    None            \* no request

ASSUME SchedulerAssumption ==
    /\ IsFiniteSet(Req) /\ IsFiniteSet(User)
    /\ userOf \in [Req -> User]
    /\ priorityOf \in [Req -> Nat]
    /\ MaxConcurrent \in Nat /\ Lookahead \in Nat /\ QueueCapacity \in Nat
    /\ MaxPerUser \in Nat /\ HighWater \in Nat
    /\ PromptLen \in Nat /\ MaxTokens \in Nat
    /\ MayPanic \in BOOLEAN
    /\ Fickle \subseteq Req /\ Hasty \subseteq Req
    /\ None \notin Req

\* `new` has not called submit; `lookup', `holding' and `bounced' are inside it.
\* `finishing' is counted and has had its last event, but still owns its permit.
\* `retired', `lost' (its worker panicked) and `refused' own nothing.
Place == {"new", "lookup", "holding", "bounced", "refused", "channel", "heap",
          "admit", "prefill", "active", "finishing", "retired", "lost"}

Counter == {"submitted", "completed", "cancelled", "timed_out", "failed",
            "rejected_busy", "rejected_rate_limit"}

Terminal == {"done", "cancelled", "timeout", "error"}
Event == {"token"} \cup Terminal

\* The phases of an iteration of run_loop, `unwind' being a panicking worker's.
Phase == {"collect", "purge", "admit", "start", "prefill", "check", "emit", "unwind"}

VARIABLES
    where,    \* [Req -> Place]
    client,   \* the caller's Handle: none yet, held, cancelled (flag set), gone (dropped)
    late,     \* whether the deadline of a request has passed
    stream,   \* the events its receiver got or can still read
    left,     \* prompt tokens still to prefill
    out,      \* what the decode round produced for it and is not emitted yet
    seq,      \* its sequence number
    nextSeq,  \* Scheduler::seq
    sem,      \* the semaphore it holds an Arc of, named by the request that created it
    permits,  \* available permits of each semaphore
    table,    \* user_slots: the semaphore of each user in the table, or None
    tally,    \* Counters
    phase,    \* where run_loop is
    todo,     \* the requests the current phase has not treated yet
    whole     \* whether this iteration absorbs whole prompts (budget = usize::MAX)

callerVars == <<nextSeq, sem, table>>
loopVars == <<phase, todo, whole>>
vars == <<where, client, late, stream, left, out, seq, permits, tally,
          callerVars, loopVars>>

-----------------------------------------------------------------------------
In(place) == {r \in Req : where[r] = place}
Batch == In("admit") \cup In("prefill") \cup In("active")
Waiting == In("channel") \cup In("heap")

\* The requests that own a permit: _user_permit lives and dies with the Request.
HolderPlaces == {"holding", "bounced", "channel", "heap", "admit", "prefill",
                 "active", "finishing"}
Holders(s) == {r \in Req : sem[r] = s /\ where[r] \in HolderPlaces}
HoldersOf(u) == {r \in Req : userOf[r] = u /\ where[r] \in HolderPlaces}

\* The places of a request that try_send took and whose stream can still change,
\* and the places of any request that try_send took.
InFlight == {"channel", "heap", "admit", "prefill", "active"}
Accepted == InFlight \cup {"finishing", "retired", "lost"}

MaxActive == IF MaxConcurrent = 0 THEN 1 ELSE MaxConcurrent
ChannelSize == IF QueueCapacity = 0 THEN 1 ELSE QueueCapacity

Cancelled(r) == client[r] \in {"cancelled", "gone"}     \* CancelFlag::is_cancelled
Closed(r) == client[r] = "gone"                         \* events.is_closed()

\* Sending to a dropped receiver is an error and delivers nothing.
Sent(r, e) == IF Closed(r) THEN stream ELSE [stream EXCEPT ![r] = Append(@, e)]

Bump(c) == [tally EXCEPT ![c] = @ + 1]

\* (A definition named Bug... is one the code could have had and does not: the
\* project replaces the definition after it by it, to see a property fail.)

\* The sequence numbers compared the wrong way round in a max-heap.
BugNewestFirst(r, s) == \/ priorityOf[r] > priorityOf[s]
                        \/ priorityOf[r] = priorityOf[s] /\ seq[r] > seq[s]

\* Queued::cmp: the higher priority first, then the lower sequence number.
Outranks(r, s) == \/ priorityOf[r] > priorityOf[s]
                  \/ priorityOf[r] = priorityOf[s] /\ seq[r] < seq[s]

\* A Request is dropped: its permit goes back, and its deadline, what was left of
\* its prompt, its round and its number mean nothing any more.
Drop(r, place) ==
    /\ permits' = [permits EXCEPT ![sem[r]] = @ + 1]
    /\ where' = [where EXCEPT ![r] = place]
    /\ late' = [late EXCEPT ![r] = FALSE]
    /\ left' = [left EXCEPT ![r] = 0]
    /\ out' = [out EXCEPT ![r] = [n |-> 0, stop |-> FALSE]]
    /\ seq' = [seq EXCEPT ![r] = 0]

Init ==
    /\ where = [r \in Req |-> "new"]
    /\ client = [r \in Req |-> "none"]
    /\ late = [r \in Req |-> FALSE]
    /\ stream = [r \in Req |-> <<>>]
    /\ left = [r \in Req |-> 0]
    /\ out = [r \in Req |-> [n |-> 0, stop |-> FALSE]]
    /\ seq = [r \in Req |-> 0]
    /\ nextSeq = 0
    /\ sem = [r \in Req |-> None]
    /\ permits = [s \in Req |-> MaxPerUser]
    /\ table = [u \in User |-> None]
    /\ tally = [c \in Counter |-> 0]
    /\ phase = "collect"
    /\ todo = {}
    /\ whole = FALSE

-----------------------------------------------------------------------------
(* The callers: Scheduler::submit and the Handle it returns.               *)

\* The table pruned of idle users however small it is.
BugAlwaysPrune(u) == table[u] # None /\ permits[table[u]] < MaxPerUser

\* The users that survive user_semaphore's pruning of a crowded table: those
\* with a permit out.
Tracked(u) == table[u] # None
Crowded == Cardinality({u \in User : Tracked(u)}) > HighWater
Kept(u) == Tracked(u) /\ (Crowded => permits[table[u]] < MaxPerUser)

\* user_semaphore, under the table's lock: prune, find or create, clone the Arc.
Lookup(r) ==
    /\ where[r] = "new"
    /\ LET u == userOf[r]
           mine == IF Kept(u) THEN table[u] ELSE r
       IN  /\ table' = [v \in User |->
                           CASE v = u -> mine
                             [] v # u /\ Kept(v) -> table[v]
                             [] OTHER -> None]
           /\ sem' = [sem EXCEPT ![r] = mine]
    /\ where' = [where EXCEPT ![r] = "lookup"]
    /\ UNCHANGED <<client, late, stream, left, out, seq, permits, tally,
                   nextSeq, loopVars>>

\* try_acquire_owned, outside the lock, and the sequence number that follows.
Acquire(r) ==
    /\ where[r] = "lookup"
    /\ permits[sem[r]] > 0
    /\ permits' = [permits EXCEPT ![sem[r]] = @ - 1]
    /\ seq' = [seq EXCEPT ![r] = nextSeq]
    /\ nextSeq' = nextSeq + 1
    /\ where' = [where EXCEPT ![r] = "holding"]
    /\ UNCHANGED <<client, late, stream, left, out, tally, sem, table, loopVars>>

RateLimited(r) ==
    /\ where[r] = "lookup"
    /\ permits[sem[r]] = 0
    /\ tally' = Bump("rejected_rate_limit")
    /\ where' = [where EXCEPT ![r] = "refused"]
    /\ UNCHANGED <<client, late, stream, left, out, seq, permits, callerVars, loopVars>>

\* try_send: into the channel, or refused with the permit still inside the request.
Enqueue(r) ==
    /\ where[r] = "holding"
    /\ Cardinality(In("channel")) < ChannelSize
    /\ where' = [where EXCEPT ![r] = "channel"]
    /\ UNCHANGED <<client, late, stream, left, out, seq, permits, tally,
                   callerVars, loopVars>>

Busy(r) ==
    /\ where[r] = "holding"
    /\ Cardinality(In("channel")) >= ChannelSize
    /\ tally' = Bump("rejected_busy")
    /\ where' = [where EXCEPT ![r] = "bounced"]
    /\ UNCHANGED <<client, late, stream, left, out, seq, permits, callerVars, loopVars>>

\* The permit of a refused request is forgotten.
BugKeepPermit(r) ==
    /\ where[r] = "bounced"
    /\ where' = [where EXCEPT ![r] = "refused"]
    /\ seq' = [seq EXCEPT ![r] = 0]
    /\ UNCHANGED <<client, late, stream, left, out, permits, tally, callerVars, loopVars>>

\* The refused request is dropped, and its permit with it.
Bounce(r) ==
    /\ where[r] = "bounced"
    /\ Drop(r, "refused")
    /\ UNCHANGED <<client, stream, tally, callerVars, loopVars>>

\* submit counts the request and returns its Handle; by now the loop may have
\* finished with it.
Submitted(r) ==
    /\ client[r] = "none"
    /\ where[r] \in Accepted
    /\ tally' = Bump("submitted")
    /\ client' = [client EXCEPT ![r] = "held"]
    /\ UNCHANGED <<where, late, stream, left, out, seq, permits, callerVars, loopVars>>

\* Handle::cancel, or the first half of dropping the Handle.  Once the request has
\* had its last event nothing reads the flag, so later cancels are left out.
Cancel(r) ==
    /\ r \in Fickle
    /\ client[r] = "held"
    /\ where[r] \in InFlight
    /\ client' = [client EXCEPT ![r] = "cancelled"]
    /\ UNCHANGED <<where, late, stream, left, out, seq, permits, tally,
                   callerVars, loopVars>>

\* The Handle's fields are dropped after its Drop has run: the receiver closes.
Hangup(r) ==
    /\ client[r] = "cancelled"
    /\ where[r] \in InFlight
    /\ client' = [client EXCEPT ![r] = "gone"]
    /\ UNCHANGED <<where, late, stream, left, out, seq, permits, tally,
                   callerVars, loopVars>>

\* submitted + timeout passes (before try_send is as good as right after it).
Expire(r) ==
    /\ r \in Hasty
    /\ ~late[r]
    /\ where[r] \in InFlight
    /\ late' = [late EXCEPT ![r] = TRUE]
    /\ UNCHANGED <<where, client, stream, left, out, seq, permits, tally,
                   callerVars, loopVars>>

-----------------------------------------------------------------------------
(* run_loop and the worker it spawns.  A phase treats one request at a     *)
(* time, and a request it has done with is dropped before the next one is  *)
(* treated (step_batch alone drops them together, after its last send).    *)

At(p) == phase = p /\ In("finishing") = {}
Goto(p, rs) == phase' = p /\ todo' = rs

\* Count r under c, send it its last event, and leave the drop of the Request,
\* which returns the permit, for later.
Finish(r, c, events) ==
    /\ tally' = Bump(c)
    /\ stream' = events
    /\ where' = [where EXCEPT ![r] = "finishing"]

\* The drop of a Request that has left the worker's structures.
Release(r) ==
    /\ where[r] = "finishing"
    /\ phase = "emit" => todo = {}
    /\ Drop(r, "retired")
    /\ UNCHANGED <<client, stream, tally, callerVars, loopVars>>

\* rx.recv when there is no other work, rx.try_recv otherwise.
Drain(r) ==
    /\ At("collect")
    /\ where[r] = "channel"
    /\ where' = [where EXCEPT ![r] = "heap"]
    /\ UNCHANGED <<client, late, stream, left, out, seq, permits, tally,
                   callerVars, loopVars>>

\* recv awaited whenever the heap is empty, with a batch still decoding.
BugBlockOnHeap ==
    /\ At("collect")
    /\ In("channel") = {}
    /\ In("heap") # {}
    /\ Goto("purge", In("heap"))
    /\ UNCHANGED <<where, client, late, stream, left, out, seq, permits, tally,
                   callerVars, whole>>

\* The channel is empty.  With nothing to do the loop stays blocked on recv.
Drained ==
    /\ At("collect")
    /\ In("channel") = {}
    /\ In("heap") \cup Batch # {}
    /\ Goto("purge", In("heap"))
    /\ UNCHANGED <<where, client, late, stream, left, out, seq, permits, tally,
                   callerVars, whole>>

\* The filter that drops the queued requests whose client is gone.
Purge(r) ==
    /\ At("purge") /\ r \in todo
    /\ IF Cancelled(r) THEN Finish(r, "cancelled", stream)
                       ELSE UNCHANGED <<tally, stream, where>>
    /\ Goto("purge", todo \ {r})
    /\ UNCHANGED <<client, late, left, out, seq, permits, callerVars, whole>>

Purged ==
    /\ At("purge") /\ todo = {}
    /\ Goto("admit", {})
    /\ UNCHANGED <<where, client, late, stream, left, out, seq, permits, tally,
                   callerVars, whole>>

\* The requests already chosen in this iteration not counted as slots.
BugOverAdmit(r) ==
    /\ At("admit")
    /\ Cardinality(In("prefill") \cup In("active")) < MaxActive
    /\ where[r] = "heap"
    /\ \A s \in In("heap") \ {r} : Outranks(r, s)
    /\ IF Cancelled(r)
       THEN Finish(r, "cancelled", stream)
       ELSE /\ where' = [where EXCEPT ![r] = "admit"]
            /\ UNCHANGED <<tally, stream>>
    /\ UNCHANGED <<client, late, left, out, seq, permits, callerVars, loopVars>>

\* A request cancelled since the purge admitted all the same.
BugAdmitCancelled(r) ==
    /\ At("admit")
    /\ Cardinality(Batch) < MaxActive
    /\ where[r] = "heap"
    /\ \A s \in In("heap") \ {r} : Outranks(r, s)
    /\ where' = [where EXCEPT ![r] = "admit"]
    /\ UNCHANGED <<client, late, stream, left, out, seq, permits, tally,
                   callerVars, loopVars>>

\* heap.pop() while there is a free slot.
Admit(r) ==
    /\ At("admit")
    /\ Cardinality(Batch) < MaxActive
    /\ where[r] = "heap"
    /\ \A s \in In("heap") \ {r} : Outranks(r, s)
    /\ IF Cancelled(r)
       THEN Finish(r, "cancelled", stream)
       ELSE /\ where' = [where EXCEPT ![r] = "admit"]
            /\ UNCHANGED <<tally, stream>>
    /\ UNCHANGED <<client, late, left, out, seq, permits, callerVars, loopVars>>

Admitted ==
    /\ At("admit")
    /\ Cardinality(Batch) >= MaxActive \/ In("heap") = {}
    /\ Goto("start", In("admit"))
    /\ UNCHANGED <<where, client, late, stream, left, out, seq, permits, tally,
                   callerVars, whole>>

\* A prompt that cannot start is dropped without telling its client.
BugSilentFailure(r) ==
    /\ At("start") /\ r \in todo
    /\ \/ /\ \E n \in 0..PromptLen : left' = [left EXCEPT ![r] = n]
          /\ where' = [where EXCEPT ![r] = "prefill"]
          /\ UNCHANGED <<tally, stream>>
       \/ /\ Finish(r, "failed", stream)
          /\ UNCHANGED left
    /\ Goto("start", todo \ {r})
    /\ UNCHANGED <<client, late, out, seq, permits, callerVars, whole>>

\* admit_one: the prompt may be refused; what is left of it after a hit in the
\* prompt cache is nothing.
Start(r) ==
    /\ At("start") /\ r \in todo
    /\ \/ /\ \E n \in 0..PromptLen : left' = [left EXCEPT ![r] = n]
          /\ where' = [where EXCEPT ![r] = "prefill"]
          /\ UNCHANGED <<tally, stream>>
       \/ /\ Finish(r, "failed", Sent(r, "error"))
          /\ UNCHANGED left
    /\ Goto("start", todo \ {r})
    /\ UNCHANGED <<client, late, out, seq, permits, callerVars, whole>>

Started ==
    /\ At("start") /\ todo = {}
    /\ Goto("prefill", In("prefill"))
    /\ whole' = (In("active") = {})
    /\ UNCHANGED <<where, client, late, stream, left, out, seq, permits, tally,
                   callerVars>>

\* The checks advance_prefills and step_batch make before spending work on r.
\* The flag and is_closed are two reads, but a Handle that goes away between them
\* is counted alike and can no longer read the event that makes the difference.
Abandon(r) ==
    \/ /\ Cancelled(r)
       /\ Finish(r, "cancelled", Sent(r, "cancelled"))
    \/ /\ ~Cancelled(r) /\ late[r]
       /\ Finish(r, "timed_out", Sent(r, "timeout"))

\* advance_prefill absorbs at least one token, or all of them.
Prefill(r) ==
    /\ At("prefill") /\ r \in todo
    /\ \/ Abandon(r) /\ UNCHANGED left
       \/ /\ ~Cancelled(r) /\ ~late[r]
          /\ \/ /\ left[r] > 0
                /\ Finish(r, "failed", Sent(r, "error"))
                /\ UNCHANGED left
             \/ \E n \in 0..left[r] :
                   /\ n = 0 \/ (~whole /\ n < left[r])
                   /\ left' = [left EXCEPT ![r] = n]
                   /\ where' = IF n = 0 THEN [where EXCEPT ![r] = "active"] ELSE where
                   /\ UNCHANGED <<tally, stream>>
    /\ Goto("prefill", todo \ {r})
    /\ UNCHANGED <<client, late, out, seq, permits, callerVars, whole>>

Prefilled ==
    /\ At("prefill") /\ todo = {}
    /\ Goto("check", In("active"))
    /\ UNCHANGED <<where, client, late, stream, left, out, seq, permits, tally,
                   callerVars, whole>>

\* Only the deadline looked at between rounds.
BugCheckDeadlineOnly(r) ==
    /\ At("check") /\ r \in todo
    /\ \/ late[r] /\ Finish(r, "timed_out", Sent(r, "timeout"))
       \/ ~late[r] /\ UNCHANGED <<tally, stream, where>>
    /\ Goto("check", todo \ {r})
    /\ UNCHANGED <<client, late, left, out, seq, permits, callerVars, whole>>

\* The first half of step_batch.
Check(r) ==
    /\ At("check") /\ r \in todo
    /\ \/ Abandon(r)
       \/ ~Cancelled(r) /\ ~late[r] /\ UNCHANGED <<tally, stream, where>>
    /\ Goto("check", todo \ {r})
    /\ UNCHANGED <<client, late, left, out, seq, permits, callerVars, whole>>

\* Drafts not limited by what is left of max_tokens.
BugDraftPastBudget(r) ==
    LET speculative == Lookahead > 0 /\ Cardinality(In("active")) = 1
    IN  {o \in [n : 0..(Lookahead + 1), stop : BOOLEAN] :
            /\ o.n = 0 => o.stop
            /\ Len(stream[r]) >= MaxTokens => o.stop
            /\ ~speculative => o.n = (IF o.stop THEN 0 ELSE 1)}

\* What one round may produce for r: next_tokens_speculative gives up to
\* Lookahead + 1 tokens and perhaps the end, next_token_batch a token or the end.
Round(r) ==
    LET room == MaxTokens - Len(stream[r])
        speculative == Lookahead > 0 /\ Cardinality(In("active")) = 1
    IN  {o \in [n : 0..room, stop : BOOLEAN] :
            /\ o.n <= Lookahead + 1
            /\ o.n = 0 => o.stop
            /\ ~speculative => o.n = (IF o.stop THEN 0 ELSE 1)}

Decode ==
    /\ At("check") /\ todo = {}
    /\ In("active") # {}
    /\ \E round \in [In("active") -> UNION {Round(r) : r \in In("active")}] :
          /\ \A r \in In("active") : round[r] \in Round(r)
          /\ out' = [r \in Req |-> IF r \in In("active") THEN round[r] ELSE out[r]]
    /\ Goto("emit", In("active"))
    /\ UNCHANGED <<where, client, late, stream, left, seq, permits, tally,
                   callerVars, whole>>

Rest ==
    /\ At("check") /\ todo = {}
    /\ In("active") = {}
    /\ Goto("collect", {})
    /\ UNCHANGED <<where, client, late, stream, left, out, seq, permits, tally,
                   callerVars, whole>>

\* A request whose client went away still reported when its round ends.
BugCountTwice(r) ==
    /\ phase = "emit" /\ r \in todo
    /\ out[r].n > 0
    /\ IF Closed(r)
       THEN /\ Finish(r, "cancelled", stream)
            /\ out' = [out EXCEPT ![r].n = 0]
            /\ UNCHANGED <<phase, todo>>
       ELSE /\ stream' = Sent(r, "token")
            /\ out' = [out EXCEPT ![r].n = @ - 1]
            /\ UNCHANGED <<tally, where, phase, todo>>
    /\ UNCHANGED <<client, late, left, seq, permits, callerVars, whole>>

\* One token is sent, or cannot be: then the request ends as cancelled.
EmitToken(r) ==
    /\ phase = "emit" /\ r \in todo
    /\ out[r].n > 0
    /\ IF Closed(r)
       THEN /\ Finish(r, "cancelled", stream)
            /\ Goto("emit", todo \ {r})
            /\ UNCHANGED out
       ELSE /\ stream' = Sent(r, "token")
            /\ out' = [out EXCEPT ![r].n = @ - 1]
            /\ UNCHANGED <<tally, where, phase, todo>>
    /\ UNCHANGED <<client, late, left, seq, permits, callerVars, whole>>

\* The round's tokens are out; the request ends if the runtime said so.
EmitEnd(r) ==
    /\ phase = "emit" /\ r \in todo
    /\ out[r].n = 0
    /\ IF out[r].stop THEN Finish(r, "completed", Sent(r, "done"))
                      ELSE UNCHANGED <<tally, stream, where>>
    /\ Goto("emit", todo \ {r})
    /\ UNCHANGED <<client, late, left, out, seq, permits, callerVars, whole>>

Emitted ==
    /\ At("emit") /\ todo = {}
    /\ Goto("collect", {})
    /\ UNCHANGED <<where, client, late, stream, left, out, seq, permits, tally,
                   callerVars, whole>>

\* The worker panics: its stack and the batch it owns are unwound.  Nobody counts
\* the requests or tells their clients.
Panic ==
    /\ MayPanic
    /\ \E p \in {"start", "prefill", "check"} : At(p)
    /\ Goto("unwind", Batch)
    /\ UNCHANGED <<where, client, late, stream, left, out, seq, permits, tally,
                   callerVars, whole>>

Unwind(r) ==
    /\ phase = "unwind" /\ r \in todo
    /\ Drop(r, "lost")
    /\ Goto("unwind", todo \ {r})
    /\ UNCHANGED <<client, stream, tally, callerVars, whole>>

Unwound ==
    /\ phase = "unwind" /\ todo = {}
    /\ Goto("collect", {})
    /\ UNCHANGED <<where, client, late, stream, left, out, seq, permits, tally,
                   callerVars, whole>>

-----------------------------------------------------------------------------
SubmitStep(r) == \/ Lookup(r) \/ Acquire(r) \/ RateLimited(r) \/ Enqueue(r)
                 \/ Busy(r) \/ Bounce(r) \/ Submitted(r)
ClientStep(r) == Cancel(r) \/ Hangup(r) \/ Expire(r)
RequestStep(r) == \/ Drain(r) \/ Purge(r) \/ Admit(r) \/ Start(r) \/ Prefill(r)
                  \/ Check(r) \/ EmitToken(r) \/ EmitEnd(r) \/ Release(r) \/ Unwind(r)
PhaseStep == \/ Drained \/ Purged \/ Admitted \/ Started \/ Prefilled
             \/ Decode \/ Rest \/ Emitted \/ Unwound

Loop == (\E r \in Req : RequestStep(r)) \/ PhaseStep

\* The loop blocks on recv for ever once every submission is over.
Quiet ==
    /\ \A r \in Req : where[r] \in {"refused", "retired", "lost"}
    /\ \A r \in Req : where[r] # "refused" => client[r] # "none"
    /\ phase = "collect"
    /\ UNCHANGED vars

Next == \/ \E r \in Req : SubmitStep(r) \/ ClientStep(r)
        \/ Loop
        \/ Panic
        \/ Quiet

Spec == Init /\ [][Next]_vars

\* run_loop is a task of a runtime that keeps running it and its worker; submit,
\* once entered, runs to its end.  Nothing makes a client cancel, a deadline pass
\* or a new submission begin.
Fairness == /\ WF_vars(Loop)
            /\ \A r \in Req : WF_vars(SubmitStep(r) /\ where[r] # "new")

FairSpec == Spec /\ Fairness

-----------------------------------------------------------------------------
(* What the scheduler must guarantee.                                      *)

TypesOK ==
    /\ where \in [Req -> Place]
    /\ client \in [Req -> {"none", "held", "cancelled", "gone"}]
    /\ late \in [Req -> BOOLEAN]
    /\ stream \in [Req -> Seq(Event)]
    /\ left \in [Req -> 0..PromptLen]
    /\ out \in [Req -> [n : 0..MaxTokens, stop : BOOLEAN]]
    /\ seq \in [Req -> Nat]
    /\ nextSeq \in Nat
    /\ sem \in [Req -> Req \cup {None}]
    /\ permits \in [Req -> Nat]
    /\ table \in [User -> Req \cup {None}]
    /\ tally \in [Counter -> Nat]
    /\ phase \in Phase
    /\ todo \subseteq Req
    /\ whole \in BOOLEAN

\* Every variable of the scheduler keeps its type (the structs of
\* scheduler/mod.rs), and a stream is never longer than the tokens its request may
\* generate and its end, although a speculative round sends several at once.
TypeOK == TypesOK /\ \A r \in Req : Len(stream[r]) <= MaxTokens + 1

\* run_loop never has more than max_concurrent requests admitted, prefilling and
\* decoding together, whatever order admissions, ends and panics come in.
SlotLimit == Cardinality(Batch) <= MaxActive

\* Every permit of every semaphore user_semaphore ever made is available or owned
\* by a request in the system: none leaks and none is returned twice, on any path
\* out (refused, purged, failed, cancelled, timed out, done, lost in a panic).
PermitsConserved ==
    \A s \in Req : permits[s] + Cardinality(Holders(s)) = MaxPerUser

\* "Concurrent requests one user may have in the system"
\* (SchedulerConfig::max_concurrent_per_user): the requests of a user that own a
\* permit never exceed it.
UserLimit == \A u \in User : Cardinality(HoldersOf(u)) <= MaxPerUser

\* The counters balance: every request that ended is in exactly one of completed,
\* cancelled, timed_out and failed, those a panic took being in none, and every
\* submission that returned is in submitted or was refused.
CountersBalance ==
    /\ tally["completed"] + tally["cancelled"] + tally["timed_out"] + tally["failed"]
         = Cardinality(In("finishing") \cup In("retired"))
    /\ tally["submitted"] = Cardinality({r \in Req : client[r] # "none"})
    /\ tally["rejected_busy"] + tally["rejected_rate_limit"]
         = Cardinality(In("bounced") \cup In("refused"))

\* A request that ends, its worker not having died, while its caller still holds an
\* uncancelled Handle tells the caller how it ended: the stream is tokens, then
\* exactly one terminal event; and no stream has a terminal event before its end.
Ended(r) == stream[r] # <<>> /\ stream[r][Len(stream[r])] \in Terminal
StreamsEnd ==
    \A r \in Req :
        /\ \A i \in 1..(Len(stream[r]) - 1) : stream[r][i] = "token"
        /\ Ended(r) => where[r] \in {"finishing", "retired"}
        /\ where[r] \in {"finishing", "retired"} /\ ~Cancelled(r) => Ended(r)

\* A request that try_send took leaves the system and gives its permit back,
\* whatever its client, the clock and the other requests do.
AcceptedEnds ==
    \A r \in Req : where[r] \in InFlight ~> where[r] \in {"retired", "lost"}

\* The scheduler implements the service of RequestService: how each request's
\* place looks from outside.
Status ==
    [r \in Req |->
        CASE where[r] \in {"new", "lookup"} -> "outside"
          [] where[r] \in {"holding", "channel", "heap"} -> "waiting"
          [] where[r] \in {"admit", "prefill", "active"} -> "running"
          [] where[r] = "finishing" -> "ended"
          [] where[r] = "retired" -> "left"
          [] where[r] \in {"bounced", "refused"} -> "refused"
          [] OTHER -> "crashed"]

Service == INSTANCE RequestService
           WITH Slots <- MaxActive, Quota <- MaxPerUser, status <- Status,
                wanted <- [r \in Req |-> ~Cancelled(r)], events <- stream

\* Every behaviour of the scheduler is one of the service.
ImplementsService == Service!Spec
=============================================================================
