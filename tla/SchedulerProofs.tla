--------------------------- MODULE SchedulerProofs ---------------------------
(***************************************************************************)
(* Proofs about Scheduler for every finite set of submissions and users    *)
(* and every configuration.  The inductive invariant has three parts: the  *)
(* types; that a request past user_semaphore has a semaphore; and that     *)
(* what an iteration still has to treat is where its phase expects it,     *)
(* which is what makes each phase's moves start from the right place.      *)
(***************************************************************************)
EXTENDS Scheduler, FiniteSetTheorems, TLAPS

SemOK == \A r \in Req : where[r] # "new" => sem[r] \in Req

TodoOK ==
    /\ phase \in {"collect", "admit"} => todo = {}
    /\ phase = "purge" => \A r \in todo : where[r] = "heap"
    /\ phase = "start" => \A r \in todo : where[r] = "admit"
    /\ phase = "prefill" => \A r \in todo : where[r] = "prefill"
    /\ phase \in {"check", "emit"} => \A r \in todo : where[r] = "active"
    /\ phase = "unwind" => \A r \in todo : where[r] \in {"admit", "prefill", "active"}

IInv == TypesOK /\ SemOK /\ TodoOK

-----------------------------------------------------------------------------
(* Members of the enumerations, and the types of what the helpers build.   *)

\* The places a request can be put in are places.
LEMMA Places ==
    /\ "new" \in Place /\ "lookup" \in Place /\ "holding" \in Place
    /\ "bounced" \in Place /\ "refused" \in Place /\ "channel" \in Place
    /\ "heap" \in Place /\ "admit" \in Place /\ "prefill" \in Place
    /\ "active" \in Place /\ "finishing" \in Place /\ "retired" \in Place
    /\ "lost" \in Place
  BY DEF Place

\* The events the scheduler sends are events.
LEMMA Events ==
    /\ "token" \in Event /\ "done" \in Event /\ "cancelled" \in Event
    /\ "timeout" \in Event /\ "error" \in Event
  BY DEF Event, Terminal

\* The counters it bumps are counters.
LEMMA Counters ==
    /\ "submitted" \in Counter /\ "completed" \in Counter /\ "cancelled" \in Counter
    /\ "timed_out" \in Counter /\ "failed" \in Counter
    /\ "rejected_busy" \in Counter /\ "rejected_rate_limit" \in Counter
  BY DEF Counter

\* The phases run_loop goes to are phases.
LEMMA Phases ==
    /\ "collect" \in Phase /\ "purge" \in Phase /\ "admit" \in Phase
    /\ "start" \in Phase /\ "prefill" \in Phase /\ "check" \in Phase
    /\ "emit" \in Phase /\ "unwind" \in Phase
  BY DEF Phase

\* Counting keeps the counters natural numbers.
LEMMA BumpTypes ==
  ASSUME TypesOK, NEW c \in Counter
  PROVE  Bump(c) \in [Counter -> Nat]
  BY DEF TypesOK, Bump

\* Sending keeps the streams sequences of events.
LEMMA SentTypes ==
  ASSUME TypesOK, NEW r \in Req, NEW e \in Event
  PROVE  Sent(r, e) \in [Req -> Seq(Event)]
  BY DEF TypesOK, Sent

\* Ending a request changes three variables, each within its type.
LEMMA FinishTypes ==
  ASSUME TypesOK, NEW r \in Req, NEW c \in Counter,
         NEW events, events \in [Req -> Seq(Event)], Finish(r, c, events)
  PROVE  /\ where' \in [Req -> Place]
         /\ tally' \in [Counter -> Nat]
         /\ stream' \in [Req -> Seq(Event)]
<1>1. tally' \in [Counter -> Nat]
  BY BumpTypes DEF Finish
<1>2. where' \in [Req -> Place]
  BY Places DEF Finish, TypesOK
<1> QED
  BY <1>1, <1>2 DEF Finish

\* Dropping a request that has a semaphore changes six, each within its type.
LEMMA DropTypes ==
  ASSUME TypesOK, NEW r \in Req, sem[r] \in Req, NEW place \in Place, Drop(r, place)
  PROVE  /\ where' \in [Req -> Place]
         /\ late' \in [Req -> BOOLEAN]
         /\ left' \in [Req -> 0..PromptLen]
         /\ out' \in [Req -> [n : 0..MaxTokens, stop : BOOLEAN]]
         /\ seq' \in [Req -> Nat]
         /\ permits' \in [Req -> Nat]
<1>1. permits' \in [Req -> Nat]
  BY DEF Drop, TypesOK
<1>2. where' \in [Req -> Place]
  BY DEF Drop, TypesOK
<1>3. late' \in [Req -> BOOLEAN] /\ seq' \in [Req -> Nat]
  BY DEF Drop, TypesOK
<1>4. left' \in [Req -> 0..PromptLen]
  BY SchedulerAssumption DEF SchedulerAssumption, Drop, TypesOK
<1>5. out' \in [Req -> [n : 0..MaxTokens, stop : BOOLEAN]]
  BY SchedulerAssumption DEF SchedulerAssumption, Drop, TypesOK
<1> QED
  BY <1>1, <1>2, <1>3, <1>4, <1>5

-----------------------------------------------------------------------------
(* What a step does to the current phase's work.                           *)

\* Only a request the loop owns is work of a phase.
LEMMA NotTodo ==
  ASSUME IInv, NEW r \in Req, where[r] \notin {"heap", "admit", "prefill", "active"}
  PROVE  r \notin todo
  BY DEF IInv, TodoOK, TypesOK, Phase

\* Moving a request that is no work of the phase disturbs nothing.
LEMMA TodoMove ==
  ASSUME IInv, NEW r \in Req, NEW place \in Place, r \notin todo,
         where' = [where EXCEPT ![r] = place], phase' = phase, todo' = todo
  PROVE  TodoOK'
  BY DEF IInv, TodoOK, TypesOK

\* Treating a request takes it off the list, wherever it goes.
LEMMA TodoDone ==
  ASSUME IInv, NEW r \in Req, NEW place \in Place,
         where' = [where EXCEPT ![r] = place] \/ where' = where,
         phase' = phase, todo' = todo \ {r}
  PROVE  TodoOK'
  BY DEF IInv, TodoOK, TypesOK

\* A step that leaves requests and phase alone leaves the list alone.
LEMMA TodoSame ==
  ASSUME IInv, where' = where, phase' = phase, todo' = todo
  PROVE  TodoOK'
  BY DEF IInv, TodoOK, TypesOK

\* A request past user_semaphore keeps its semaphore when it moves on.
LEMMA SemMove ==
  ASSUME IInv, NEW r \in Req, where[r] # "new", sem' = sem,
         where' = where \/ \E place \in Place : where' = [where EXCEPT ![r] = place]
  PROVE  SemOK'
  BY DEF IInv, SemOK, TypesOK

-----------------------------------------------------------------------------
(* The callers' steps keep the invariant.                                  *)

\* user_semaphore gives the caller a semaphore, its own or its user's.
LEMMA LookupKeep ==
  ASSUME IInv, NEW r \in Req, Lookup(r)
  PROVE  IInv'
<1>1. /\ table' \in [User -> Req \cup {None}]
      /\ sem' \in [Req -> Req \cup {None}]
      /\ sem'[r] \in Req
  BY SchedulerAssumption DEF SchedulerAssumption, Lookup, TypesOK, IInv, Kept, Tracked
<1>2. TypesOK'
  BY <1>1, Places DEF Lookup, TypesOK, IInv, loopVars
<1>3. SemOK'
  BY <1>1 DEF Lookup, SemOK, IInv, TypesOK
<1>4. r \notin todo
  BY NotTodo DEF Lookup
<1>5. TodoOK'
  BY <1>4, TodoMove, Places DEF Lookup, loopVars
<1> QED
  BY <1>2, <1>3, <1>5 DEF IInv
\* try_acquire_owned takes a permit that is there.
LEMMA AcquireKeep ==
  ASSUME IInv, NEW r \in Req, Acquire(r)
  PROVE  IInv'
<1>1. sem[r] \in Req
  BY DEF Acquire, IInv, SemOK
<1>2. permits' \in [Req -> Nat]
  BY <1>1 DEF Acquire, IInv, TypesOK
<1>3. seq' \in [Req -> Nat] /\ nextSeq' \in Nat
  BY DEF Acquire, IInv, TypesOK
<1>4. where' \in [Req -> Place]
  BY Places DEF Acquire, IInv, TypesOK
<1>5. TypesOK'
  BY <1>2, <1>3, <1>4 DEF Acquire, TypesOK, IInv, loopVars
<1>6. SemOK'
  BY SemMove, Places DEF Acquire
<1>7. r \notin todo
  BY NotTodo DEF Acquire
<1>8. TodoOK'
  BY <1>7, TodoMove, Places DEF Acquire, loopVars
<1> QED
  BY <1>5, <1>6, <1>8 DEF IInv
\* A caller over its limit is refused and counted.
LEMMA RateLimitedKeep ==
  ASSUME IInv, NEW r \in Req, RateLimited(r)
  PROVE  IInv'
<1>1. where' \in [Req -> Place]
  BY Places DEF RateLimited, IInv, TypesOK
<1>2. tally' \in [Counter -> Nat]
  BY BumpTypes, Counters DEF RateLimited, IInv
<1>3. TypesOK'
  BY <1>1, <1>2 DEF RateLimited, TypesOK, IInv, callerVars, loopVars
<1>4. SemOK'
  BY SemMove, Places DEF RateLimited, callerVars
<1>5. r \notin todo
  BY NotTodo DEF RateLimited
<1>6. TodoOK'
  BY <1>5, TodoMove, Places DEF RateLimited, loopVars
<1> QED
  BY <1>3, <1>4, <1>6 DEF IInv
\* try_send hands the request to the loop.
LEMMA EnqueueKeep ==
  ASSUME IInv, NEW r \in Req, Enqueue(r)
  PROVE  IInv'
<1>1. where' \in [Req -> Place]
  BY Places DEF Enqueue, IInv, TypesOK
<1>3. TypesOK'
  BY <1>1 DEF Enqueue, TypesOK, IInv, callerVars, loopVars
<1>4. SemOK'
  BY SemMove, Places DEF Enqueue, callerVars
<1>5. r \notin todo
  BY NotTodo DEF Enqueue
<1>6. TodoOK'
  BY <1>5, TodoMove, Places DEF Enqueue, loopVars
<1> QED
  BY <1>3, <1>4, <1>6 DEF IInv
\* A full channel hands it back.
LEMMA BusyKeep ==
  ASSUME IInv, NEW r \in Req, Busy(r)
  PROVE  IInv'
<1>1. where' \in [Req -> Place]
  BY Places DEF Busy, IInv, TypesOK
<1>2. tally' \in [Counter -> Nat]
  BY BumpTypes, Counters DEF Busy, IInv
<1>3. TypesOK'
  BY <1>1, <1>2 DEF Busy, TypesOK, IInv, callerVars, loopVars
<1>4. SemOK'
  BY SemMove, Places DEF Busy, callerVars
<1>5. r \notin todo
  BY NotTodo DEF Busy
<1>6. TodoOK'
  BY <1>5, TodoMove, Places DEF Busy, loopVars
<1> QED
  BY <1>3, <1>4, <1>6 DEF IInv
\* The request handed back is dropped.
LEMMA BounceKeep ==
  ASSUME IInv, NEW r \in Req, Bounce(r)
  PROVE  IInv'
<1>1. sem[r] \in Req
  BY DEF Bounce, IInv, SemOK
<1>2. TypesOK'
  BY <1>1, DropTypes, Places DEF Bounce, TypesOK, IInv, callerVars, loopVars
<1>3. SemOK'
  BY SemMove, Places DEF Bounce, Drop, callerVars
<1>4. r \notin todo
  BY NotTodo DEF Bounce
<1>5. TodoOK'
  BY <1>4, TodoMove, Places DEF Bounce, Drop, loopVars
<1> QED
  BY <1>2, <1>3, <1>5 DEF IInv
\* submit counts the request and returns its Handle.
LEMMA SubmittedKeep ==
  ASSUME IInv, NEW r \in Req, Submitted(r)
  PROVE  IInv'
<1>1. tally' \in [Counter -> Nat]
  BY BumpTypes, Counters DEF Submitted, IInv
<1>2. TypesOK'
  BY <1>1 DEF Submitted, TypesOK, IInv, callerVars, loopVars
<1>3. SemOK'
  BY DEF Submitted, SemOK, IInv, callerVars
<1>4. TodoOK'
  BY TodoSame DEF Submitted, loopVars
<1> QED
  BY <1>2, <1>3, <1>4 DEF IInv
\* The caller sets the flag.
LEMMA CancelKeep ==
  ASSUME IInv, NEW r \in Req, Cancel(r)
  PROVE  IInv'
<1>2. TypesOK'
  BY DEF Cancel, TypesOK, IInv, callerVars, loopVars
<1>3. SemOK'
  BY DEF Cancel, SemOK, IInv, callerVars
<1>4. TodoOK'
  BY TodoSame DEF Cancel, loopVars
<1> QED
  BY <1>2, <1>3, <1>4 DEF IInv
\* The caller's receiver closes.
LEMMA HangupKeep ==
  ASSUME IInv, NEW r \in Req, Hangup(r)
  PROVE  IInv'
<1>2. TypesOK'
  BY DEF Hangup, TypesOK, IInv, callerVars, loopVars
<1>3. SemOK'
  BY DEF Hangup, SemOK, IInv, callerVars
<1>4. TodoOK'
  BY TodoSame DEF Hangup, loopVars
<1> QED
  BY <1>2, <1>3, <1>4 DEF IInv
\* The deadline passes.
LEMMA ExpireKeep ==
  ASSUME IInv, NEW r \in Req, Expire(r)
  PROVE  IInv'
<1>2. TypesOK'
  BY DEF Expire, TypesOK, IInv, callerVars, loopVars
<1>3. SemOK'
  BY DEF Expire, SemOK, IInv, callerVars
<1>4. TodoOK'
  BY TodoSame DEF Expire, loopVars
<1> QED
  BY <1>2, <1>3, <1>4 DEF IInv
-----------------------------------------------------------------------------
(* The loop's steps on one request keep the invariant.                     *)

\* A request that ended is dropped.
LEMMA ReleaseKeep ==
  ASSUME IInv, NEW r \in Req, Release(r)
  PROVE  IInv'
<1>1. sem[r] \in Req
  BY DEF Release, IInv, SemOK
<1>2. TypesOK'
  BY <1>1, DropTypes, Places DEF Release, TypesOK, IInv, callerVars, loopVars
<1>3. SemOK'
  BY SemMove, Places DEF Release, Drop, callerVars
<1>4. r \notin todo
  BY NotTodo DEF Release
<1>5. TodoOK'
  BY <1>4, TodoMove, Places DEF Release, Drop, loopVars
<1> QED
  BY <1>2, <1>3, <1>5 DEF IInv
\* A request leaves the channel for the heap.
LEMMA DrainKeep ==
  ASSUME IInv, NEW r \in Req, Drain(r)
  PROVE  IInv'
<1>1. where' \in [Req -> Place]
  BY Places DEF Drain, IInv, TypesOK
<1>2. TypesOK'
  BY <1>1 DEF Drain, TypesOK, IInv, callerVars, loopVars
<1>3. SemOK'
  BY SemMove, Places DEF Drain, callerVars
<1>4. r \notin todo
  BY NotTodo DEF Drain
<1>5. TodoOK'
  BY <1>4, TodoMove, Places DEF Drain, loopVars
<1> QED
  BY <1>2, <1>3, <1>5 DEF IInv
\* A request leaves the heap for the batch, or ends.
LEMMA AdmitKeep ==
  ASSUME IInv, NEW r \in Req, Admit(r)
  PROVE  IInv'
<1>1. /\ where' \in [Req -> Place]
      /\ tally' \in [Counter -> Nat]
      /\ stream' \in [Req -> Seq(Event)]
  BY FinishTypes, Counters, Places DEF Admit, IInv, TypesOK
<1>2. TypesOK'
  BY <1>1 DEF Admit, TypesOK, IInv, callerVars, loopVars
<1>3. SemOK'
  BY SemMove, Places DEF Admit, Finish, callerVars
<1>4. todo = {}
  BY DEF Admit, At, IInv, TodoOK
<1>5. TodoOK'
  BY <1>4, TodoMove, Places DEF Admit, Finish, loopVars
<1> QED
  BY <1>2, <1>3, <1>5 DEF IInv
\* A queued request is looked at, and may end.
LEMMA PurgeKeep ==
  ASSUME IInv, NEW r \in Req, Purge(r)
  PROVE  IInv'
<1>1. where[r] = "heap"
  BY DEF Purge, At, IInv, TodoOK
<1>2. /\ where' \in [Req -> Place]
      /\ tally' \in [Counter -> Nat]
      /\ stream' \in [Req -> Seq(Event)]
  BY FinishTypes, SentTypes, Events, Counters, Places DEF Purge, IInv, TypesOK
<1>4. TypesOK'
  BY <1>2, Phases DEF Purge, Goto, TypesOK, IInv, callerVars
<1>5. SemOK'
  BY <1>1, SemMove, Places DEF Purge, Finish, callerVars
<1>6. TodoOK'
  BY TodoDone, Places DEF Purge, Finish, Goto, At
<1> QED
  BY <1>4, <1>5, <1>6 DEF IInv
\* admit_one starts the request, or it ends.
LEMMA StartKeep ==
  ASSUME IInv, NEW r \in Req, Start(r)
  PROVE  IInv'
<1>1. where[r] = "admit"
  BY DEF Start, At, IInv, TodoOK
<1>2. /\ where' \in [Req -> Place]
      /\ tally' \in [Counter -> Nat]
      /\ stream' \in [Req -> Seq(Event)]
  <2>1. CASE where' = [where EXCEPT ![r] = "prefill"] /\ UNCHANGED <<tally, stream>>
    BY <2>1, Places DEF IInv, TypesOK
  <2>2. CASE Finish(r, "failed", Sent(r, "error"))
    BY <2>2, FinishTypes, SentTypes, Events, Counters DEF IInv
  <2> QED
    BY <2>1, <2>2 DEF Start
<1>3. left' \in [Req -> 0..PromptLen]
  <2>1. left' = left \/ \E n \in 0..PromptLen : left' = [left EXCEPT ![r] = n]
    BY DEF Start
  <2>2. CASE left' = left
    BY <2>2 DEF IInv, TypesOK
  <2>3. CASE \E n \in 0..PromptLen : left' = [left EXCEPT ![r] = n]
    BY <2>3 DEF IInv, TypesOK
  <2> QED
    BY <2>1, <2>2, <2>3
<1>4. TypesOK'
  BY <1>2, <1>3, Phases DEF Start, Goto, TypesOK, IInv, callerVars
<1>5. SemOK'
  BY <1>1, SemMove, Places DEF Start, Finish, callerVars
<1>6. TodoOK'
  BY TodoDone, Places DEF Start, Finish, Goto, At
<1> QED
  BY <1>4, <1>5, <1>6 DEF IInv
\* advance_prefills feeds the prompt, promotes the request or ends it.
LEMMA PrefillKeep ==
  ASSUME IInv, NEW r \in Req, Prefill(r)
  PROVE  IInv'
<1>1. where[r] = "prefill"
  BY DEF Prefill, At, IInv, TodoOK
<1>2. /\ where' \in [Req -> Place]
      /\ tally' \in [Counter -> Nat]
      /\ stream' \in [Req -> Seq(Event)]
  <2>1. CASE where' = where \/ where' = [where EXCEPT ![r] = "active"]
    <3>1. where' \in [Req -> Place]
      BY <2>1, Places DEF IInv, TypesOK
    <3>2. ASSUME NEW k \in Counter, NEW e \in Event, Finish(r, k, Sent(r, e))
          PROVE  tally' \in [Counter -> Nat] /\ stream' \in [Req -> Seq(Event)]
      BY <3>2, FinishTypes, SentTypes DEF IInv
    <3>3. UNCHANGED <<tally, stream>> =>
            tally' \in [Counter -> Nat] /\ stream' \in [Req -> Seq(Event)]
      BY DEF IInv, TypesOK
    <3> QED
      BY <3>1, <3>2, <3>3, Events, Counters DEF Prefill, Abandon
  <2>2. ASSUME NEW k \in Counter, NEW e \in Event, Finish(r, k, Sent(r, e))
        PROVE  /\ where' \in [Req -> Place]
               /\ tally' \in [Counter -> Nat]
               /\ stream' \in [Req -> Seq(Event)]
    BY <2>2, FinishTypes, SentTypes DEF IInv
  <2> QED
    BY <2>1, <2>2, Events, Counters DEF Prefill, Abandon
<1>3. left' \in [Req -> 0..PromptLen]
  <2>1. CASE left' = left
    BY <2>1 DEF IInv, TypesOK
  <2>2. CASE \E n \in 0..left[r] : left' = [left EXCEPT ![r] = n]
    <3>1. PICK n \in 0..left[r] : left' = [left EXCEPT ![r] = n]
      BY <2>2
    <3>2. n \in 0..PromptLen
      BY SchedulerAssumption DEF SchedulerAssumption, IInv, TypesOK
    <3> QED
      BY <3>1, <3>2 DEF IInv, TypesOK
  <2> QED
    BY <2>1, <2>2 DEF Prefill
<1>4. TypesOK'
  BY <1>2, <1>3, Phases DEF Prefill, Goto, TypesOK, IInv, callerVars
<1>5. SemOK'
  BY <1>1, SemMove, Places DEF Prefill, Abandon, Finish, callerVars
<1>6. TodoOK'
  BY TodoDone, Places DEF Prefill, Abandon, Finish, Goto, At
<1> QED
  BY <1>4, <1>5, <1>6 DEF IInv
\* step_batch looks at a decoding request, and may end it.
LEMMA CheckKeep ==
  ASSUME IInv, NEW r \in Req, Check(r)
  PROVE  IInv'
<1>1. where[r] = "active"
  BY DEF Check, At, IInv, TodoOK
<1>2. /\ where' \in [Req -> Place]
      /\ tally' \in [Counter -> Nat]
      /\ stream' \in [Req -> Seq(Event)]
  BY FinishTypes, SentTypes, Events, Counters, Places DEF Check, Abandon, IInv, TypesOK
<1>4. TypesOK'
  BY <1>2, Phases DEF Check, Goto, TypesOK, IInv, callerVars
<1>5. SemOK'
  BY <1>1, SemMove, Places DEF Check, Abandon, Finish, callerVars
<1>6. TodoOK'
  BY TodoDone, Places DEF Check, Abandon, Finish, Goto, At
<1> QED
  BY <1>4, <1>5, <1>6 DEF IInv
\* A token of the round is sent, or cannot be and the request ends.
LEMMA EmitTokenKeep ==
  ASSUME IInv, NEW r \in Req, EmitToken(r)
  PROVE  IInv'
<1>1. where[r] = "active"
  BY DEF EmitToken, IInv, TodoOK
<1>2. /\ where' \in [Req -> Place]
      /\ tally' \in [Counter -> Nat]
      /\ stream' \in [Req -> Seq(Event)]
  <2>1. CASE Finish(r, "cancelled", stream)
    <3>1. stream \in [Req -> Seq(Event)]
      BY DEF IInv, TypesOK
    <3> QED
      BY <2>1, <3>1, FinishTypes, Counters DEF IInv
  <2>2. CASE stream' = Sent(r, "token") /\ UNCHANGED <<tally, where>>
    BY <2>2, SentTypes, Events DEF IInv, TypesOK
  <2> QED
    BY <2>1, <2>2 DEF EmitToken
<1>3. out' \in [Req -> [n : 0..MaxTokens, stop : BOOLEAN]]
  <2>1. out[r] \in [n : 0..MaxTokens, stop : BOOLEAN] /\ out[r].n - 1 \in 0..MaxTokens
    <3>1. out[r] \in [n : 0..MaxTokens, stop : BOOLEAN]
      BY DEF IInv, TypesOK
    <3>2. out[r].n \in 0..MaxTokens /\ out[r].n > 0
      BY <3>1 DEF EmitToken
    <3>3. MaxTokens \in Nat
      BY SchedulerAssumption DEF SchedulerAssumption
    <3> QED
      BY <3>1, <3>2, <3>3
  <2>2. CASE out' = out
    BY <2>2 DEF IInv, TypesOK
  <2>3. CASE out' = [out EXCEPT ![r].n = out[r].n - 1]
    <3>1. [out[r] EXCEPT !.n = out[r].n - 1] \in [n : 0..MaxTokens, stop : BOOLEAN]
      BY <2>1
    <3>2. out' = [out EXCEPT ![r] = [out[r] EXCEPT !.n = out[r].n - 1]]
      BY <2>3
    <3> QED
      BY <3>1, <3>2 DEF IInv, TypesOK
  <2> QED
    BY <2>2, <2>3 DEF EmitToken
<1>4. TypesOK'
  BY <1>2, <1>3 DEF EmitToken, Goto, TypesOK, IInv, callerVars
<1>5. SemOK'
  BY <1>1, SemMove, Places DEF EmitToken, Finish, callerVars
<1>6. TodoOK'
  BY TodoDone, TodoSame, Places DEF EmitToken, Finish, Goto
<1> QED
  BY <1>4, <1>5, <1>6 DEF IInv
\* The round of a request is over, and perhaps the request.
LEMMA EmitEndKeep ==
  ASSUME IInv, NEW r \in Req, EmitEnd(r)
  PROVE  IInv'
<1>1. where[r] = "active"
  BY DEF EmitEnd, IInv, TodoOK
<1>2. /\ where' \in [Req -> Place]
      /\ tally' \in [Counter -> Nat]
      /\ stream' \in [Req -> Seq(Event)]
  BY FinishTypes, SentTypes, Events, Counters, Places DEF EmitEnd, IInv, TypesOK
<1>4. TypesOK'
  BY <1>2, Phases DEF EmitEnd, Goto, TypesOK, IInv, callerVars
<1>5. SemOK'
  BY <1>1, SemMove, Places DEF EmitEnd, Finish, callerVars
<1>6. TodoOK'
  BY TodoDone, Places DEF EmitEnd, Finish, Goto, At
<1> QED
  BY <1>4, <1>5, <1>6 DEF IInv
\* A panicking worker's request is dropped.
LEMMA UnwindKeep ==
  ASSUME IInv, NEW r \in Req, Unwind(r)
  PROVE  IInv'
<1>1. where[r] \in {"admit", "prefill", "active"}
  BY DEF Unwind, IInv, TodoOK
<1>2. sem[r] \in Req
  BY <1>1 DEF IInv, SemOK
<1>3. TypesOK'
  BY <1>2, DropTypes, Places DEF Unwind, Goto, TypesOK, IInv, callerVars
<1>4. SemOK'
  BY <1>1, SemMove, Places DEF Unwind, Drop, callerVars
<1>5. TodoOK'
  BY TodoDone, Places DEF Unwind, Drop, Goto
<1> QED
  BY <1>3, <1>4, <1>5 DEF IInv
-----------------------------------------------------------------------------
(* The steps from one phase to the next keep the invariant.                *)

\* A decode round gives every active request an outcome within its budget.
LEMMA DecodeTypes ==
  ASSUME IInv, Decode
  PROVE  out' \in [Req -> [n : 0..MaxTokens, stop : BOOLEAN]]
<1>1. PICK round \in [In("active") -> UNION {Round(r) : r \in In("active")}] :
         /\ \A r \in In("active") : round[r] \in Round(r)
         /\ out' = [r \in Req |-> IF r \in In("active") THEN round[r] ELSE out[r]]
  BY DEF Decode
<1>2. ASSUME NEW r \in Req
      PROVE  Round(r) \subseteq [n : 0..MaxTokens, stop : BOOLEAN]
  <2>1. Len(stream[r]) \in Nat
    BY DEF IInv, TypesOK
  <2>2. 0..(MaxTokens - Len(stream[r])) \subseteq 0..MaxTokens
    BY <2>1, SchedulerAssumption DEF SchedulerAssumption
  <2> QED
    BY <2>2 DEF Round
<1> QED
  BY <1>1, <1>2 DEF In, IInv, TypesOK

\* run_loop moves on with a list of exactly the requests the next phase works on.
LEMMA PhaseKeep ==
  ASSUME IInv, PhaseStep \/ Panic
  PROVE  IInv'
<1>1. CASE Drained
  <2>1. TypesOK'
    BY <1>1, Phases DEF Drained, Goto, In, TypesOK, IInv, callerVars
  <2>2. SemOK'
    BY <1>1 DEF Drained, SemOK, IInv, callerVars
  <2>3. TodoOK'
    BY <1>1 DEF Drained, Goto, In, TodoOK
  <2> QED
    BY <2>1, <2>2, <2>3 DEF IInv
<1>2. CASE Purged
  <2>1. TypesOK'
    BY <1>2, Phases DEF Purged, Goto, In, TypesOK, IInv, callerVars
  <2>2. SemOK'
    BY <1>2 DEF Purged, SemOK, IInv, callerVars
  <2>3. TodoOK'
    BY <1>2 DEF Purged, Goto, In, TodoOK
  <2> QED
    BY <2>1, <2>2, <2>3 DEF IInv
<1>3. CASE Admitted
  <2>1. TypesOK'
    BY <1>3, Phases DEF Admitted, Goto, In, TypesOK, IInv, callerVars
  <2>2. SemOK'
    BY <1>3 DEF Admitted, SemOK, IInv, callerVars
  <2>3. TodoOK'
    BY <1>3 DEF Admitted, Goto, In, TodoOK
  <2> QED
    BY <2>1, <2>2, <2>3 DEF IInv
<1>4. CASE Started
  <2>1. TypesOK'
    BY <1>4, Phases DEF Started, Goto, In, TypesOK, IInv, callerVars
  <2>2. SemOK'
    BY <1>4 DEF Started, SemOK, IInv, callerVars
  <2>3. TodoOK'
    BY <1>4 DEF Started, Goto, In, TodoOK
  <2> QED
    BY <2>1, <2>2, <2>3 DEF IInv
<1>5. CASE Prefilled
  <2>1. TypesOK'
    BY <1>5, Phases DEF Prefilled, Goto, In, TypesOK, IInv, callerVars
  <2>2. SemOK'
    BY <1>5 DEF Prefilled, SemOK, IInv, callerVars
  <2>3. TodoOK'
    BY <1>5 DEF Prefilled, Goto, In, TodoOK
  <2> QED
    BY <2>1, <2>2, <2>3 DEF IInv
<1>6. CASE Decode
  <2>1. TypesOK'
    BY <1>6, DecodeTypes, Phases DEF Decode, Goto, In, TypesOK, IInv, callerVars
  <2>2. SemOK'
    BY <1>6 DEF Decode, SemOK, IInv, callerVars
  <2>3. TodoOK'
    BY <1>6 DEF Decode, Goto, In, TodoOK
  <2> QED
    BY <2>1, <2>2, <2>3 DEF IInv
<1>7. CASE Rest
  <2>1. TypesOK'
    BY <1>7, Phases DEF Rest, Goto, In, TypesOK, IInv, callerVars
  <2>2. SemOK'
    BY <1>7 DEF Rest, SemOK, IInv, callerVars
  <2>3. TodoOK'
    BY <1>7 DEF Rest, Goto, In, TodoOK
  <2> QED
    BY <2>1, <2>2, <2>3 DEF IInv
<1>8. CASE Emitted
  <2>1. TypesOK'
    BY <1>8, Phases DEF Emitted, Goto, In, TypesOK, IInv, callerVars
  <2>2. SemOK'
    BY <1>8 DEF Emitted, SemOK, IInv, callerVars
  <2>3. TodoOK'
    BY <1>8 DEF Emitted, Goto, In, TodoOK
  <2> QED
    BY <2>1, <2>2, <2>3 DEF IInv
<1>9. CASE Unwound
  <2>1. TypesOK'
    BY <1>9, Phases DEF Unwound, Goto, In, TypesOK, IInv, callerVars
  <2>2. SemOK'
    BY <1>9 DEF Unwound, SemOK, IInv, callerVars
  <2>3. TodoOK'
    BY <1>9 DEF Unwound, Goto, In, TodoOK
  <2> QED
    BY <2>1, <2>2, <2>3 DEF IInv
<1>10. CASE Panic
  <2>1. TypesOK'
    BY <1>10, Phases DEF Panic, Goto, In, Batch, TypesOK, IInv, callerVars
  <2>2. SemOK'
    BY <1>10 DEF Panic, SemOK, IInv, callerVars
  <2>3. TodoOK'
    BY <1>10 DEF Panic, Goto, In, Batch, TodoOK
  <2> QED
    BY <2>1, <2>2, <2>3 DEF IInv
<1> QED
  BY <1>1, <1>2, <1>3, <1>4, <1>5, <1>6, <1>7, <1>8, <1>9, <1>10 DEF PhaseStep

-----------------------------------------------------------------------------
\* The initial state is well typed and has nothing to do.
LEMMA InitIInv == Init => IInv
<1> SUFFICES ASSUME Init PROVE IInv
  OBVIOUS
<1>1. out \in [Req -> [n : 0..MaxTokens, stop : BOOLEAN]]
  BY SchedulerAssumption DEF SchedulerAssumption, Init
<1>2. left \in [Req -> 0..PromptLen] /\ permits \in [Req -> Nat]
  BY SchedulerAssumption DEF SchedulerAssumption, Init
<1>3. stream \in [Req -> Seq(Event)]
  BY DEF Init
<1>4. TypesOK
  BY <1>1, <1>2, <1>3, Places, Phases, Counters DEF Init, TypesOK
<1> QED
  BY <1>4 DEF Init, IInv, SemOK, TodoOK

\* Every step, of a caller, of the clock or of the loop, keeps the invariant.
LEMMA NextIInv == IInv /\ [Next]_vars => IInv'
<1> SUFFICES ASSUME IInv, [Next]_vars PROVE IInv'
  OBVIOUS
<1>1. CASE \E r \in Req : SubmitStep(r)
  BY <1>1, LookupKeep, AcquireKeep, RateLimitedKeep, EnqueueKeep, BusyKeep,
     BounceKeep, SubmittedKeep DEF SubmitStep
<1>2. CASE \E r \in Req : ClientStep(r)
  BY <1>2, CancelKeep, HangupKeep, ExpireKeep DEF ClientStep
<1>3. CASE \E r \in Req : RequestStep(r)
  BY <1>3, DrainKeep, PurgeKeep, AdmitKeep, StartKeep, PrefillKeep, CheckKeep,
     EmitTokenKeep, EmitEndKeep, ReleaseKeep, UnwindKeep DEF RequestStep
<1>4. CASE PhaseStep \/ Panic
  BY <1>4, PhaseKeep
<1>5. CASE UNCHANGED vars
  BY <1>5 DEF vars, callerVars, loopVars, IInv, TypesOK, SemOK, TodoOK
<1> QED
  BY <1>1, <1>2, <1>3, <1>4, <1>5 DEF Next, Loop, Quiet

\* Every reachable state is well typed, every request past user_semaphore has a
\* semaphore, and the loop's list of work agrees with its phase.
THEOREM Inductive == Spec => []IInv
  BY InitIInv, NextIInv, PTL DEF Spec

-----------------------------------------------------------------------------
(* The limits of the scheduler, for every configuration: permits are       *)
(* conserved, the batch never outgrows its slots, and, as long as the user *)
(* table is not crowded, no user exceeds the per-user limit.  All three    *)
(* rest on the inductive invariant above, which says from which places     *)
(* each step of the loop can move a request.                               *)

BatchPlaces == {"admit", "prefill", "active"}

\* Between submit and the drop, the loop moves a request only from one structure that
\* owns it to another, and into the batch only from the batch (admission apart).
LEMMA LoopMoves ==
  ASSUME IInv, NEW r \in Req,
         \/ Drain(r) \/ Purge(r) \/ Start(r) \/ Prefill(r)
         \/ Check(r) \/ EmitToken(r) \/ EmitEnd(r)
  PROVE  /\ UNCHANGED <<sem, permits, table>>
         /\ \/ where' = where
            \/ \E place \in HolderPlaces :
                  /\ where' = [where EXCEPT ![r] = place]
                  /\ where[r] \in HolderPlaces
                  /\ place \in BatchPlaces => where[r] \in BatchPlaces
<1> USE DEF HolderPlaces, BatchPlaces, callerVars
<1>1. CASE Drain(r)
  BY <1>1 DEF Drain
<1>2. CASE Purge(r)
  BY <1>2 DEF Purge, Finish, At, IInv, TodoOK
<1>3. CASE Start(r)
  BY <1>3 DEF Start, Finish, At, IInv, TodoOK
<1>4. CASE Prefill(r)
  BY <1>4 DEF Prefill, Abandon, Finish, At, IInv, TodoOK
<1>5. CASE Check(r)
  BY <1>5 DEF Check, Abandon, Finish, At, IInv, TodoOK
<1>6. CASE EmitToken(r)
  BY <1>6 DEF EmitToken, Finish, IInv, TodoOK
<1>7. CASE EmitEnd(r)
  BY <1>7 DEF EmitEnd, Finish, IInv, TodoOK
<1> QED
  BY <1>1, <1>2, <1>3, <1>4, <1>5, <1>6, <1>7

\* Admission moves a queued request into the batch, or ends it.
LEMMA AdmitMoves ==
  ASSUME NEW r \in Req, Admit(r)
  PROVE  /\ UNCHANGED <<sem, permits, table>>
         /\ where[r] = "heap"
         /\ Cardinality(Batch) < MaxActive
         /\ \/ where' = [where EXCEPT ![r] = "admit"]
            \/ where' = [where EXCEPT ![r] = "finishing"]
  BY DEF Admit, Finish, callerVars

\* The phase changes and the clients' own steps move nothing.
LEMMA StillMoves ==
  ASSUME NEW r \in Req,
         \/ Submitted(r) \/ Cancel(r) \/ Hangup(r) \/ Expire(r)
         \/ PhaseStep \/ Panic \/ UNCHANGED vars
  PROVE  UNCHANGED <<where, sem, permits, table>>
  BY DEF Submitted, Cancel, Hangup, Expire, PhaseStep, Panic, vars, callerVars,
     Drained, Purged, Admitted, Started, Prefilled, Decode, Rest, Emitted, Unwound

-----------------------------------------------------------------------------
(* Permits.                                                                *)

\* The requests holding a permit of a semaphore are finitely many.
LEMMA HoldersFinite ==
  ASSUME NEW s
  PROVE  IsFiniteSet(Holders(s)) /\ Cardinality(Holders(s)) \in Nat
<1>1. IsFiniteSet(Req) /\ Holders(s) \subseteq Req
  BY SchedulerAssumption DEF SchedulerAssumption, Holders
<1> QED
  BY <1>1, FS_Subset, FS_CardinalityType

\* A move between two places that own a permit, or two that do not, changes no count.
LEMMA PermitsMove ==
  ASSUME IInv, PermitsConserved, NEW r \in Req, NEW place \in Place,
         where' = [where EXCEPT ![r] = place],
         where[r] \in HolderPlaces <=> place \in HolderPlaces,
         UNCHANGED <<sem, permits>>
  PROVE  PermitsConserved'
<1>1. \A s \in Req : Holders(s)' = Holders(s)
  BY DEF Holders, IInv, TypesOK
<1> QED
  BY <1>1 DEF PermitsConserved

\* Nor does a step that moves nothing.
LEMMA PermitsStill ==
  ASSUME PermitsConserved, UNCHANGED <<where, sem, permits>>
  PROVE  PermitsConserved'
<1>1. \A s \in Req : Holders(s)' = Holders(s)
  BY DEF Holders
<1> QED
  BY <1>1 DEF PermitsConserved

\* Taking a permit adds one holder to its semaphore.
LEMMA PermitsTaken ==
  ASSUME IInv, PermitsConserved, NEW r \in Req, Acquire(r)
  PROVE  PermitsConserved'
<1> SUFFICES ASSUME NEW s \in Req
             PROVE  permits'[s] + Cardinality(Holders(s)') = MaxPerUser
  BY DEF PermitsConserved
<1>1. sem[r] \in Req /\ where[r] = "lookup" /\ sem' = sem
  BY DEF Acquire, IInv, SemOK
<1>2. where' = [where EXCEPT ![r] = "holding"]
  BY DEF Acquire
<1>3. permits' = [permits EXCEPT ![sem[r]] = @ - 1]
  BY DEF Acquire
<1>4. permits[s] \in Nat /\ permits[s] + Cardinality(Holders(s)) = MaxPerUser
  BY DEF PermitsConserved, IInv, TypesOK
<1>5. CASE s = sem[r]
  <2>1. Holders(s)' = Holders(s) \cup {r} /\ r \notin Holders(s)
    BY <1>1, <1>2, <1>5 DEF Holders, HolderPlaces, IInv, TypesOK
  <2>2. Cardinality(Holders(s)') = Cardinality(Holders(s)) + 1
    BY <2>1, HoldersFinite, FS_AddElement
  <2>3. permits'[s] = permits[s] - 1
    BY <1>3, <1>5 DEF IInv, TypesOK
  <2> QED
    BY <2>2, <2>3, <1>4, HoldersFinite
<1>6. CASE s # sem[r]
  <2>1. Holders(s)' = Holders(s)
    BY <1>1, <1>2, <1>6 DEF Holders, IInv, TypesOK
  <2>2. permits'[s] = permits[s]
    BY <1>3, <1>6 DEF IInv, TypesOK
  <2> QED
    BY <2>1, <2>2, <1>4
<1> QED
  BY <1>5, <1>6

\* Dropping a request that owns a permit gives back exactly that one.
LEMMA PermitsReturned ==
  ASSUME IInv, PermitsConserved, NEW r \in Req, where[r] \in HolderPlaces,
         NEW place \in Place \ HolderPlaces, Drop(r, place), sem' = sem
  PROVE  PermitsConserved'
<1> SUFFICES ASSUME NEW s \in Req
             PROVE  permits'[s] + Cardinality(Holders(s)') = MaxPerUser
  BY DEF PermitsConserved
<1>1. sem[r] \in Req
  BY DEF HolderPlaces, IInv, SemOK
<1>2. where' = [where EXCEPT ![r] = place]
  BY DEF Drop
<1>3. permits' = [permits EXCEPT ![sem[r]] = @ + 1]
  BY DEF Drop
<1>4. permits[s] \in Nat /\ permits[s] + Cardinality(Holders(s)) = MaxPerUser
  BY DEF PermitsConserved, IInv, TypesOK
<1>5. CASE s = sem[r]
  <2>1. Holders(s)' = Holders(s) \ {r} /\ r \in Holders(s)
    BY <1>1, <1>2, <1>5 DEF Holders, IInv, TypesOK
  <2>2. Cardinality(Holders(s)') = Cardinality(Holders(s)) - 1
    BY <2>1, HoldersFinite, FS_RemoveElement
  <2>3. permits'[s] = permits[s] + 1
    BY <1>3, <1>5 DEF IInv, TypesOK
  <2> QED
    BY <2>2, <2>3, <1>4, HoldersFinite
<1>6. CASE s # sem[r]
  <2>1. Holders(s)' = Holders(s)
    BY <1>1, <1>2, <1>6 DEF Holders, IInv, TypesOK
  <2>2. permits'[s] = permits[s]
    BY <1>3, <1>6 DEF IInv, TypesOK
  <2> QED
    BY <2>1, <2>2, <1>4
<1> QED
  BY <1>5, <1>6

\* Every step conserves the permits.
LEMMA PermitsStep ==
  ASSUME IInv, PermitsConserved, [Next]_vars
  PROVE  PermitsConserved'
<1>1. ASSUME NEW r \in Req, Lookup(r)
      PROVE  PermitsConserved'
  <2>1. \A s \in Req : Holders(s)' = Holders(s)
    BY <1>1 DEF Lookup, Holders, HolderPlaces, IInv, TypesOK
  <2> QED
    BY <1>1, <2>1 DEF Lookup, PermitsConserved
<1>2. ASSUME NEW r \in Req, RateLimited(r) \/ Enqueue(r) \/ Busy(r)
      PROVE  PermitsConserved'
  BY <1>2, PermitsMove, Places DEF RateLimited, Enqueue, Busy, HolderPlaces, callerVars
<1>3. ASSUME NEW r \in Req, Bounce(r) \/ Release(r)
      PROVE  PermitsConserved'
  <2>1. "refused" \in Place \ HolderPlaces /\ "retired" \in Place \ HolderPlaces
    BY Places DEF HolderPlaces
  <2> QED
    BY <1>3, <2>1, PermitsReturned DEF Bounce, Release, HolderPlaces, callerVars
<1>4. ASSUME NEW r \in Req, Unwind(r)
      PROVE  PermitsConserved'
  <2>1. "lost" \in Place \ HolderPlaces
    BY Places DEF HolderPlaces
  <2>2. where[r] \in HolderPlaces
    BY <1>4 DEF Unwind, IInv, TodoOK, HolderPlaces
  <2> QED
    BY <1>4, <2>1, <2>2, PermitsReturned DEF Unwind, callerVars
<1>5. ASSUME NEW r \in Req,
             \/ Drain(r) \/ Purge(r) \/ Start(r) \/ Prefill(r)
             \/ Check(r) \/ EmitToken(r) \/ EmitEnd(r)
      PROVE  PermitsConserved'
  <2>1. HolderPlaces \subseteq Place
    BY Places DEF HolderPlaces
  <2> QED
    BY <1>5, <2>1, LoopMoves, PermitsMove, PermitsStill
<1>6. ASSUME NEW r \in Req, Admit(r)
      PROVE  PermitsConserved'
  BY <1>6, AdmitMoves, PermitsMove, Places DEF HolderPlaces
<1>7. ASSUME NEW r \in Req,
             \/ Submitted(r) \/ Cancel(r) \/ Hangup(r) \/ Expire(r)
      PROVE  PermitsConserved'
  BY <1>7, StillMoves, PermitsStill
<1>8. CASE PhaseStep \/ Panic \/ UNCHANGED vars
  <2>1. UNCHANGED <<where, sem, permits>>
    BY <1>8 DEF PhaseStep, Panic, vars, callerVars, Drained, Purged, Admitted,
       Started, Prefilled, Decode, Rest, Emitted, Unwound
  <2> QED
    BY <2>1, PermitsStill
<1> QED
  BY <1>1, <1>2, <1>3, <1>4, <1>5, <1>6, <1>7, <1>8, PermitsTaken
  DEF Next, Loop, SubmitStep, ClientStep, RequestStep, Quiet

\* Every permit of every semaphore is available or owned by a request in the system,
\* on every path the code has: none leaks and none comes back twice.
THEOREM PermitsAlwaysConserved == Spec => []PermitsConserved
<1>1. Init => PermitsConserved
  <2> SUFFICES ASSUME Init, NEW s \in Req
               PROVE  permits[s] + Cardinality(Holders(s)) = MaxPerUser
    BY DEF PermitsConserved
  <2>1. Holders(s) = {}
    BY DEF Init, Holders, HolderPlaces
  <2> QED
    BY <2>1, FS_EmptySet, SchedulerAssumption DEF SchedulerAssumption, Init
<1> QED
  BY <1>1, PermitsStep, Inductive, PTL DEF Spec

-----------------------------------------------------------------------------
(* Slots.                                                                  *)

\* The batch is finite.
LEMMA BatchFinite == IsFiniteSet(Batch) /\ Cardinality(Batch) \in Nat
<1>1. IsFiniteSet(Req) /\ Batch \subseteq Req
  BY SchedulerAssumption DEF SchedulerAssumption, Batch, In
<1> QED
  BY <1>1, FS_Subset, FS_CardinalityType

\* A step that brings nobody into the batch keeps within the slots.
LEMMA SlotsShrink ==
  ASSUME SlotLimit, Batch' \subseteq Batch
  PROVE  SlotLimit'
<1>1. Cardinality(Batch') <= Cardinality(Batch) /\ Cardinality(Batch') \in Nat
  BY BatchFinite, FS_Subset, FS_CardinalityType
<1>2. MaxActive \in Nat
  BY SchedulerAssumption DEF SchedulerAssumption, MaxActive
<1> QED
  BY <1>1, <1>2, BatchFinite DEF SlotLimit, MaxActive

\* A request moved out of the batch, inside it, or outside it, brings nobody in.
LEMMA BatchMove ==
  ASSUME IInv, NEW r \in Req, NEW place \in Place,
         where' = [where EXCEPT ![r] = place],
         place \in BatchPlaces => where[r] \in BatchPlaces
  PROVE  Batch' \subseteq Batch
  BY DEF Batch, In, BatchPlaces, IInv, TypesOK

\* Every step keeps the batch within its slots.
LEMMA SlotStep ==
  ASSUME IInv, SlotLimit, [Next]_vars
  PROVE  SlotLimit'
<1>1. ASSUME NEW r \in Req,
             \/ Lookup(r) \/ Acquire(r) \/ RateLimited(r) \/ Enqueue(r) \/ Busy(r)
             \/ Bounce(r) \/ Release(r) \/ Unwind(r)
      PROVE  SlotLimit'
  <2>1. \E place \in Place \ BatchPlaces : where' = [where EXCEPT ![r] = place]
    BY <1>1, Places DEF BatchPlaces, Lookup, Acquire, RateLimited, Enqueue, Busy,
       Bounce, Release, Unwind, Drop
  <2> QED
    BY <2>1, BatchMove, SlotsShrink
<1>2. ASSUME NEW r \in Req,
             \/ Drain(r) \/ Purge(r) \/ Start(r) \/ Prefill(r)
             \/ Check(r) \/ EmitToken(r) \/ EmitEnd(r)
      PROVE  SlotLimit'
  <2>1. HolderPlaces \subseteq Place
    BY Places DEF HolderPlaces
  <2>2. CASE where' = where
    BY <2>2, SlotsShrink DEF Batch, In
  <2>3. CASE where' # where
    BY <1>2, <2>1, <2>3, LoopMoves, BatchMove, SlotsShrink
  <2> QED
    BY <2>2, <2>3
<1>3. ASSUME NEW r \in Req, Admit(r)
      PROVE  SlotLimit'
  <2>1. CASE where' = [where EXCEPT ![r] = "finishing"]
    BY <2>1, BatchMove, SlotsShrink, Places DEF BatchPlaces
  <2>2. CASE where' = [where EXCEPT ![r] = "admit"]
    <3>1. Batch' = Batch \cup {r} /\ r \notin Batch
      <4>1. where[r] = "heap"
        BY <1>3 DEF Admit
      <4>2. where \in [Req -> Place] /\ "admit" \in Place
        BY Places DEF IInv, TypesOK
      <4> QED
        BY <2>2, <4>1, <4>2 DEF Batch, In
    <3>2. Cardinality(Batch') = Cardinality(Batch) + 1
      BY <3>1, BatchFinite, FS_AddElement
    <3>3. MaxActive \in Nat /\ MaxActive' = MaxActive
      BY SchedulerAssumption DEF SchedulerAssumption, MaxActive
    <3>4. Cardinality(Batch) < MaxActive
      BY <1>3 DEF Admit
    <3>5. Cardinality(Batch') <= MaxActive
      BY <3>2, <3>3, <3>4, BatchFinite
    <3> QED
      BY <3>3, <3>5 DEF SlotLimit
  <2> QED
    BY <1>3, <2>1, <2>2, AdmitMoves
<1>4. ASSUME NEW r \in Req,
             \/ Submitted(r) \/ Cancel(r) \/ Hangup(r) \/ Expire(r)
      PROVE  SlotLimit'
  BY <1>4, StillMoves, SlotsShrink DEF Batch, In
<1>5. CASE PhaseStep \/ Panic \/ UNCHANGED vars
  <2>1. UNCHANGED where
    BY <1>5 DEF PhaseStep, Panic, vars, callerVars, Drained, Purged, Admitted,
       Started, Prefilled, Decode, Rest, Emitted, Unwound
  <2> QED
    BY <2>1, SlotsShrink DEF Batch, In
<1> QED
  BY <1>1, <1>2, <1>3, <1>4, <1>5
  DEF Next, Loop, SubmitStep, ClientStep, RequestStep, Quiet

\* No interleaving of admissions, promotions, ends and panics puts more requests in
\* the batch than max_concurrent.
THEOREM SlotsNeverExceeded == Spec => []SlotLimit
<1>1. Init => SlotLimit
  <2> SUFFICES ASSUME Init PROVE SlotLimit
    OBVIOUS
  <2>1. Batch = {}
    BY DEF Init, Batch, In
  <2> QED
    BY <2>1, FS_EmptySet, SchedulerAssumption
    DEF SchedulerAssumption, SlotLimit, MaxActive
<1> QED
  BY <1>1, SlotStep, Inductive, PTL DEF Spec

-----------------------------------------------------------------------------
(* Users.                                                                  *)

\* While the table is never crowded, all requests of a user that got past
\* user_semaphore share the one semaphore the table has for the user.
OneSemaphore == \A r \in Req : where[r] # "new" => table[userOf[r]] = sem[r]

\* Every step keeps it: only user_semaphore touches the table, and it never prunes.
LEMMA OneSemaphoreStep ==
  ASSUME Cardinality(User) <= HighWater, IInv, OneSemaphore, [Next]_vars
  PROVE  OneSemaphore'
<1>1. ASSUME NEW r \in Req, Lookup(r)
      PROVE  OneSemaphore'
  <2>1. ~Crowded
    <3>1. IsFiniteSet(User) /\ HighWater \in Nat
      BY SchedulerAssumption DEF SchedulerAssumption
    <3>2. {u \in User : Tracked(u)} \subseteq User
      OBVIOUS
    <3>3. Cardinality({u \in User : Tracked(u)}) <= Cardinality(User)
      BY <3>1, <3>2, FS_Subset
    <3>4. Cardinality({u \in User : Tracked(u)}) \in Nat /\ Cardinality(User) \in Nat
      BY <3>1, <3>2, FS_Subset, FS_CardinalityType
    <3> QED
      BY <3>1, <3>3, <3>4 DEF Crowded
  <2>2. \A u \in User : Kept(u) <=> table[u] # None
    BY <2>1 DEF Kept, Tracked
  <2>3. userOf \in [Req -> User] /\ None \notin Req
    BY SchedulerAssumption DEF SchedulerAssumption
  <2>4. /\ sem'[r] = table'[userOf[r]]
        /\ \A u \in User : table[u] # None => table'[u] = table[u]
        /\ \A q \in Req \ {r} : sem'[q] = sem[q]
        /\ \A q \in Req \ {r} : where'[q] = where[q]
    BY <1>1, <2>2, <2>3 DEF Lookup, IInv, TypesOK
  <2> QED
    BY <2>3, <2>4 DEF OneSemaphore, IInv, SemOK
<1>2. ASSUME NEW r \in Req,
             \/ Acquire(r) \/ RateLimited(r) \/ Enqueue(r) \/ Busy(r)
             \/ Bounce(r) \/ Release(r) \/ Unwind(r)
      PROVE  OneSemaphore'
  <2>1. where[r] # "new" /\ UNCHANGED <<sem, table>>
    BY <1>2 DEF Acquire, RateLimited, Enqueue, Busy, Bounce, Release, Unwind,
       callerVars, IInv, TodoOK
  <2>2. \A q \in Req \ {r} : where'[q] = where[q]
    BY <1>2 DEF Acquire, RateLimited, Enqueue, Busy, Bounce, Release, Unwind, Drop,
       IInv, TypesOK
  <2> QED
    BY <2>1, <2>2 DEF OneSemaphore
<1>3. ASSUME NEW r \in Req,
             \/ Drain(r) \/ Purge(r) \/ Start(r) \/ Prefill(r)
             \/ Check(r) \/ EmitToken(r) \/ EmitEnd(r)
      PROVE  OneSemaphore'
  <2>1. UNCHANGED <<sem, table>>
    BY <1>3, LoopMoves
  <2>2. \A q \in Req : where'[q] # "new" => where[q] # "new"
    BY <1>3, LoopMoves DEF IInv, TypesOK, HolderPlaces
  <2> QED
    BY <2>1, <2>2 DEF OneSemaphore
<1>4. ASSUME NEW r \in Req, Admit(r)
      PROVE  OneSemaphore'
  <2>1. \A q \in Req : where'[q] # "new" => where[q] # "new"
    BY <1>4, AdmitMoves DEF IInv, TypesOK
  <2> QED
    BY <1>4, <2>1, AdmitMoves DEF OneSemaphore
<1>5. ASSUME NEW r \in Req,
             \/ Submitted(r) \/ Cancel(r) \/ Hangup(r) \/ Expire(r)
      PROVE  OneSemaphore'
  BY <1>5, StillMoves DEF OneSemaphore
<1>6. CASE PhaseStep \/ Panic \/ UNCHANGED vars
  <2>1. UNCHANGED <<where, sem, table>>
    BY <1>6 DEF PhaseStep, Panic, vars, callerVars, Drained, Purged, Admitted,
       Started, Prefilled, Decode, Rest, Emitted, Unwound
  <2> QED
    BY <2>1 DEF OneSemaphore
<1> QED
  BY <1>1, <1>2, <1>3, <1>4, <1>5, <1>6
  DEF Next, Loop, SubmitStep, ClientStep, RequestStep, Quiet

\* One semaphore per user and conserved permits bound what a user has in the system.
LEMMA OneSemaphoreLimits ==
  ASSUME IInv, PermitsConserved, OneSemaphore
  PROVE  UserLimit
<1> SUFFICES ASSUME NEW u \in User
             PROVE  Cardinality(HoldersOf(u)) <= MaxPerUser
  BY DEF UserLimit
<1>1. MaxPerUser \in Nat
  BY SchedulerAssumption DEF SchedulerAssumption
<1>2. CASE HoldersOf(u) = {}
  BY <1>1, <1>2, FS_EmptySet
<1>3. CASE HoldersOf(u) # {}
  <2>1. PICK r \in Req : userOf[r] = u /\ where[r] \in HolderPlaces
    BY <1>3 DEF HoldersOf
  <2>2. sem[r] \in Req /\ table[u] = sem[r]
    BY <2>1 DEF HolderPlaces, IInv, SemOK, OneSemaphore
  <2>3. HoldersOf(u) \subseteq Holders(sem[r])
    BY <2>2 DEF HoldersOf, Holders, HolderPlaces, OneSemaphore
  <2>4. /\ Cardinality(HoldersOf(u)) <= Cardinality(Holders(sem[r]))
        /\ Cardinality(HoldersOf(u)) \in Nat
    BY <2>3, HoldersFinite, FS_Subset, FS_CardinalityType
  <2>5. permits[sem[r]] \in Nat
    BY <2>2 DEF IInv, TypesOK
  <2>6. permits[sem[r]] + Cardinality(Holders(sem[r])) = MaxPerUser
    BY <2>2 DEF PermitsConserved
  <2> QED
    BY <1>1, <2>4, <2>5, <2>6, HoldersFinite
<1> QED
  BY <1>2, <1>3

\* As long as there are no more users than USER_TABLE_HIGH_WATER, none of them ever has
\* more than max_concurrent_per_user requests in the system, whatever the callers'
\* threads and the loop do; above it the prune of user_semaphore breaks the limit.
THEOREM UserLimitHolds ==
  ASSUME Cardinality(User) <= HighWater
  PROVE  Spec => []UserLimit
<1>1. Init => OneSemaphore
  BY DEF Init, OneSemaphore
<1>2. IInv /\ OneSemaphore /\ [Next]_vars => OneSemaphore'
  BY OneSemaphoreStep
<1>3. IInv /\ PermitsConserved /\ OneSemaphore => UserLimit
  BY OneSemaphoreLimits
<1> QED
  BY <1>1, <1>2, <1>3, Inductive, PermitsAlwaysConserved, PTL DEF Spec
=============================================================================
