------------------------ MODULE SchedulerServiceProofs ------------------------
(***************************************************************************)
(* What callers see of the scheduler, for every configuration: streams     *)
(* that end once and say how, counters that balance, nobody overtaken,     *)
(* cancellation within a round, and together the service of                *)
(* RequestService.  Deeds sorts every step into the few things a caller    *)
(* can notice, and the invariants are kept deed by deed.  A stream's       *)
(* length needs what its round still has to send (Due) beside what was     *)
(* sent; the order of admission needs the numbers of submissions that      *)
(* were queued when another began (OrderOK); cancellation needs that a     *)
(* request the loop has looked at and goes on with was not given up by     *)
(* then (CancelOK).                                                        *)
(***************************************************************************)
EXTENDS SchedulerProofs, MCSchedulerOrder

-----------------------------------------------------------------------------
(* What a step does, as the callers see it.                                *)

Outcome == {"completed", "cancelled", "timed_out", "failed"}

\* A request ends: it is counted once, and told unless its caller gave it up.
Ends(r) ==
    /\ where[r] \in InFlight
    /\ where' = [where EXCEPT ![r] = "finishing"]
    /\ \E k \in Outcome : tally' = Bump(k)
    /\ client' = client
    /\ \/ stream' = stream /\ Cancelled(r)
       \/ /\ where[r] \in BatchPlaces
          /\ \E e \in Terminal : /\ e = "cancelled" => Cancelled(r)
                                 /\ stream' = [stream EXCEPT ![r] = Append(@, e)]

\* A token is sent.
Emits(r) ==
    /\ where[r] = "active" /\ phase = "emit" /\ r \in todo /\ out[r].n > 0
    /\ UNCHANGED <<where, client, tally, phase, todo>>
    /\ stream' = [stream EXCEPT ![r] = Append(@, "token")]
    /\ out' = [out EXCEPT ![r].n = @ - 1]

\* A submission is refused, and counted.
Refuses(r) ==
    /\ \/ where[r] = "lookup" /\ where' = [where EXCEPT ![r] = "refused"]
       \/ where[r] = "holding" /\ where' = [where EXCEPT ![r] = "bounced"]
    /\ \E k \in {"rejected_busy", "rejected_rate_limit"} : tally' = Bump(k)
    /\ UNCHANGED <<client, stream>>

\* Where a request may go without its caller or the counters noticing.
Onward ==
    {<<"new", "lookup">>, <<"lookup", "holding">>, <<"holding", "channel">>,
     <<"bounced", "refused">>, <<"channel", "heap">>, <<"heap", "admit">>,
     <<"admit", "prefill">>, <<"prefill", "active">>, <<"finishing", "retired">>,
     <<"admit", "lost">>, <<"prefill", "lost">>, <<"active", "lost">>}

Moves(r) ==
    /\ \E place \in Place : /\ <<where[r], place>> \in Onward
                            /\ where' = [where EXCEPT ![r] = place]
                            /\ place = "admit" => ~Cancelled(r)
    /\ UNCHANGED <<client, stream, tally>>

\* What an event sent to a caller is: nothing, if it has hung up.
LEMMA SentEnds ==
  ASSUME NEW r \in Req, NEW k \in Outcome, NEW e \in Terminal, e = "cancelled" => Cancelled(r),
         where[r] \in BatchPlaces, client' = client, Finish(r, k, Sent(r, e))
  PROVE  Ends(r)
<1>1. where[r] \in InFlight
  BY DEF InFlight, BatchPlaces
<1>2. CASE Closed(r)
  BY <1>1, <1>2 DEF Finish, Sent, Ends, Closed, Cancelled
<1>3. CASE ~Closed(r)
  BY <1>1, <1>3 DEF Finish, Sent, Ends
<1> QED
  BY <1>2, <1>3

\* Or the request ends unheard, having been given up.
LEMMA SilentEnds ==
  ASSUME NEW r \in Req, where[r] \in InFlight, Cancelled(r), client' = client,
         Finish(r, "cancelled", stream)
  PROVE  Ends(r)
  BY DEF Finish, Ends, Outcome

\* A request looked at before work is spent on it ends if it is given up or late.
LEMMA AbandonEnds ==
  ASSUME NEW r \in Req, where[r] \in BatchPlaces, client' = client, Abandon(r)
  PROVE  Ends(r)
<1>1. {"cancelled", "timed_out"} \subseteq Outcome /\ {"cancelled", "timeout"} \subseteq Terminal
  BY DEF Outcome, Terminal
<1>2. CASE Cancelled(r) /\ Finish(r, "cancelled", Sent(r, "cancelled"))
  BY <1>1, <1>2, SentEnds
<1>3. CASE Finish(r, "timed_out", Sent(r, "timeout"))
  BY <1>1, <1>3, SentEnds
<1> QED
  BY <1>2, <1>3 DEF Abandon

\* What the loop does with one request.
LEMMA LoopDeeds ==
  ASSUME IInv, NEW r \in Req, RequestStep(r)
  PROVE  \/ Ends(r) \/ Emits(r) \/ Moves(r)
         \/ UNCHANGED <<where, client, stream, tally>>
<1> USE DEF Terminal
<1>1. {"completed", "cancelled", "failed"} \subseteq Outcome
  BY DEF Outcome
<1>2. CASE Drain(r)
  BY <1>2, Places DEF Drain, Moves, Onward
<1>3. CASE Purge(r)
  <2>1. where[r] = "heap" /\ client' = client
    BY <1>3 DEF Purge, At, IInv, TodoOK
  <2> QED
    BY <1>3, <2>1, SilentEnds DEF Purge, InFlight
<1>4. CASE Admit(r)
  <2>1. where[r] = "heap" /\ client' = client
    BY <1>4 DEF Admit
  <2> QED
    BY <1>4, <2>1, SilentEnds, Places DEF Admit, InFlight, Moves, Onward
<1>5. CASE Start(r)
  <2>1. where[r] = "admit" /\ client' = client
    BY <1>5 DEF Start, At, IInv, TodoOK
  <2> QED
    BY <1>1, <1>5, <2>1, SentEnds, Places DEF Start, BatchPlaces, Moves, Onward
<1>6. CASE Prefill(r)
  <2>1. where[r] = "prefill" /\ client' = client
    BY <1>6 DEF Prefill, At, IInv, TodoOK
  <2> QED
    BY <1>1, <1>6, <2>1, SentEnds, AbandonEnds, Places DEF Prefill, BatchPlaces, Moves, Onward
<1>7. CASE Check(r)
  <2>1. where[r] = "active" /\ client' = client
    BY <1>7 DEF Check, At, IInv, TodoOK
  <2> QED
    BY <1>7, <2>1, AbandonEnds DEF Check, BatchPlaces
<1>8. CASE EmitToken(r)
  <2>1. where[r] = "active" /\ client' = client
    BY <1>8 DEF EmitToken, IInv, TodoOK
  <2> QED
    BY <1>8, <2>1, SilentEnds DEF EmitToken, InFlight, Closed, Cancelled, Emits, Sent
<1>9. CASE EmitEnd(r)
  <2>1. where[r] = "active" /\ client' = client
    BY <1>9 DEF EmitEnd, IInv, TodoOK
  <2> QED
    BY <1>1, <1>9, <2>1, SentEnds DEF EmitEnd, BatchPlaces
<1>10. CASE Release(r)
  BY <1>10, Places DEF Release, Drop, Moves, Onward
<1>11. CASE Unwind(r)
  <2>1. where[r] \in {"admit", "prefill", "active"}
    BY <1>11 DEF Unwind, IInv, TodoOK
  <2> QED
    BY <1>11, <2>1, Places DEF Unwind, Drop, Moves, Onward
<1> QED
  BY <1>2, <1>3, <1>4, <1>5, <1>6, <1>7, <1>8, <1>9, <1>10, <1>11 DEF RequestStep

\* What a caller's thread does, the flag, the Handle and the clock apart.
LEMMA SubmitDeeds ==
  ASSUME NEW r \in Req, SubmitStep(r)
  PROVE  Submitted(r) \/ Refuses(r) \/ Moves(r)
  BY Places DEF SubmitStep, Lookup, Acquire, RateLimited, Enqueue, Busy, Bounce, Drop,
     Refuses, Moves, Onward

\* Every step is one of these.
LEMMA Deeds ==
  ASSUME IInv, [Next]_vars
  PROVE  \/ \E r \in Req : \/ Ends(r) \/ Emits(r) \/ Refuses(r) \/ Moves(r)
                           \/ Submitted(r) \/ Cancel(r) \/ Hangup(r)
         \/ UNCHANGED <<where, client, stream, tally>>
<1>1. CASE \E r \in Req : SubmitStep(r)
  BY <1>1, SubmitDeeds
<1>2. CASE \E r \in Req : ClientStep(r)
  BY <1>2 DEF ClientStep, Expire
<1>3. CASE \E r \in Req : RequestStep(r)
  BY <1>3, LoopDeeds
<1>4. CASE PhaseStep \/ Panic \/ UNCHANGED vars
  BY <1>4 DEF PhaseStep, Panic, vars, Drained, Purged, Admitted, Started, Prefilled,
     Decode, Rest, Emitted, Unwound
<1> QED
  BY <1>1, <1>2, <1>3, <1>4 DEF Next, Loop, Quiet

-----------------------------------------------------------------------------
(* Streams.                                                                *)

Over == {"finishing", "retired"}
Early == {"new", "lookup", "holding", "bounced", "refused", "channel", "heap", "admit", "prefill"}

\* What this round has still to send to a request.
Due(r) == IF phase = "emit" /\ r \in todo THEN out[r].n ELSE 0

\* Before the batch decodes it a request has been sent nothing, before it ends nothing but
\* tokens, and what its round has still to send fits what it may generate; then at most one
\* event, which is missing only if its caller gave it up.
StreamOK(r) ==
    /\ where[r] \in Early => stream[r] = <<>>
    /\ where[r] \notin Over => /\ \A i \in 1..Len(stream[r]) : stream[r][i] = "token"
                              /\ Len(stream[r]) <= MaxTokens
    /\ where[r] = "active" => Len(stream[r]) + Due(r) <= MaxTokens
    /\ Len(stream[r]) <= MaxTokens + 1
    /\ \A i \in 1..(Len(stream[r]) - 1) : stream[r][i] = "token"
    /\ Ended(r) => where[r] \in Over
    /\ where[r] \in Over /\ ~Cancelled(r) => Ended(r)

SInv == \A r \in Req : StreamOK(r)

\* A stream is a sequence, and the bound on its tokens a number.
LEMMA StreamTypes ==
  ASSUME IInv, NEW r \in Req
  PROVE  /\ stream[r] \in Seq(Event) /\ Len(stream[r]) \in Nat
         /\ MaxTokens \in Nat /\ out[r].n \in 0..MaxTokens
<1>1. MaxTokens \in Nat
  BY SchedulerAssumption DEF SchedulerAssumption
<1>2. stream[r] \in Seq(Event) /\ out[r].n \in 0..MaxTokens
  BY DEF IInv, TypesOK
<1> QED
  BY <1>1, <1>2

\* A round that begins leaves room for what it has to send.
LEMMA DecodeRoom ==
  ASSUME IInv, SInv, Decode, NEW r \in Req, where[r] = "active"
  PROVE  Len(stream'[r]) + Due(r)' <= MaxTokens
<1>1. PICK round \in [In("active") -> UNION {Round(q) : q \in In("active")}] :
         /\ \A q \in In("active") : round[q] \in Round(q)
         /\ out' = [q \in Req |-> IF q \in In("active") THEN round[q] ELSE out[q]]
  BY DEF Decode
<1>2. r \in In("active") /\ stream' = stream
  BY DEF In, Decode
<1>3. out'[r] \in Round(r)
  BY <1>1, <1>2
<1>4. out'[r].n \in 0..(MaxTokens - Len(stream[r]))
  BY <1>3 DEF Round
<1>5. Len(stream[r]) \in Nat /\ MaxTokens \in Nat /\ Len(stream[r]) <= MaxTokens
  BY StreamTypes DEF SInv, StreamOK, Over
<1>6. out'[r].n \in Nat /\ Len(stream[r]) + out'[r].n <= MaxTokens
  BY <1>4, <1>5
<1> QED
  BY <1>2, <1>5, <1>6 DEF Due

\* Nothing else makes a round longer.
LEMMA DueShrinks ==
  ASSUME IInv, [Next]_vars, ~Decode, NEW r \in Req
  PROVE  Due(r)' <= Due(r) /\ Due(r) \in Nat /\ Due(r)' \in Nat
<1>1. /\ MaxTokens \in Nat /\ out[r].n \in 0..MaxTokens
      /\ out'[r].n \in 0..MaxTokens
  <2>1. IInv'
    BY NextIInv
  <2> QED
    BY <2>1, StreamTypes DEF IInv, TypesOK
<1>2. CASE phase' # "emit"
  BY <1>1, <1>2 DEF Due
<1>3. CASE phase' = "emit"
  <2>1. phase = "emit" /\ todo' \subseteq todo
    BY <1>3, LoopMoves DEF Next, Loop, Quiet, vars, loopVars,
       SubmitStep, Lookup, Acquire, RateLimited, Enqueue, Busy, Bounce, Submitted,
       ClientStep, Cancel, Hangup, Expire,
       RequestStep, Drain, Purge, Admit, Start, Prefill, Check, EmitToken, EmitEnd, Release,
       Unwind, At, Goto,
       PhaseStep, Panic, Drained, Purged, Admitted, Started, Prefilled, Rest, Emitted, Unwound
  <2>2. \/ out' = out
        \/ \E q \in Req : out' = [out EXCEPT ![q] = [n |-> 0, stop |-> FALSE]]
        \/ \E q \in Req : out' = [out EXCEPT ![q].n = @ - 1]
    BY DEF Next, Loop, Quiet, vars,
       SubmitStep, Lookup, Acquire, RateLimited, Enqueue, Busy, Bounce, Submitted,
       ClientStep, Cancel, Hangup, Expire, Drop,
       RequestStep, Drain, Purge, Admit, Start, Prefill, Check, EmitToken, EmitEnd, Release,
       Unwind,
       PhaseStep, Panic, Drained, Purged, Admitted, Started, Prefilled, Rest, Emitted, Unwound
  <2>3. out'[r].n <= out[r].n
    <3>1. CASE out' = out
      BY <1>1, <3>1
    <3>2. ASSUME NEW q \in Req, out' = [out EXCEPT ![q] = [n |-> 0, stop |-> FALSE]]
          PROVE  out'[r].n <= out[r].n
      BY <1>1, <3>2 DEF IInv, TypesOK
    <3>3. ASSUME NEW q \in Req, out' = [out EXCEPT ![q].n = @ - 1]
          PROVE  out'[r].n <= out[r].n
      BY <1>1, <3>3 DEF IInv, TypesOK
    <3> QED
      BY <2>2, <3>1, <3>2, <3>3
  <2> QED
    BY <1>1, <2>1, <2>3 DEF Due
<1> QED
  BY <1>2, <1>3

\* A request nothing is sent to and that stays where it is keeps to the invariant.
LEMMA StreamStays ==
  ASSUME IInv, SInv, [Next]_vars, NEW r \in Req,
         stream'[r] = stream[r], where'[r] = where[r], Cancelled(r) => Cancelled(r)'
  PROVE  StreamOK(r)'
<1>1. where'[r] = "active" => Len(stream'[r]) + Due(r)' <= MaxTokens
  <2>1. CASE Decode
    BY <2>1, DecodeRoom
  <2>2. CASE ~Decode
    <3>1. Len(stream[r]) \in Nat /\ MaxTokens \in Nat
      BY StreamTypes
    <3>2. Due(r)' <= Due(r) /\ Due(r) \in Nat /\ Due(r)' \in Nat
      BY <2>2, DueShrinks
    <3>3. where[r] = "active" => Len(stream[r]) + Due(r) <= MaxTokens
      BY DEF SInv, StreamOK
    <3> QED
      BY <3>1, <3>2, <3>3
  <2> QED
    BY <2>1, <2>2
<1> QED
  BY <1>1 DEF SInv, StreamOK, Ended

\* The end of a request is the end of its stream.
LEMMA EndsStream ==
  ASSUME IInv, SInv, NEW r \in Req, Ends(r)
  PROVE  StreamOK(r)'
<1>1. /\ stream[r] \in Seq(Event) /\ Len(stream[r]) \in Nat /\ MaxTokens \in Nat
      /\ stream = [q \in Req |-> stream[q]] /\ where = [q \in Req |-> where[q]]
  BY StreamTypes DEF IInv, TypesOK
<1>2. /\ where'[r] = "finishing" /\ where[r] \notin Over /\ client' = client
      /\ \A i \in 1..Len(stream[r]) : stream[r][i] = "token"
      /\ Len(stream[r]) <= MaxTokens
  BY <1>1 DEF Ends, InFlight, Over, SInv, StreamOK
<1>3. CASE stream' = stream /\ Cancelled(r)
  BY <1>1, <1>2, <1>3 DEF StreamOK, Early, Over, Cancelled
<1>4. ASSUME NEW e \in Terminal, stream' = [stream EXCEPT ![r] = Append(@, e)]
      PROVE  StreamOK(r)'
  <2>1. /\ stream'[r] = Append(stream[r], e)
        /\ Len(stream'[r]) = Len(stream[r]) + 1 /\ stream'[r][Len(stream[r]) + 1] = e
        /\ \A i \in 1..Len(stream[r]) : stream'[r][i] = stream[r][i]
    BY <1>1, <1>4
  <2>2. Ended(r)'
    BY <1>1, <2>1 DEF Ended
  <2>3. \A i \in 1..(Len(stream'[r]) - 1) : stream'[r][i] = "token"
    BY <1>1, <1>2, <2>1
  <2> QED
    BY <1>1, <1>2, <2>1, <2>2, <2>3 DEF StreamOK, Early, Over
<1> QED
  BY <1>3, <1>4 DEF Ends

\* A token is one that the round had room for.
LEMMA EmitsStream ==
  ASSUME IInv, SInv, NEW r \in Req, Emits(r)
  PROVE  StreamOK(r)'
<1>1. /\ stream[r] \in Seq(Event) /\ Len(stream[r]) \in Nat /\ MaxTokens \in Nat
      /\ out[r].n \in 0..MaxTokens
      /\ stream = [q \in Req |-> stream[q]] /\ out = [q \in Req |-> out[q]]
  BY StreamTypes DEF IInv, TypesOK
<1>2. /\ where'[r] = "active" /\ where[r] = "active" /\ out[r].n > 0
      /\ \A i \in 1..Len(stream[r]) : stream[r][i] = "token"
      /\ Len(stream[r]) + out[r].n <= MaxTokens
  BY DEF Emits, Over, Due, SInv, StreamOK
<1>3. Due(r)' = out[r].n - 1
  <2>1. out'[r] = [out[r] EXCEPT !.n = @ - 1]
    BY <1>1 DEF Emits
  <2> QED
    BY <2>1 DEF Emits, Due, IInv, TypesOK
<1>4. /\ Len(stream'[r]) = Len(stream[r]) + 1
      /\ \A i \in 1..Len(stream'[r]) : stream'[r][i] = "token"
  <2>1. stream'[r] = Append(stream[r], "token")
    BY <1>1 DEF Emits
  <2> QED
    BY <1>1, <1>2, <2>1
<1>5. ~Ended(r)'
  BY <1>1, <1>4 DEF Ended, Terminal
<1> QED
  BY <1>1, <1>2, <1>3, <1>4, <1>5 DEF StreamOK, Early, Over

\* A request refused or moved on has the stream it had.
LEMMA MovesStream ==
  ASSUME IInv, SInv, [Next]_vars, NEW r \in Req, Refuses(r) \/ Moves(r)
  PROVE  StreamOK(r)'
<1>1. PICK place \in Place :
         /\ where' = [where EXCEPT ![r] = place]
         /\ <<where[r], place>> \in Onward \cup {<<"lookup", "refused">>, <<"holding", "bounced">>}
  BY Places DEF Refuses, Moves
<1>2. where'[r] = place /\ stream' = stream /\ client' = client
  BY <1>1 DEF Refuses, Moves, IInv, TypesOK
<1>3. Len(stream[r]) \in Nat /\ MaxTokens \in Nat
  BY StreamTypes
<1>4. CASE place = "active"
  <2>1. where[r] = "prefill"
    BY <1>1, <1>4 DEF Onward
  <2>2. stream[r] = <<>> /\ Len(stream[r]) = 0 /\ ~Ended(r)'
    BY <1>2, <2>1 DEF SInv, StreamOK, Early, Ended
  <2>3. Due(r) = 0
    BY <2>1 DEF Due, IInv, TodoOK
  <2>4. ~Decode
    BY <1>2, <1>4, <2>1 DEF Decode
  <2>5. Due(r)' = 0
    BY <2>3, <2>4, DueShrinks
  <2> QED
    BY <1>2, <1>3, <1>4, <2>2, <2>5 DEF StreamOK, Early, Over
<1>5. CASE place # "active"
  <2>1. /\ place \in Early => where[r] \in Early
        /\ place \in Over => where[r] \in Over
        /\ place \notin Over => where[r] \notin Over
    BY <1>1, <1>5 DEF Onward, Early, Over
  <2> QED
    BY <1>2, <1>3, <1>5, <2>1 DEF SInv, StreamOK, Ended, Cancelled
<1> QED
  BY <1>4, <1>5

\* Every step keeps every stream.
LEMMA StreamStep ==
  ASSUME IInv, SInv, [Next]_vars
  PROVE  SInv'
<1> SUFFICES ASSUME NEW q \in Req PROVE StreamOK(q)'
  BY DEF SInv
<1>1. where = [p \in Req |-> where[p]] /\ stream = [p \in Req |-> stream[p]]
      /\ client = [p \in Req |-> client[p]]
  BY DEF IInv, TypesOK
<1>2. ASSUME NEW r \in Req, Ends(r) \/ Emits(r) \/ Refuses(r) \/ Moves(r)
      PROVE  StreamOK(q)'
  <2>1. CASE q = r
    BY <1>2, <2>1, EndsStream, EmitsStream, MovesStream
  <2>2. CASE q # r
    <3>1. stream'[q] = stream[q] /\ where'[q] = where[q] /\ client' = client
      BY <1>1, <1>2, <2>2 DEF Ends, Emits, Refuses, Moves
    <3> QED
      BY <3>1, StreamStays DEF Cancelled
  <2> QED
    BY <2>1, <2>2
<1>3. ASSUME NEW r \in Req, Submitted(r) \/ Cancel(r) \/ Hangup(r)
      PROVE  StreamOK(q)'
  <2>1. stream' = stream /\ where' = where
    BY <1>3 DEF Submitted, Cancel, Hangup
  <2>2. Cancelled(q) => Cancelled(q)'
    BY <1>1, <1>3 DEF Submitted, Cancel, Hangup, Cancelled
  <2> QED
    BY <2>1, <2>2, StreamStays
<1>4. CASE UNCHANGED <<where, client, stream, tally>>
  BY <1>4, StreamStays DEF Cancelled
<1> QED
  BY <1>2, <1>3, <1>4, Deeds

\* Nothing has been sent to begin with.
LEMMA StreamInit == Init => SInv
<1> SUFFICES ASSUME Init, NEW r \in Req PROVE StreamOK(r)
  BY DEF SInv
<1>1. MaxTokens \in Nat
  BY SchedulerAssumption DEF SchedulerAssumption
<1>2. stream[r] = <<>> /\ Len(stream[r]) = 0 /\ where[r] = "new"
  BY DEF Init
<1> QED
  BY <1>1, <1>2 DEF StreamOK, Ended, Over

\* The streams are in every state as they should be.
THEOREM StreamsAlways == Spec => []SInv
  BY StreamInit, StreamStep, Inductive, PTL DEF Spec

\* Every variable keeps its type, and no stream ever outgrows the tokens its request may
\* generate and its end, however many a speculative round has to send at once.
THEOREM TypeOKAlways == Spec => []TypeOK
<1>1. IInv /\ SInv => TypeOK
  BY DEF IInv, SInv, StreamOK, TypeOK
<1> QED
  BY <1>1, StreamsAlways, Inductive, PTL

\* A request that ends while its caller still wants it says so, once and last, on every
\* path: decoded to its end, failed to start or to prefill, too late, cancelled.
THEOREM StreamsEndAlways == Spec => []StreamsEnd
<1>1. SInv => StreamsEnd
  BY DEF SInv, StreamOK, StreamsEnd, Over
<1> QED
  BY <1>1, StreamsAlways, PTL

-----------------------------------------------------------------------------
(* Counters.                                                               *)

Done == In("finishing") \cup In("retired")
Taken == {r \in Req : client[r] # "none"}
Turned == In("bounced") \cup In("refused")

\* A set of requests has a size, and one more with a request that was not in it.
LEMMA OneMoreRequest ==
  ASSUME NEW S \in SUBSET Req, NEW r \in Req, r \notin S
  PROVE  Cardinality(S) \in Nat /\ Cardinality(S \cup {r}) = Cardinality(S) + 1
<1>1. IsFiniteSet(S)
  BY SchedulerAssumption, FS_Subset DEF SchedulerAssumption
<1> QED
  BY <1>1, FS_CardinalityType, FS_AddElement

\* Counting an event raises its counter by one, and no other.
LEMMA Bumped ==
  ASSUME IInv, NEW k \in Counter, tally' = Bump(k)
  PROVE  /\ \A d \in Counter : tally[d] \in Nat
         /\ \A d \in Counter : tally'[d] = IF d = k THEN tally[d] + 1 ELSE tally[d]
  BY DEF Bump, IInv, TypesOK

\* A request that ends is one more that is done, and counted so.
LEMMA EndsCounted ==
  ASSUME IInv, CountersBalance, NEW r \in Req, Ends(r)
  PROVE  CountersBalance'
<1>1. PICK k \in Outcome : tally' = Bump(k)
  BY DEF Ends
<1>2. Outcome \subseteq Counter
  BY Counters DEF Outcome
<1>3. /\ \A d \in Counter : tally[d] \in Nat
      /\ \A d \in Counter : tally'[d] = IF d = k THEN tally[d] + 1 ELSE tally[d]
  BY <1>1, <1>2, Bumped
<1>4. Done' = Done \cup {r} /\ r \notin Done /\ Done \subseteq Req
  BY DEF Done, In, Ends, InFlight, IInv, TypesOK
<1>5. Cardinality(Done) \in Nat /\ Cardinality(Done') = Cardinality(Done) + 1
  BY <1>4, OneMoreRequest
<1>6. Taken' = Taken /\ Turned' = Turned
  BY DEF Taken, Turned, In, Ends, InFlight, IInv, TypesOK
<1>7. tally'["completed"] + tally'["cancelled"] + tally'["timed_out"] + tally'["failed"]
        = (tally["completed"] + tally["cancelled"] + tally["timed_out"] + tally["failed"]) + 1
  BY <1>3, Counters DEF Outcome
<1>8. /\ tally'["submitted"] = tally["submitted"]
      /\ tally'["rejected_busy"] = tally["rejected_busy"]
      /\ tally'["rejected_rate_limit"] = tally["rejected_rate_limit"]
  BY <1>3, Counters DEF Outcome
<1> QED
  BY <1>5, <1>6, <1>7, <1>8 DEF CountersBalance, Done, Taken, Turned

\* A submission refused is one more that is turned away, and counted so.
LEMMA RefusesCounted ==
  ASSUME IInv, CountersBalance, NEW r \in Req, Refuses(r)
  PROVE  CountersBalance'
<1>1. PICK k \in {"rejected_busy", "rejected_rate_limit"} : tally' = Bump(k)
  BY DEF Refuses
<1>2. k \in Counter
  BY Counters
<1>3. /\ \A d \in Counter : tally[d] \in Nat
      /\ \A d \in Counter : tally'[d] = IF d = k THEN tally[d] + 1 ELSE tally[d]
  BY <1>1, <1>2, Bumped
<1>4. Turned' = Turned \cup {r} /\ r \notin Turned /\ Turned \subseteq Req
  BY DEF Turned, In, Refuses, IInv, TypesOK
<1>5. Cardinality(Turned) \in Nat /\ Cardinality(Turned') = Cardinality(Turned) + 1
  BY <1>4, OneMoreRequest
<1>6. Taken' = Taken /\ Done' = Done
  BY DEF Taken, Done, In, Refuses, IInv, TypesOK
<1>7. tally'["rejected_busy"] + tally'["rejected_rate_limit"]
        = (tally["rejected_busy"] + tally["rejected_rate_limit"]) + 1
  BY <1>3, Counters
<1>8. /\ tally'["submitted"] = tally["submitted"]
      /\ tally'["completed"] = tally["completed"] /\ tally'["cancelled"] = tally["cancelled"]
      /\ tally'["timed_out"] = tally["timed_out"] /\ tally'["failed"] = tally["failed"]
  BY <1>3, Counters
<1> QED
  BY <1>5, <1>6, <1>7, <1>8 DEF CountersBalance, Done, Taken, Turned

\* A Handle returned is one more, and counted so.
LEMMA SubmittedCounted ==
  ASSUME IInv, CountersBalance, NEW r \in Req, Submitted(r)
  PROVE  CountersBalance'
<1>1. tally' = Bump("submitted") /\ "submitted" \in Counter
  BY Counters DEF Submitted
<1>2. /\ \A d \in Counter : tally[d] \in Nat
      /\ \A d \in Counter : tally'[d] = IF d = "submitted" THEN tally[d] + 1 ELSE tally[d]
  BY <1>1, Bumped
<1>3. Taken' = Taken \cup {r} /\ r \notin Taken /\ Taken \subseteq Req
  BY DEF Taken, Submitted, IInv, TypesOK
<1>4. Cardinality(Taken) \in Nat /\ Cardinality(Taken') = Cardinality(Taken) + 1
  BY <1>3, OneMoreRequest
<1>5. Done' = Done /\ Turned' = Turned
  BY DEF Done, Turned, In, Submitted
<1>6. tally'["submitted"] = tally["submitted"] + 1
  BY <1>2, Counters
<1>7. \A d \in Counter \ {"submitted"} : tally'[d] = tally[d]
  BY <1>2
<1> QED
  BY <1>4, <1>5, <1>6, <1>7, Counters DEF CountersBalance, Done, Taken, Turned

\* A step that counts nothing ends, turns away and hands out nothing.
LEMMA OthersCounted ==
  ASSUME IInv, CountersBalance, tally' = tally,
         \/ \E r \in Req : Emits(r) \/ Moves(r) \/ Cancel(r) \/ Hangup(r)
         \/ UNCHANGED <<where, client>>
  PROVE  CountersBalance'
<1>1. ASSUME NEW r \in Req, Moves(r)
      PROVE  Done' = Done /\ Taken' = Taken /\ Turned' = Turned
  BY <1>1 DEF Done, Taken, Turned, In, Moves, Onward, IInv, TypesOK
<1>2. ASSUME NEW r \in Req, Emits(r) \/ Cancel(r) \/ Hangup(r)
      PROVE  Done' = Done /\ Taken' = Taken /\ Turned' = Turned
  BY <1>2 DEF Done, Taken, Turned, In, Emits, Cancel, Hangup, IInv, TypesOK
<1>3. CASE UNCHANGED <<where, client>>
  BY <1>3 DEF CountersBalance, In
<1> QED
  BY <1>1, <1>2, <1>3 DEF CountersBalance, Done, Taken, Turned

\* Every request that ended is counted once, on whichever path, every Handle handed out
\* is, and every submission refused is: no interleaving of callers and loop loses one.
THEOREM CountersAlwaysBalance == Spec => []CountersBalance
<1>1. Init => CountersBalance
  <2> SUFFICES ASSUME Init PROVE CountersBalance
    OBVIOUS
  <2>1. Done = {} /\ Taken = {} /\ Turned = {}
    BY DEF Init, Done, Taken, Turned, In
  <2>2. \A k \in Counter : tally[k] = 0
    BY DEF Init
  <2> QED
    BY <2>1, <2>2, Counters, FS_EmptySet DEF CountersBalance, Done, Taken, Turned
<1>2. IInv /\ CountersBalance /\ [Next]_vars => CountersBalance'
  <2> SUFFICES ASSUME IInv, CountersBalance, [Next]_vars PROVE CountersBalance'
    OBVIOUS
  <2>1. \A r \in Req : Emits(r) \/ Moves(r) \/ Cancel(r) \/ Hangup(r) => tally' = tally
    BY DEF Emits, Moves, Cancel, Hangup
  <2> QED
    BY <2>1, Deeds, EndsCounted, RefusesCounted, SubmittedCounted, OthersCounted
<1> QED
  BY <1>1, <1>2, Inductive, PTL DEF Spec

-----------------------------------------------------------------------------
(* The service.                                                            *)

Wanted == [r \in Req |-> ~Cancelled(r)]

\* How a place looks from outside.
Seen(place) ==
    CASE place \in {"new", "lookup"} -> "outside"
      [] place \in {"holding", "channel", "heap"} -> "waiting"
      [] place \in {"admit", "prefill", "active"} -> "running"
      [] place = "finishing" -> "ended"
      [] place = "retired" -> "left"
      [] place \in {"bounced", "refused"} -> "refused"
      [] OTHER -> "crashed"

\* The places as the service sees them, now and after a step.
LEMMA SeenStatus ==
  ASSUME NEW r \in Req
  PROVE  Status[r] = Seen(where[r]) /\ Status'[r] = Seen(where'[r])
  BY DEF Status, Seen

\* What each place is seen as.
LEMMA SeenPlaces ==
    /\ Seen("new") = "outside" /\ Seen("lookup") = "outside"
    /\ Seen("holding") = "waiting" /\ Seen("channel") = "waiting" /\ Seen("heap") = "waiting"
    /\ Seen("admit") = "running" /\ Seen("prefill") = "running" /\ Seen("active") = "running"
    /\ Seen("finishing") = "ended" /\ Seen("retired") = "left"
    /\ Seen("bounced") = "refused" /\ Seen("refused") = "refused" /\ Seen("lost") = "crashed"
  BY DEF Seen

\* A step that moves one request changes what is seen of that request only.
LEMMA MovedStatus ==
  ASSUME IInv, NEW r \in Req, NEW place \in Place, where' = [where EXCEPT ![r] = place],
         NEW there, Seen(place) = there
  PROVE  /\ Status[r] = Seen(where[r])
         /\ Status' = [Status EXCEPT ![r] = there]
<1>1. \A q \in Req : where'[q] = IF q = r THEN place ELSE where[q]
  BY DEF IInv, TypesOK
<1>2. \A q \in Req : Status[q] = Seen(where[q]) /\ Status'[q] = Seen(where'[q])
  BY SeenStatus
<1>3. Status = [q \in Req |-> Status[q]] /\ Status' = [q \in Req |-> Status'[q]]
  BY DEF Status
<1> QED
  BY <1>1, <1>2, <1>3

\* A step that moves nothing changes nothing that is seen.
LEMMA StillStatus ==
  ASSUME where' = where
  PROVE  Status' = Status
  BY DEF Status

\* What runs is the batch.
LEMMA RunningBatch ==
  ASSUME IInv
  PROVE  Service!Running = Batch
<1>1. \A r \in Req : Seen(where[r]) = "running" <=> where[r] \in {"admit", "prefill", "active"}
  BY DEF Seen
<1>2. \A r \in Req : Status[r] = "running" <=> where[r] \in {"admit", "prefill", "active"}
  BY <1>1, SeenStatus
<1> QED
  BY <1>2 DEF Service!Running, Batch, In

\* What the service counts of a user own permits.
LEMMA InsideHolds ==
  ASSUME NEW u \in User
  PROVE  Service!OfUser(u) \subseteq HoldersOf(u)
<1>1. \A r \in Req : Seen(where[r]) \in {"waiting", "running", "ended"} => where[r] \in HolderPlaces
  BY DEF Seen, HolderPlaces
<1>2. \A r \in Req : Status[r] \in {"waiting", "running", "ended"} => where[r] \in HolderPlaces
  BY <1>1, SeenStatus
<1> QED
  BY <1>2 DEF Service!OfUser, Service!Inside, HoldersOf

\* The service counts as the scheduler does.
LEMMA ServiceCounts ==
  ASSUME NEW S
  PROVE  Service!Cardinality(S) = Cardinality(S)
  BY DEF Service!Cardinality, Cardinality

\* A permit taken is a place in the user's quota: the limit holds after the step.
LEMMA HoldingAccepts ==
  ASSUME IInv, UserLimit', NEW r \in Req, where[r] = "lookup",
         where' = [where EXCEPT ![r] = "holding"], UNCHANGED <<client, stream>>
  PROVE  Service!Accept(r)
<1> DEFINE u == userOf[r]
<1>1. u \in User /\ MaxPerUser \in Nat
  BY SchedulerAssumption DEF SchedulerAssumption
<1>2. Status[r] = "outside" /\ Status' = [Status EXCEPT ![r] = "waiting"]
  <2>1. "holding" \in Place /\ Seen("holding") = "waiting" /\ Seen("lookup") = "outside"
    BY Places, SeenPlaces
  <2> QED
    BY <1>1, <2>1, MovedStatus
<1>3. /\ Service!OfUser(u) \in SUBSET Req /\ r \notin Service!OfUser(u)
      /\ Service!OfUser(u) \cup {r} \subseteq HoldersOf(u)'
  <2>1. HoldersOf(u)' = {q \in Req : userOf[q] = u /\ where'[q] \in HolderPlaces}
    BY DEF HoldersOf, HolderPlaces
  <2>2. HoldersOf(u) \cup {r} \subseteq HoldersOf(u)'
    BY <1>1, <2>1 DEF HoldersOf, HolderPlaces, IInv, TypesOK
  <2> QED
    BY <1>1, <1>2, <2>2, InsideHolds DEF Service!OfUser, Service!Inside
<1>4. /\ Cardinality(Service!OfUser(u)) \in Nat
      /\ Cardinality(Service!OfUser(u) \cup {r}) = Cardinality(Service!OfUser(u)) + 1
  BY <1>3, OneMoreRequest
<1>5. /\ Cardinality(Service!OfUser(u) \cup {r}) <= Cardinality(HoldersOf(u)')
      /\ Cardinality(HoldersOf(u)') \in Nat
  <2>1. HoldersOf(u)' \subseteq Req
    BY DEF HoldersOf
  <2>2. IsFiniteSet(HoldersOf(u)')
    BY <2>1, SchedulerAssumption, FS_Subset DEF SchedulerAssumption
  <2> QED
    BY <1>3, <2>2, FS_Subset, FS_CardinalityType
<1>6. Cardinality(HoldersOf(u)') <= MaxPerUser
  BY <1>1 DEF UserLimit
<1>7. Cardinality(Service!OfUser(u)) < MaxPerUser
  BY <1>1, <1>4, <1>5, <1>6
<1>8. Wanted' = Wanted
  BY <1>1 DEF Wanted, Cancelled
<1> QED
  BY <1>1, <1>2, <1>7, <1>8, ServiceCounts DEF Service!Accept, Wanted

\* An end is an end of the service.
LEMMA EndsEnd ==
  ASSUME IInv, NEW r \in Req, Ends(r)
  PROVE  Service!End(r)
<1>1. /\ where[r] \in InFlight /\ where' = [where EXCEPT ![r] = "finishing"] /\ client' = client
  BY DEF Ends
<1>2. Status[r] \in {"waiting", "running"} /\ Status' = [Status EXCEPT ![r] = "ended"]
  <2>1. "finishing" \in Place /\ Seen("finishing") = "ended"
    BY Places, SeenPlaces
  <2>2. Seen(where[r]) \in {"waiting", "running"}
    BY <1>1, SeenPlaces DEF InFlight
  <2> QED
    BY <1>1, <2>1, <2>2, MovedStatus
<1>3. where[r] \in BatchPlaces => Status[r] = "running"
  BY SeenStatus, SeenPlaces DEF BatchPlaces
<1>4. Wanted[r] = ~Cancelled(r) /\ Wanted' = Wanted
  BY <1>1 DEF Wanted, Cancelled
<1>5. CASE stream' = stream /\ Cancelled(r)
  BY <1>2, <1>4, <1>5 DEF Service!End, Wanted
<1>6. ASSUME NEW e \in Terminal, e = "cancelled" => Cancelled(r), where[r] \in BatchPlaces,
             stream' = [stream EXCEPT ![r] = Append(@, e)]
      PROVE  Service!End(r)
  BY <1>2, <1>3, <1>4, <1>6 DEF Service!End, Terminal, Wanted
<1> QED
  BY <1>5, <1>6 DEF Ends


\* A request admitted runs in a slot that was free: the limit holds after the step.
LEMMA AdmitRuns ==
  ASSUME IInv, SlotLimit', NEW r \in Req, where[r] = "heap", ~Cancelled(r),
         where' = [where EXCEPT ![r] = "admit"], UNCHANGED <<client, stream>>
  PROVE  Service!Run(r)
<1>1. Status[r] = "waiting" /\ Status' = [Status EXCEPT ![r] = "running"]
  <2>1. "admit" \in Place /\ Seen("heap") = "waiting" /\ Seen("admit") = "running"
    BY Places, SeenPlaces
  <2> QED
    BY <2>1, MovedStatus
<1>2. Batch' = Batch \cup {r} /\ r \notin Batch /\ Batch \in SUBSET Req
  BY DEF Batch, In, IInv, TypesOK
<1>3. Cardinality(Batch) \in Nat /\ Cardinality(Batch') = Cardinality(Batch) + 1
  BY <1>2, OneMoreRequest
<1>4. MaxActive \in Nat /\ MaxActive' = MaxActive
  BY SchedulerAssumption DEF SchedulerAssumption, MaxActive
<1>5. Cardinality(Batch) < MaxActive
  BY <1>3, <1>4 DEF SlotLimit
<1>6. Wanted[r] /\ Wanted' = Wanted
  BY DEF Wanted, Cancelled
<1> QED
  BY <1>1, <1>5, <1>6, RunningBatch, ServiceCounts DEF Service!Run, Wanted

\* A request moved on is accepted, runs, leaves or crashes, or is seen where it was.
LEMMA MovesOn ==
  ASSUME IInv, SlotLimit', UserLimit', NEW r \in Req, Moves(r)
  PROVE  Service!Next \/ UNCHANGED Service!vars
<1>1. PICK place \in Place : /\ <<where[r], place>> \in Onward
                             /\ where' = [where EXCEPT ![r] = place]
                             /\ place = "admit" => ~Cancelled(r)
  BY DEF Moves
<1>2. UNCHANGED <<client, stream>> /\ Wanted' = Wanted
  BY DEF Moves, Wanted, Cancelled
<1>3. Status[r] = Seen(where[r]) /\ Status' = [Status EXCEPT ![r] = Seen(place)]
  BY <1>1, MovedStatus
<1>4. CASE where[r] = "lookup" /\ place = "holding"
  BY <1>1, <1>2, <1>4, HoldingAccepts DEF Service!Next
<1>5. CASE where[r] = "heap" /\ place = "admit"
  BY <1>1, <1>2, <1>5, AdmitRuns DEF Service!Next
<1>6. CASE where[r] = "finishing" /\ place = "retired"
  <2>1. Service!Leave(r)
    BY <1>2, <1>3, <1>6, SeenPlaces DEF Service!Leave, Wanted
  <2> QED
    BY <2>1 DEF Service!Next
<1>7. CASE place = "lost"
  <2>1. where[r] \in {"admit", "prefill", "active"}
    BY <1>1, <1>7 DEF Onward
  <2>2. Service!Crash(r)
    BY <1>2, <1>3, <1>7, <2>1, SeenPlaces DEF Service!Crash, Wanted
  <2> QED
    BY <2>2 DEF Service!Next
<1>8. CASE <<where[r], place>> \in {<<"new", "lookup">>, <<"holding", "channel">>,
             <<"bounced", "refused">>, <<"channel", "heap">>, <<"admit", "prefill">>,
             <<"prefill", "active">>}
  <2>1. Seen(place) = Seen(where[r])
    BY <1>8, SeenPlaces
  <2>2. Status = [q \in Req |-> Status[q]]
    BY DEF Status
  <2>3. Status' = Status
    BY <1>3, <2>1, <2>2
  <2> QED
    BY <1>2, <2>3 DEF Service!vars, Wanted
<1> QED
  BY <1>1, <1>4, <1>5, <1>6, <1>7, <1>8 DEF Onward

\* A refusal is one of the service, before or after the request took a permit.
LEMMA RefusesRefuse ==
  ASSUME IInv, NEW r \in Req, Refuses(r)
  PROVE  Service!Refuse(r)
<1>1. PICK place \in {"refused", "bounced"} : where' = [where EXCEPT ![r] = place]
  BY DEF Refuses
<1>2. place \in Place /\ Seen(place) = "refused" /\ Seen(where[r]) \in {"outside", "waiting"}
  BY Places, SeenPlaces DEF Refuses
<1>3. Status[r] = Seen(where[r]) /\ Status' = [Status EXCEPT ![r] = "refused"]
  BY <1>1, <1>2, MovedStatus
<1>4. stream' = stream /\ Wanted' = Wanted
  BY DEF Refuses, Wanted, Cancelled
<1> QED
  BY <1>2, <1>3, <1>4 DEF Service!Refuse, Wanted

\* A token is sent to a request that runs.
LEMMA EmitsToken ==
  ASSUME IInv, NEW r \in Req, Emits(r)
  PROVE  Service!Token(r)
<1>1. Status[r] = "running" /\ Status' = Status
  BY SeenStatus, SeenPlaces, StillStatus DEF Emits
<1>2. Wanted' = Wanted
  BY DEF Emits, Wanted, Cancelled
<1> QED
  BY <1>1, <1>2 DEF Service!Token, Emits, Wanted

\* A caller gives up a request that waits or runs; hanging up then is nothing more.
LEMMA ClientsGiveUp ==
  ASSUME IInv, NEW r \in Req, Submitted(r) \/ Cancel(r) \/ Hangup(r)
  PROVE  Service!GiveUp(r) \/ UNCHANGED Service!vars
<1>1. where' = where /\ stream' = stream /\ Status' = Status
  BY StillStatus DEF Submitted, Cancel, Hangup
<1>2. client = [q \in Req |-> client[q]]
  BY DEF IInv, TypesOK
<1>3. CASE Cancel(r)
  <2>1. Status[r] \in {"waiting", "running"}
    BY <1>3, SeenStatus, SeenPlaces DEF Cancel, InFlight
  <2>2. Wanted' = [Wanted EXCEPT ![r] = FALSE]
    BY <1>2, <1>3 DEF Wanted, Cancelled, Cancel
  <2> QED
    BY <1>1, <2>1, <2>2 DEF Service!GiveUp, Wanted
<1>4. CASE Submitted(r) \/ Hangup(r)
  <2>1. Wanted' = Wanted
    BY <1>2, <1>4 DEF Wanted, Cancelled, Submitted, Hangup
  <2> QED
    BY <1>1, <2>1 DEF Service!vars, Wanted
<1> QED
  BY <1>3, <1>4

\* As long as there are no more users than USER_TABLE_HIGH_WATER, the scheduler with its
\* threads, channel, heap, batch, panics and permits is the service a caller sees: refused
\* or accepted within the quota, run within the slots, told once how it ended.
THEOREM ServiceImplemented ==
  ASSUME Cardinality(User) <= HighWater
  PROVE  Spec => ImplementsService
<1>1. Init => Service!Init
  <2> SUFFICES ASSUME Init PROVE Service!Init
    OBVIOUS
  <2>1. Status = [r \in Req |-> "outside"]
    BY SeenPlaces DEF Init, Status
  <2>2. Wanted = [r \in Req |-> TRUE]
    BY DEF Init, Wanted, Cancelled
  <2> QED
    BY <2>1, <2>2 DEF Init, Service!Init, Wanted
<1>2. IInv /\ SlotLimit' /\ UserLimit' /\ [Next]_vars => [Service!Next]_(Service!vars)
  <2> SUFFICES ASSUME IInv, SlotLimit', UserLimit', [Next]_vars
               PROVE  Service!Next \/ UNCHANGED Service!vars
    OBVIOUS
  <2>1. ASSUME NEW r \in Req, Ends(r) \/ Emits(r) \/ Refuses(r)
        PROVE  Service!Next
    BY <2>1, EndsEnd, EmitsToken, RefusesRefuse DEF Service!Next
  <2>2. ASSUME NEW r \in Req, Submitted(r) \/ Cancel(r) \/ Hangup(r)
        PROVE  Service!Next \/ UNCHANGED Service!vars
    BY <2>2, ClientsGiveUp DEF Service!Next
  <2>3. CASE UNCHANGED <<where, client, stream, tally>>
    <3>1. Wanted' = Wanted /\ Status' = Status
      BY <2>3, StillStatus DEF Wanted, Cancelled
    <3> QED
      BY <2>3, <3>1 DEF Service!vars, Wanted
  <2> QED
    BY <2>1, <2>2, <2>3, MovesOn, Deeds
<1> QED
  BY <1>1, <1>2, Inductive, SlotsNeverExceeded, UserLimitHolds, PTL
  DEF Spec, ImplementsService, Service!Spec

-----------------------------------------------------------------------------
(* Order.                                                                  *)

allVars == <<vars, ahead, overrun>>

\* The history variables change nothing of the scheduler.
LEMMA OrderSteps == OrderSpec => Spec
<1>1. OrderInit => Init
  BY DEF OrderInit
<1>2. [OrderNext]_allVars => [Next]_vars
  BY DEF OrderNext, allVars
<1> QED
  BY <1>1, <1>2, PTL DEF OrderSpec, Spec, allVars

Numbered == {"holding", "channel", "heap"}

\* Whoever was queued before a submission began has a lower number, and is out of the
\* channel when the loop stops draining it.
OrderOK ==
    /\ ahead \in [Req -> SUBSET Req]
    /\ \A s \in Req : where[s] = "new" => ahead[s] = {}
    /\ \A s \in Req : where[s] \in Numbered => seq[s] < nextSeq
    /\ \A s \in Req : \A r \in ahead[s] :
          /\ where[r] \notin {"new", "lookup", "holding"}
          /\ r \in Waiting /\ where[s] \in Numbered => seq[r] < seq[s]
          /\ where[s] = "heap" /\ where[r] = "channel" => phase = "collect"

\* Where a request can have come from.
LEMMA Travels ==
  ASSUME IInv, [Next]_vars, NEW r \in Req
  PROVE  /\ where'[r] = "new" => where[r] = "new"
         /\ where'[r] \in {"new", "lookup", "holding"} => where[r] \in {"new", "lookup", "holding"}
         /\ where'[r] = "holding" => where[r] = "holding" \/ Acquire(r)
         /\ where'[r] = "channel" => where[r] \in {"holding", "channel"}
         /\ where'[r] = "heap" /\ where[r] # "heap" =>
               where[r] = "channel" /\ phase = "collect" /\ phase' = "collect"
         /\ where'[r] = "admit" => where[r] = "admit" \/ Admit(r)
<1> USE DEF IInv, TypesOK
<1>1. CASE where' = where
  BY <1>1
<1>2. ASSUME NEW q \in Req, SubmitStep(q)
      PROVE  \/ where' = where
             \/ where' = [where EXCEPT ![q] = "lookup"] /\ where[q] = "new"
             \/ Acquire(q) /\ where' = [where EXCEPT ![q] = "holding"] /\ where[q] = "lookup"
             \/ where' = [where EXCEPT ![q] = "refused"]
             \/ where' = [where EXCEPT ![q] = "bounced"]
             \/ where' = [where EXCEPT ![q] = "channel"] /\ where[q] = "holding"
  BY <1>2 DEF SubmitStep, Lookup, Acquire, RateLimited, Enqueue, Busy, Bounce, Submitted, Drop
<1>3. CASE \E q \in Req : SubmitStep(q)
  BY <1>2, <1>3
<1>4. ASSUME NEW q \in Req, RequestStep(q)
      PROVE  \/ where' = where
             \/ Drain(q)
             \/ Admit(q)
             \/ \E place \in {"prefill", "active", "finishing", "retired", "lost"} :
                   where' = [where EXCEPT ![q] = place]
  <2> HIDE DEF IInv, TypesOK
  <2> DEFINE To(place) == where' = [where EXCEPT ![q] = place]
  <2>1. /\ Purge(q) => where' = where \/ To("finishing")
        /\ Release(q) => To("retired")
        /\ Unwind(q) => To("lost")
    BY DEF Purge, Release, Unwind, Drop, Finish
  <2>2. Start(q) => To("prefill") \/ To("finishing")
    BY DEF Start, Finish
  <2>3. Prefill(q) => where' = where \/ To("active") \/ To("finishing")
    BY DEF Prefill, Abandon, Finish
  <2>4. Check(q) => where' = where \/ To("finishing")
    BY DEF Check, Abandon, Finish
  <2>5. EmitToken(q) \/ EmitEnd(q) => where' = where \/ To("finishing")
    BY DEF EmitToken, EmitEnd, Finish
  <2> QED
    BY <1>4, <2>1, <2>2, <2>3, <2>4, <2>5 DEF RequestStep
<1>5. ASSUME NEW q \in Req, Drain(q)
      PROVE  /\ where' = [where EXCEPT ![q] = "heap"] /\ where[q] = "channel"
             /\ phase = "collect" /\ phase' = "collect"
  BY <1>5 DEF Drain, At, loopVars
<1>6. ASSUME NEW q \in Req, Admit(q)
      PROVE  where' = [where EXCEPT ![q] = "admit"] \/ where' = [where EXCEPT ![q] = "finishing"]
  BY <1>6, AdmitMoves
<1>7. CASE \E q \in Req : RequestStep(q)
  <2>1. PICK q \in Req : RequestStep(q)
    BY <1>7
  <2>2. CASE where' = where
    BY <2>2
  <2>3. CASE Drain(q)
    BY <1>5, <2>3
  <2>4. CASE Admit(q)
    BY <1>6, <2>4
  <2>5. CASE \E place \in {"prefill", "active", "finishing", "retired", "lost"} :
               where' = [where EXCEPT ![q] = place]
    BY <2>5
  <2> QED
    BY <1>4, <2>1, <2>2, <2>3, <2>4, <2>5
<1>8. CASE (\E q \in Req : ClientStep(q)) \/ PhaseStep \/ Panic \/ UNCHANGED vars
  <2>1. where' = where
    BY <1>8, StillMoves DEF ClientStep
  <2> QED
    BY <2>1, <1>1
<1> QED
  BY <1>3, <1>7, <1>8 DEF Next, Loop, Quiet

\* The loop stops draining when the channel is empty.
LEMMA DrainedEmpty ==
  ASSUME IInv, [Next]_vars, phase = "collect", phase' # "collect"
  PROVE  In("channel") = {} /\ where' = where
<1>1. PhaseStep
  BY DEF Next, Loop, Quiet, vars, loopVars,
     SubmitStep, Lookup, Acquire, RateLimited, Enqueue, Busy, Bounce, Submitted,
     ClientStep, Cancel, Hangup, Expire,
     RequestStep, Drain, Purge, Admit, Start, Prefill, Check, EmitToken, EmitEnd, Release,
     Unwind, At, Panic
<1> QED
  BY <1>1 DEF PhaseStep, Drained, Purged, Admitted, Started, Prefilled, Decode, Rest, Emitted,
     Unwound, At

\* What changes a number: taking a permit, and the drop of the request.
LEMMA NumbersChange ==
  ASSUME IInv, [Next]_vars, NEW r \in Req
  PROVE  /\ nextSeq \in Nat /\ nextSeq' \in Nat /\ nextSeq <= nextSeq'
         /\ where'[r] \in Numbered =>
               \/ where[r] \in Numbered /\ seq'[r] = seq[r]
               \/ /\ where[r] = "lookup" /\ where'[r] = "holding"
                  /\ seq'[r] = nextSeq /\ nextSeq' = nextSeq + 1
<1> USE DEF IInv, TypesOK
<1>1. nextSeq \in Nat
  OBVIOUS
<1>2. ASSUME NEW q \in Req, Acquire(q)
      PROVE  /\ nextSeq' = nextSeq + 1 /\ seq' = [seq EXCEPT ![q] = nextSeq]
             /\ where[q] = "lookup" /\ where' = [where EXCEPT ![q] = "holding"]
  BY <1>2 DEF Acquire
<1>3. CASE \E q \in Req : Acquire(q)
  BY <1>1, <1>2, <1>3
<1>4. ASSUME NEW q \in Req, NEW place \in {"refused", "retired", "lost"}, Drop(q, place),
             nextSeq' = nextSeq
      PROVE  where'[r] \in Numbered => where[r] \in Numbered /\ seq'[r] = seq[r]
  BY <1>4 DEF Drop, Numbered
<1>5. CASE \E q \in Req : Bounce(q) \/ Release(q) \/ Unwind(q)
  BY <1>1, <1>4, <1>5 DEF Bounce, Release, Unwind, callerVars
<1>6. CASE UNCHANGED <<seq, nextSeq>> /\ ~Acquire(r)
  BY <1>1, <1>6, Travels DEF Numbered
<1>7. \/ \E q \in Req : Acquire(q)
      \/ \E q \in Req : Bounce(q) \/ Release(q) \/ Unwind(q)
      \/ UNCHANGED <<seq, nextSeq>>
  BY DEF Next, Loop, Quiet, vars, callerVars,
     SubmitStep, Lookup, RateLimited, Enqueue, Busy, Submitted,
     ClientStep, Cancel, Hangup, Expire,
     RequestStep, Drain, Purge, Admit, Start, Prefill, Check, EmitToken, EmitEnd,
     PhaseStep, Panic, Drained, Purged, Admitted, Started, Prefilled, Decode, Rest, Emitted, Unwound
<1> QED
  BY <1>3, <1>5, <1>6, <1>7

\* Every step keeps the order.
LEMMA OrderStep ==
  ASSUME IInv, OrderOK, [OrderNext]_allVars
  PROVE  OrderOK'
<1>1. [Next]_vars /\ IInv'
  BY NextIInv DEF OrderNext, allVars
<1>2. \A s \in Req : ahead'[s] = IF Entering(s) THEN Waiting ELSE ahead[s]
  <2>1. CASE OrderNext
    BY <2>1 DEF OrderNext
  <2>2. CASE UNCHANGED allVars
    BY <2>2 DEF allVars, vars, Entering
  <2> QED
    BY <2>1, <2>2
<1>3. ahead' \in [Req -> SUBSET Req]
  <2>1. CASE OrderNext
    BY <2>1 DEF OrderNext, OrderOK, Waiting, In
  <2>2. CASE UNCHANGED allVars
    BY <2>2 DEF allVars, OrderOK
  <2> QED
    BY <2>1, <2>2
<1>4. ASSUME NEW s \in Req, where'[s] = "new"
      PROVE  ahead'[s] = {}
  BY <1>1, <1>2, <1>4, Travels DEF OrderOK, Entering
<1>5. ASSUME NEW s \in Req, where'[s] \in Numbered
      PROVE  seq'[s] < nextSeq'
  <2>1. seq[s] \in Nat /\ nextSeq \in Nat
    BY DEF IInv, TypesOK
  <2> QED
    BY <1>1, <1>5, <2>1, NumbersChange DEF OrderOK
<1>6. ASSUME NEW s \in Req, NEW r \in ahead'[s]
      PROVE  /\ r \in Req
             /\ where[r] \notin {"new", "lookup", "holding"}
             /\ r \in ahead[s] \/ Entering(s)
  BY <1>2, <1>6 DEF OrderOK, Waiting, In
<1>7. ASSUME NEW s \in Req, NEW r \in ahead'[s]
      PROVE  where'[r] \notin {"new", "lookup", "holding"}
  BY <1>1, <1>6, <1>7, Travels
<1>8. ASSUME NEW s \in Req, NEW r \in ahead'[s], r \in Waiting', where'[s] \in Numbered
      PROVE  seq'[r] < seq'[s]
  <2>1. r \in ahead[s] /\ r \in Req
    BY <1>6, <1>8 DEF Entering, Numbered
  <2>2. where'[r] \in Numbered /\ where'[r] # "holding"
    BY <1>8 DEF Waiting, In, Numbered
  <2>3. where[r] \in Numbered /\ seq'[r] = seq[r] /\ r \in Waiting
    <3>1. where[r] \in Numbered /\ seq'[r] = seq[r]
      BY <1>1, <2>1, <2>2, NumbersChange
    <3> QED
      BY <1>6, <2>1, <3>1 DEF Numbered, Waiting, In
  <2>4. seq[r] \in Nat /\ seq[s] \in Nat /\ nextSeq \in Nat /\ seq[r] < nextSeq
    BY <2>1, <2>3 DEF OrderOK, IInv, TypesOK
  <2>5. where[s] \in Numbered => seq[r] < seq[s]
    BY <2>1, <2>3 DEF OrderOK
  <2> QED
    BY <1>1, <1>8, <2>3, <2>4, <2>5, NumbersChange
<1>9. ASSUME NEW s \in Req, NEW r \in ahead'[s], where'[s] = "heap", where'[r] = "channel"
      PROVE  phase' = "collect"
  <2>1. r \in ahead[s] /\ where[r] = "channel"
    BY <1>1, <1>6, <1>9, Travels DEF Entering
  <2>2. CASE where[s] = "heap"
    BY <1>1, <1>6, <2>1, <2>2, DrainedEmpty DEF OrderOK, In
  <2> QED
    BY <1>1, <1>9, <2>2, Travels
<1> QED
  BY <1>3, <1>4, <1>5, <1>7, <1>8, <1>9 DEF OrderOK

\* A request is admitted only when it outranks all that waits, and the numbers are in the
\* order of submission: the priority heap never lets a later submission overtake an
\* earlier one that is as urgent, whatever the callers' threads do in between.
THEOREM NobodyOvertakes == OrderSpec => NoOvertaking
<1>1. OrderInit => OrderOK
  BY DEF OrderInit, Init, OrderOK, Numbered
<1>2. IInv /\ OrderOK /\ [OrderNext]_allVars => OrderOK'
  BY OrderStep
<1>3. IInv /\ OrderOK /\ [Next]_vars =>
        [\A s \in Req :
            where[s] = "heap" /\ where'[s] = "admit" =>
               \A r \in ahead[s] \cap Waiting : priorityOf[r] < priorityOf[s]]_vars
  <2> SUFFICES ASSUME IInv, OrderOK, [Next]_vars, NEW s \in Req, where[s] = "heap",
                      where'[s] = "admit", NEW r \in ahead[s] \cap Waiting
               PROVE  priorityOf[r] < priorityOf[s]
    OBVIOUS
  <2>1. Admit(s)
    BY Travels
  <2>2. r \in Req /\ where[r] = "heap"
    BY <2>1 DEF OrderOK, Waiting, In, Admit, At
  <2>3. seq[r] < seq[s] /\ seq[r] \in Nat /\ seq[s] \in Nat
    BY <2>2 DEF OrderOK, Numbered, IInv, TypesOK
  <2>4. priorityOf[r] \in Nat /\ priorityOf[s] \in Nat
    BY <2>2, SchedulerAssumption DEF SchedulerAssumption
  <2>5. r \in In("heap") \ {s}
    BY <2>2, <2>3 DEF In
  <2>6. Outranks(s, r)
    BY <2>1, <2>5 DEF Admit
  <2> QED
    BY <2>3, <2>4, <2>6 DEF Outranks
<1>4. OrderSpec => [](IInv /\ OrderOK)
  BY <1>1, <1>2, OrderSteps, Inductive, PTL DEF OrderSpec, allVars
<1>5. OrderSpec => [][\A s \in Req :
                       where[s] = "heap" /\ where'[s] = "admit" =>
                          \A r \in ahead[s] \cap Waiting : priorityOf[r] < priorityOf[s]]_vars
  BY <1>3, <1>4, OrderSteps, PTL DEF Spec
<1> QED
  BY <1>5 DEF NoOvertaking

-----------------------------------------------------------------------------
(* Cancellation.                                                           *)

\* What a stream got since its caller cancelled and what its round has still to send are
\* within one round; before the caller cancels, and once the loop has looked at the flag
\* and goes on, it is nothing.
CancelOK ==
    /\ overrun \in [Req -> Nat]
    /\ \A r \in Req :
          /\ overrun[r] + Due(r) <= Lookahead + 1
          /\ ~Cancelled(r) => overrun[r] = 0
          /\ phase = "check" /\ where[r] = "active" /\ r \notin todo => overrun[r] = 0

\* Only a round sends tokens.
LEMMA OverdueEmits ==
  ASSUME IInv, [Next]_vars, NEW r \in Req, Overdue(r)
  PROVE  Emits(r)
<1>1. /\ stream = [q \in Req |-> stream[q]] /\ stream[r] \in Seq(Event)
      /\ stream'[r] = Append(stream[r], "token")
  BY DEF IInv, TypesOK, Overdue
<1>2. stream'[r] # stream[r]
  BY <1>1
<1>3. ASSUME NEW q \in Req, Ends(q)
      PROVE  FALSE
  <2>1. PICK e \in Terminal : stream' = [stream EXCEPT ![q] = Append(@, e)]
    BY <1>2, <1>3 DEF Ends
  <2>2. q = r
    BY <1>1, <1>2, <2>1
  <2>3. Append(stream[r], e) = Append(stream[r], "token")
    BY <1>1, <2>1, <2>2
  <2>4. e = "token"
    BY <1>1, <2>3
  <2> QED
    BY <2>4 DEF Terminal
<1>4. ASSUME NEW q \in Req, Emits(q)
      PROVE  Emits(r)
  BY <1>1, <1>2, <1>4 DEF Emits
<1> QED
  BY <1>2, <1>3, <1>4, Deeds DEF Refuses, Moves, Submitted, Cancel, Hangup

\* A round gives a request no more than Lookahead + 1 tokens.
LEMMA DecodeDue ==
  ASSUME IInv, Decode, NEW r \in Req
  PROVE  /\ Due(r)' \in Nat /\ Due(r)' <= Lookahead + 1
         /\ Due(r)' > 0 => where[r] = "active" /\ phase = "check" /\ r \notin todo
<1>1. PICK round \in [In("active") -> UNION {Round(q) : q \in In("active")}] :
         /\ \A q \in In("active") : round[q] \in Round(q)
         /\ out' = [q \in Req |-> IF q \in In("active") THEN round[q] ELSE out[q]]
  BY DEF Decode
<1>2. Lookahead \in Nat
  BY SchedulerAssumption DEF SchedulerAssumption
<1>3. CASE r \in In("active")
  <2>1. out'[r] \in Round(r)
    BY <1>1, <1>3
  <2>2. out'[r].n \in Nat /\ out'[r].n <= Lookahead + 1
    <3>1. out'[r].n \in 0..(MaxTokens - Len(stream[r])) /\ out'[r].n <= Lookahead + 1
      BY <2>1 DEF Round
    <3> QED
      BY <3>1
  <2> QED
    BY <1>2, <1>3, <2>2 DEF Due, In, Decode, At
<1>4. CASE r \notin In("active")
  BY <1>2, <1>4 DEF Due, Decode, Goto
<1> QED
  BY <1>3, <1>4

\* Sending a token leaves one less to send.
LEMMA EmitsDue ==
  ASSUME IInv, NEW r \in Req, Emits(r)
  PROVE  Due(r) \in Nat /\ Due(r)' = Due(r) - 1
<1>1. out'[r] = [out[r] EXCEPT !.n = @ - 1]
  BY DEF Emits, IInv, TypesOK
<1>2. out[r].n \in Nat
  BY StreamTypes
<1> QED
  BY <1>1, <1>2 DEF Emits, Due, IInv, TypesOK

\* The loop goes on with a request it has looked at only if it was not given up by then.
LEMMA ChecksOn ==
  ASSUME IInv, [Next]_vars, NEW r \in Req, phase' = "check", where'[r] = "active", r \notin todo'
  PROVE  ~Cancelled(r) \/ (phase = "check" /\ where[r] = "active" /\ r \notin todo)
<1>1. CASE \E q \in Req : SubmitStep(q)
  BY <1>1, Places DEF SubmitStep, Lookup, Acquire, RateLimited, Enqueue, Busy, Bounce, Submitted,
     Drop, loopVars, IInv, TypesOK
<1>2. CASE \E q \in Req : ClientStep(q)
  BY <1>2 DEF ClientStep, Cancel, Hangup, Expire, loopVars
<1>3. ASSUME NEW q \in Req, Check(q)
      PROVE  ~Cancelled(r) \/ (phase = "check" /\ where[r] = "active" /\ r \notin todo)
  BY <1>3 DEF Check, Abandon, Finish, Goto, At, IInv, TypesOK
<1>4. ASSUME NEW q \in Req, Release(q)
      PROVE  phase = "check" /\ where[r] = "active" /\ r \notin todo
  BY <1>4 DEF Release, Drop, loopVars, IInv, TypesOK
<1>5. ASSUME NEW q \in Req,
             \/ Drain(q) \/ Purge(q) \/ Admit(q) \/ Start(q) \/ Prefill(q)
             \/ EmitToken(q) \/ EmitEnd(q) \/ Unwind(q)
      PROVE  FALSE
  BY <1>5 DEF Drain, Purge, Admit, Start, Prefill, EmitToken, EmitEnd, Unwind, Goto, At, loopVars
<1>6. CASE PhaseStep \/ Panic \/ UNCHANGED vars
  BY <1>6 DEF PhaseStep, Panic, vars, loopVars, Drained, Purged, Admitted, Started, Prefilled,
     Decode, Rest, Emitted, Unwound, Goto, In
<1> QED
  BY <1>1, <1>2, <1>3, <1>4, <1>5, <1>6 DEF Next, Loop, Quiet, RequestStep

\* A caller that has given up has given up.
LEMMA CancelledStays ==
  ASSUME IInv, [Next]_vars, NEW r \in Req
  PROVE  Cancelled(r) => Cancelled(r)'
  BY Deeds DEF Ends, Emits, Refuses, Moves, Submitted, Cancel, Hangup, Cancelled, IInv, TypesOK

\* Every step keeps what a cancelled request gets within a round.
LEMMA CancelStep ==
  ASSUME IInv, CancelOK, [OrderNext]_allVars
  PROVE  CancelOK'
<1>1. [Next]_vars
  BY DEF OrderNext, allVars
<1>2. /\ overrun' \in [Req -> Nat]
      /\ \A r \in Req : overrun'[r] = IF Overdue(r) THEN overrun[r] + 1 ELSE overrun[r]
  <2>1. CASE OrderNext
    BY <2>1 DEF OrderNext, CancelOK
  <2>2. CASE UNCHANGED allVars
    <3>1. \A r \in Req : ~Overdue(r)
      <4> SUFFICES ASSUME NEW r \in Req, Overdue(r) PROVE FALSE
        OBVIOUS
      <4>1. stream[r] \in Seq(Event) /\ stream[r] = Append(stream[r], "token")
        BY <2>2 DEF allVars, vars, Overdue, IInv, TypesOK
      <4> QED
        BY <4>1
    <3> QED
      BY <2>2, <3>1 DEF allVars, CancelOK
  <2> QED
    BY <2>1, <2>2
<1> SUFFICES ASSUME NEW r \in Req
             PROVE  /\ overrun'[r] + Due(r)' <= Lookahead + 1
                    /\ ~Cancelled(r)' => overrun'[r] = 0
                    /\ phase' = "check" /\ where'[r] = "active" /\ r \notin todo' => overrun'[r] = 0
  BY <1>2 DEF CancelOK
<1>3. /\ overrun[r] \in Nat /\ Lookahead \in Nat
      /\ overrun[r] + Due(r) <= Lookahead + 1
  BY SchedulerAssumption DEF SchedulerAssumption, CancelOK
<1>4. CASE Overdue(r)
  <2>1. Emits(r) /\ Cancelled(r)
    BY <1>1, <1>4, OverdueEmits DEF Overdue, Cancelled
  <2>2. Cancelled(r)' /\ phase' = "emit"
    BY <1>1, <2>1, CancelledStays DEF Emits
  <2>3. Due(r) \in Nat /\ Due(r)' = Due(r) - 1
    BY <2>1, EmitsDue
  <2> QED
    BY <1>2, <1>3, <1>4, <2>2, <2>3
<1>5. CASE ~Overdue(r)
  <2>1. overrun'[r] = overrun[r]
    BY <1>2, <1>5
  <2>2. overrun[r] + Due(r)' <= Lookahead + 1
    <3>1. CASE Decode
      <4>1. Due(r)' \in Nat /\ Due(r)' <= Lookahead + 1 /\ (Due(r)' > 0 => overrun[r] = 0)
        BY <3>1, DecodeDue DEF CancelOK
      <4>2. Due(r) = 0
        BY <3>1 DEF Due, Decode, At
      <4> QED
        BY <1>3, <4>1, <4>2
    <3>2. CASE ~Decode
      <4>1. Due(r)' <= Due(r) /\ Due(r) \in Nat /\ Due(r)' \in Nat
        BY <1>1, <3>2, DueShrinks
      <4> QED
        BY <1>3, <4>1
    <3> QED
      BY <3>1, <3>2
  <2>3. ~Cancelled(r)' => overrun[r] = 0
    BY <1>1, CancelledStays DEF CancelOK
  <2>4. phase' = "check" /\ where'[r] = "active" /\ r \notin todo' => overrun[r] = 0
    BY <1>1, ChecksOn DEF CancelOK
  <2> QED
    BY <2>1, <2>2, <2>3, <2>4
<1> QED
  BY <1>4, <1>5

\* After Handle::cancel a stream gets at most what one round of decoding gives, however the
\* flag falls between the loop's looking at it, the round and the sending of its tokens.
THEOREM CancelAlwaysStopsSoon == OrderSpec => CancelStopsSoon
<1>1. OrderInit => CancelOK
  <2> SUFFICES ASSUME OrderInit PROVE CancelOK
    OBVIOUS
  <2>1. Lookahead \in Nat
    BY SchedulerAssumption DEF SchedulerAssumption
  <2>2. overrun = [r \in Req |-> 0] /\ phase = "collect"
    BY DEF OrderInit, Init
  <2>3. \A r \in Req : Due(r) = 0
    BY <2>2 DEF Due
  <2> QED
    BY <2>1, <2>2, <2>3 DEF CancelOK
<1>2. IInv /\ CancelOK /\ [OrderNext]_allVars => CancelOK'
  BY CancelStep
<1>3. IInv' /\ CancelOK' => \A r \in Req : overrun'[r] <= Lookahead + 1
  <2> SUFFICES ASSUME IInv', CancelOK', NEW r \in Req PROVE overrun'[r] <= Lookahead + 1
    OBVIOUS
  <2>1. Due(r)' \in Nat
    <3>1. out'[r].n \in 0..MaxTokens
      BY DEF IInv, TypesOK
    <3>2. MaxTokens \in Nat
      BY SchedulerAssumption DEF SchedulerAssumption
    <3> QED
      BY <3>1, <3>2 DEF Due
  <2>2. Lookahead \in Nat /\ overrun'[r] \in Nat /\ overrun'[r] + Due(r)' <= Lookahead + 1
    BY SchedulerAssumption DEF SchedulerAssumption, CancelOK
  <2> QED
    BY <2>1, <2>2
<1>4. OrderSpec => [](IInv /\ CancelOK)
  BY <1>1, <1>2, OrderSteps, Inductive, PTL DEF OrderSpec, allVars
<1>5. OrderSpec => [][\A r \in Req : overrun'[r] <= Lookahead + 1]_overrun
  BY <1>3, <1>4, PTL
<1> QED
  BY <1>5 DEF CancelStopsSoon
=============================================================================
