--------------------------- MODULE MCSchedulerOrder ---------------------------
(***************************************************************************)
(* The scheduler with two history variables: which requests were already   *)
(* queued when a caller entered submit, and how many tokens a stream got   *)
(* after its caller cancelled.                                             *)
(***************************************************************************)
EXTENDS MCScheduler

VARIABLES
    ahead,   \* [Req -> SUBSET Req]: the requests queued before r's submit began
    overrun    \* [Req -> Nat]: tokens sent to r after its cancel flag was set

OrderInit ==
    /\ Init
    /\ ahead = [r \in Req |-> {}]
    /\ overrun = [r \in Req |-> 0]

Entering(r) == where[r] = "new" /\ where'[r] = "lookup"
Overdue(r) == client[r] = "cancelled" /\ stream'[r] = Append(stream[r], "token")

OrderNext ==
    /\ Next
    /\ ahead' = [r \in Req |-> IF Entering(r) THEN Waiting ELSE ahead[r]]
    /\ overrun' = [r \in Req |-> IF Overdue(r) THEN overrun[r] + 1 ELSE overrun[r]]

OrderSpec == OrderInit /\ [][OrderNext]_<<vars, ahead, overrun>>
OrderFairSpec == OrderSpec /\ Fairness

\* "Highest priority first, FIFO within a priority" (Queued): a request is never
\* admitted while one that was queued before it was even submitted, and that is at
\* least as urgent, still waits in the channel or the heap.
NoOvertaking ==
    [][\A s \in Req :
          where[s] = "heap" /\ where'[s] = "admit" =>
             \A r \in ahead[s] \cap Waiting : priorityOf[r] < priorityOf[s]]_vars

\* Handle::cancel stops the work within the round already decoded: after the flag is
\* set, a stream that is still read gets no more than that round's tokens.
CancelStopsSoon == [][\A r \in Req : overrun'[r] <= Lookahead + 1]_overrun
=============================================================================
