---------------------------- MODULE RequestService ----------------------------
(***************************************************************************)
(* What the scheduler promises its callers, without saying how: a caller   *)
(* is refused or accepted; an accepted request waits, may run, and ends    *)
(* once; at most Slots requests run at a time and at most Quota requests   *)
(* of one user are in the system; a stream is tokens and then at most one  *)
(* event that says how the request ended, after which nothing follows; a   *)
(* request that ends while its caller still wants it says so; one that a   *)
(* dying worker takes with it never says anything again.                   *)
(***************************************************************************)
EXTENDS Naturals, Sequences, FiniteSets

CONSTANTS Req, User, userOf, Slots, Quota

VARIABLES
    status,   \* outside, refused, waiting, running, ended, left, crashed
    wanted,   \* whether the caller still wants the request
    events    \* its stream

vars == <<status, wanted, events>>

Inside == {"waiting", "running", "ended"}
OfUser(u) == {r \in Req : userOf[r] = u /\ status[r] \in Inside}
Running == {r \in Req : status[r] = "running"}

Init == /\ status = [r \in Req |-> "outside"]
        /\ wanted = [r \in Req |-> TRUE]
        /\ events = [r \in Req |-> <<>>]

Accept(r) == /\ status[r] = "outside"
             /\ Cardinality(OfUser(userOf[r])) < Quota
             /\ status' = [status EXCEPT ![r] = "waiting"]
             /\ UNCHANGED <<wanted, events>>

\* A refusal may come before or after the request took its place in the quota.
Refuse(r) == /\ status[r] \in {"outside", "waiting"}
             /\ status' = [status EXCEPT ![r] = "refused"]
             /\ UNCHANGED <<wanted, events>>

GiveUp(r) == /\ status[r] \in {"waiting", "running"}
             /\ wanted' = [wanted EXCEPT ![r] = FALSE]
             /\ UNCHANGED <<status, events>>

Run(r) == /\ status[r] = "waiting"
          /\ wanted[r]
          /\ Cardinality(Running) < Slots
          /\ status' = [status EXCEPT ![r] = "running"]
          /\ UNCHANGED <<wanted, events>>

Token(r) == /\ status[r] = "running"
            /\ events' = [events EXCEPT ![r] = Append(@, "token")]
            /\ UNCHANGED <<status, wanted>>

\* Only a request that ran can be done, late or failed; only one that is not
\* wanted can end without a word or as cancelled.
End(r) == /\ \/ /\ status[r] = "running"
                /\ \E e \in {"done", "timeout", "error"} :
                      events' = [events EXCEPT ![r] = Append(@, e)]
             \/ /\ status[r] = "running" /\ ~wanted[r]
                /\ events' = [events EXCEPT ![r] = Append(@, "cancelled")]
             \/ /\ status[r] \in {"waiting", "running"} /\ ~wanted[r]
                /\ UNCHANGED events
          /\ status' = [status EXCEPT ![r] = "ended"]
          /\ UNCHANGED wanted

Leave(r) == /\ status[r] = "ended"
            /\ status' = [status EXCEPT ![r] = "left"]
            /\ UNCHANGED <<wanted, events>>

Crash(r) == /\ status[r] = "running"
            /\ status' = [status EXCEPT ![r] = "crashed"]
            /\ UNCHANGED <<wanted, events>>

Next == \E r \in Req : \/ Accept(r) \/ Refuse(r) \/ GiveUp(r) \/ Run(r) \/ Token(r)
                       \/ End(r) \/ Leave(r) \/ Crash(r)

Spec == Init /\ [][Next]_vars
=============================================================================
