----------------------------- MODULE MCScheduler -----------------------------
(* Instances of Scheduler for TLC. *)
EXTENDS Scheduler

CONSTANTS a, b, c, alice, bob

\* a and b are alice's and c is bob's; b is the most urgent.
MCUserOf == [r \in Req |-> IF r = c THEN bob ELSE alice]
MCPriorityOf == [r \in Req |-> IF r = b THEN 2 ELSE 1]

\* "Requests that may wait for a decode slot before submissions are refused"
\* (SchedulerConfig::queue_capacity, scheduler/mod.rs:160): no more than that wait.
QueueLimit == Cardinality(Waiting) <= QueueCapacity
=============================================================================
