----------------------------- MODULE PositionLog -----------------------------
(***************************************************************************)
(* What a sequence's attention cache promises: it is a log of positions.   *)
(* Positions are appended, the newest ones may be cut off, a log may be    *)
(* copied to start another, and what a log says at a position never        *)
(* changes otherwise, wherever its parts are kept.                         *)
(***************************************************************************)
EXTENDS Integers, Sequences

CONSTANTS Owner, Value, MaxPositions, None

VARIABLE log

Init == log = [o \in Owner |-> None]

Open(new) == new = <<>>
Copy(new) == \E p \in Owner : new = log[p]
Extend(old, new) == /\ Len(old) < MaxPositions
                    /\ Len(new) = Len(old) + 1 /\ new[Len(new)] \in Value
                    /\ \A i \in 1..Len(old) : new[i] = old[i]
Shorten(old, new) == /\ Len(new) <= Len(old)
                     /\ \A i \in 1..Len(new) : new[i] = old[i]
Close(new) == new = None

\* How one owner's log may go on.
Goes(old, new) == IF old = None THEN Open(new) \/ Copy(new)
                  ELSE Close(new) \/ Extend(old, new) \/ Shorten(old, new)

Next == \E o \in Owner : /\ Goes(log[o], log'[o])
                         /\ \A p \in Owner \ {o} : log'[p] = log[p]
                         /\ DOMAIN log' = Owner

Spec == Init /\ [][Next]_log
=============================================================================
