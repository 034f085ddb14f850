---------------------------- MODULE MCExpertTiers ----------------------------
(* An instance of ExpertTiers for TLC. *)
EXTENDS ExpertTiers

CONSTANTS t1, t2

\* Expert 1 is in the archive, expert 2 in the tier above it, and expert 0 in
\* neither; or expert 0 was synthesised before, and that copy of 1 is damaged.
MCStarts ==
  {[e \in 0..2 |-> CASE e = 0 -> [l2 |-> IF b THEN "synthesised" ELSE "none", l3 |-> "none"]
                     [] e = 1 -> [l2 |-> IF b THEN "damaged" ELSE "none", l3 |-> "own"]
                     [] e = 2 -> [l2 |-> "own", l3 |-> "none"]] : b \in BOOLEAN}
=============================================================================
