------------------------------- MODULE MCDecode -------------------------------
(* Instances of Decode for TLC. *)
EXTENDS Decode

CONSTANTS s1, s2

\* Two tokens and an end; contexts repeat themselves, and some end.
MCToken == {0, 1, 2}
MCEndTokens == {2}
\* One entry and room for two, or room for one entry and none for the largest.
MCCacheLimits == {[entries |-> 1, bytes |-> 6], [entries |-> 2, bytes |-> 3]}
MCPrompts == {<<0>>, <<1, 0>>, <<1, 0, 1>>, <<1, 0, 1, 0>>, <<>>}
MCChoice(ctx) == LET n == Len(ctx) IN
                 IF n = 0 THEN 0
                 ELSE IF n > 3 /\ ctx[n] = 1 /\ ctx[n - 1] = 1 THEN 2
                 ELSE (n + ctx[1]) % 2
=============================================================================
