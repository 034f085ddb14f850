---------------------------- MODULE PlainDecoding ----------------------------
(***************************************************************************)
(* What generation promises, without saying how: a reply grows token by    *)
(* token, a greedy one by the model's own choice after everything before;  *)
(* nothing follows an end token; it ends at an end token, at the token     *)
(* budget or at the end of the context window, or it fails; an end is      *)
(* final.  A step may take several sessions several tokens further.        *)
(***************************************************************************)
EXTENDS Integers, Sequences

CONSTANTS Session, Token, EndTokens, Prompts, MaxContext, MaxTokens, Burst, Greedy,
          Choice(_)

VARIABLES prompt, reply, state

vars == <<prompt, reply, state>>

Init == /\ prompt = [s \in Session |-> <<>>]
        /\ reply = [s \in Session |-> <<>>]
        /\ state = [s \in Session |-> "waiting"]

Begin(s) == /\ state[s] = "waiting"
            /\ prompt' \in {[prompt EXCEPT ![s] = p] : p \in Prompts}
            /\ state' = [state EXCEPT ![s] = "running"]
            /\ UNCHANGED reply

Refuse(s) == /\ state[s] = "waiting"
             /\ state' = [state EXCEPT ![s] = "failed"]
             /\ UNCHANGED <<prompt, reply>>

\* The reply of s becomes new and its state now.
Advance(s, new, now) ==
    LET old == reply[s]
        ended == Len(new) > Len(old) /\ new[Len(new)] \in EndTokens
    IN  /\ state[s] = "running"
        /\ Len(new) \in Len(old)..(Len(old) + Burst)
        /\ Len(new) <= MaxTokens
        /\ Len(prompt[s]) + Len(new) <= MaxContext
        /\ SubSeq(new, 1, Len(old)) = old
        /\ \A i \in (Len(old) + 1)..Len(new) :
              /\ s \in Greedy => new[i] = Choice(prompt[s] \o SubSeq(new, 1, i - 1))
              /\ i < Len(new) => new[i] \notin EndTokens
        /\ \/ now = "failed"
           \/ now = "eos" /\ ended
           \/ now = "running" /\ ~ended /\ Len(new) > Len(old)
           \/ now = "length" /\ ~ended /\ Len(new) = MaxTokens
           \/ now = "full" /\ ~ended /\ Len(prompt[s]) + Len(new) = MaxContext

\* Every session either stays as it is or advances.
Decode ==
    /\ \A s \in Session :
          \/ reply'[s] = reply[s] /\ state'[s] = state[s]
          \/ Advance(s, reply'[s], state'[s])
    /\ DOMAIN reply' = Session /\ DOMAIN state' = Session
    /\ UNCHANGED prompt

Next == Decode \/ \E s \in Session : Begin(s) \/ Refuse(s)

Spec == Init /\ [][Next]_vars
=============================================================================
