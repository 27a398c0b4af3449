---------------------------- MODULE FrameChannel ----------------------------
(***************************************************************************)
(* What a long-lived socket is to the code above it: a channel that hands  *)
(* over every message that was sent, whole, once and in order.             *)
(***************************************************************************)
EXTENDS Naturals, Sequences

VARIABLES sent, processed

vars == <<sent, processed>>

Init == sent = <<>> /\ processed = <<>>

\* One message more, whatever it is.
Send ==
    /\ Len(sent') = Len(sent) + 1
    /\ \A i \in DOMAIN sent : sent'[i] = sent[i]
    /\ UNCHANGED processed

Deliver ==
    /\ Len(processed) < Len(sent)
    /\ processed' = Append(processed, sent[Len(processed) + 1])
    /\ UNCHANGED sent

Next == Send \/ Deliver

Spec == Init /\ [][Next]_vars
=============================================================================
