----------------------------- MODULE DropOldest -----------------------------
(* What the sample buffer between the audio unit and the host promises: a    *)
(* queue in the order of production, which makes room for a new sample by    *)
(* dropping the oldest one.                                                  *)
EXTENDS Integers, Sequences

CONSTANTS Samples, Capacity

VARIABLES queue, dropped

Init == queue = <<>> /\ dropped = 0

Put(s) ==
    IF Len(queue) < Capacity
    THEN queue' = Append(queue, s) /\ UNCHANGED dropped
    ELSE queue' = Append(Tail(queue), s) /\ dropped' = dropped + 1

Take(n) == queue' = SubSeq(queue, n + 1, Len(queue)) /\ UNCHANGED dropped

Clear == queue' = <<>> /\ dropped' = 0

Next ==
    \/ \E s \in Samples : Put(s)
    \/ \E n \in 1 .. Len(queue) : Take(n)
    \/ Clear

Spec == Init /\ [][Next]_<<queue, dropped>>
=============================================================================
