----------------------------- MODULE EventFifo -----------------------------
(* What the event queue promises: a bounded queue of events, first in first *)
(* out, from which the events of some types can be taken away.             *)
EXTENDS Queue

CONSTANTS Events, Size

VARIABLE q

Init == q = <<>>

Put(e)     == Len(q) < Size /\ q' = Append(q, e)
Get        == q # <<>> /\ q' = Tail(q)
Clear(set) == q' = Without(q, set)

Next == (\E e \in Events : Put(e)) \/ Get \/ (\E set \in SUBSET Events : Clear(set))

Spec == Init /\ [][Next]_q

=============================================================================
