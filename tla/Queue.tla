------------------------------- MODULE Queue -------------------------------
(***************************************************************************)
(* The double-link ring queue of include/sys/queue.h, on which every list  *)
(* of the kernel is built: ready queues, wait queues, the timer queue and  *)
(* the free lists.  A QUEUE head with its members is the sequence of its   *)
(* members, from que->next to que->prev.  An element sits in one queue at  *)
(* most, so QueRemove of an element is the removal of its one occurrence.  *)
(***************************************************************************)
EXTENDS Integers, Sequences, SequencesExt

\* isQueEmpty( que )
isQueEmpty(q) == q = <<>>

\* QueInsert( ent, &que ): before the head cell, that is at the end.
QueInsert(q, ent) == Append(q, ent)

\* QueInsert( ent, que.next ): at the front.
QueInsertTop(q, ent) == <<ent>> \o q

\* Where ent is linked in q.
PositionOf(q, ent) == CHOOSE i \in 1..Len(q) : q[i] = ent

\* QueRemove( ent ); an element linked to itself (QueInit) stays as it is.
QueRemove(q, ent) ==
    IF \E i \in 1..Len(q) : q[i] = ent THEN RemoveAt(q, PositionOf(q, ent)) ELSE q

\* QueRemoveNext( que ) of a queue that is not empty, and what it returns.
QueNext(q) == Head(q)
QueRemoveNext(q) == Tail(q)

\* A loop over the members of q, each turn of which changes k.
Loop(q, k, turn(_, _)) ==
    LET after[n \in 0..Len(q)] == IF n = 0 THEN k ELSE turn(after[n - 1], q[n])
    IN  after[Len(q)]

\* What a loop leaves that removes the members of S, in their order.
Without(q, S) ==
    LET left[n \in 0..Len(q)] == IF n = 0 THEN <<>>
                                 ELSE IF q[n] \in S THEN left[n - 1]
                                 ELSE Append(left[n - 1], q[n])
    IN  left[Len(q)]

=============================================================================
