---------------------------- MODULE MessageQueue ----------------------------
(***************************************************************************)
(* What the message passing of B-TRON promises of one process's mailbox: a *)
(* bounded queue from which a receiver takes the oldest message of a type  *)
(* that it accepts.  The messages it passes over keep their order.         *)
(***************************************************************************)
EXTENDS Sequences, SequencesExt, Integers

CONSTANTS Messages,   \* the messages
          Masks,      \* what a receiver may accept
          Accepts(_, _),
          Receivers,
          Capacity

VARIABLES queue,      \* the messages that wait, the oldest first
          received    \* the message each receiver got last

Init == /\ queue = <<>>
        /\ received \in [Receivers -> Messages]

Send(m) == /\ Len(queue) < Capacity
           /\ queue' = Append(queue, m)
           /\ UNCHANGED received

Receive(r, mk) ==
    \E i \in 1..Len(queue) :
        /\ Accepts(mk, queue[i])
        /\ \A j \in 1..i-1 : ~Accepts(mk, queue[j])
        /\ received' = [received EXCEPT ![r] = queue[i]]
        /\ queue' = RemoveAt(queue, i)

Next == \/ \E m \in Messages : Send(m)
        \/ \E r \in Receivers, mk \in Masks : Receive(r, mk)

Spec == Init /\ [][Next]_<<queue, received>>

=============================================================================
