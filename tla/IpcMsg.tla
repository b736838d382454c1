------------------------------- MODULE IpcMsg -------------------------------
(***************************************************************************)
(* The message passing engine of B-TRON (ipc_msg.c): one mailbox, a ring   *)
(* of messages under a pthread mutex and a condition variable, with any    *)
(* number of threads that send and receive.                                *)
(*                                                                         *)
(* What a thread does between locking mb->lock and unlocking it or waiting *)
(* on mb->cond is one step.  A receiver in pthread_cond_wait is in "wait"; *)
(* signalled, it is in "woken" until it has the lock again.  Calls refused *)
(* for their parameters (E_PAR, ER_ID) and a full mailbox (ER_NOSPC) change *)
(* nothing and are stuttering steps.                                       *)
(***************************************************************************)
EXTENDS Integers, Sequences

CONSTANTS Types,            \* message types
          Bodies,           \* message contents
          Receivers,        \* threads that call rcv_msg and chk_msg
          Masks,            \* the masks they use, sets of types; {} is mask 0
          MAX_QUEUED_MSGS

ASSUME MailboxAssumption ==
    /\ MAX_QUEUED_MSGS \in Nat \ {0}
    /\ \A mk \in Masks : mk \subseteq Types

MESSAGE == [msg_type : Types, msg_body : Bodies]

VARIABLES mb,     \* the IPC_MAILBOX: messages, head, tail, count
          pc,     \* where each receiver is: "idle", "wait" or "woken"
          mask,   \* the mask of its call
          timed,  \* tmo > 0
          msg     \* the message its last call stored

vars == <<mb, pc, mask, timed, msg>>

IPC_MAILBOX == [messages : [0..MAX_QUEUED_MSGS - 1 -> MESSAGE],
                head : 0..MAX_QUEUED_MSGS - 1, tail : 0..MAX_QUEUED_MSGS - 1,
                count : 0..MAX_QUEUED_MSGS]

\* mask == 0 || (mask & MSGMASK(mtype))
Accepts(mk, m) == mk = {} \/ m.msg_type \in mk

\* The place of the i-th message, counted from 0.
slot(b, i) == (b.head + i) % MAX_QUEUED_MSGS

\* The messages in the ring, the oldest first.
Contents(b) == [i \in 1..b.count |-> b.messages[slot(b, i - 1)]]

\* The numbers of the messages that match the mask.
Matching(mk) == {i \in 0..mb.count - 1 : Accepts(mk, mb.messages[slot(mb, i)])}

\* memset leaves the slots equal; which message that is does not matter.
Init == /\ \E m \in MESSAGE : mb = [messages |-> [i \in 0..MAX_QUEUED_MSGS - 1 |-> m],
                                    head |-> 0, tail |-> 0, count |-> 0]
        /\ pc = [r \in Receivers |-> "idle"]
        /\ mask = [r \in Receivers |-> {}]
        /\ timed = [r \in Receivers |-> FALSE]
        /\ msg = [r \in Receivers |-> mb.messages[0]]

\* Mutant: nobody is woken.
cond_signal_none == UNCHANGED pc

\* pthread_cond_signal: one of the threads that wait, if there is one.
cond_signal ==
    IF \E r \in Receivers : pc[r] = "wait"
      THEN \E r \in Receivers : pc[r] = "wait" /\ pc' = [pc EXCEPT ![r] = "woken"]
      ELSE UNCHANGED pc

\* Mutant: the mailbox may take one message more.
full_late(b) == b.count > MAX_QUEUED_MSGS

\* mb->count >= MAX_QUEUED_MSGS
full(b) == b.count >= MAX_QUEUED_MSGS

\* snd_msg
SndMsg(m) ==
    /\ ~full(mb)
    /\ mb' = [mb EXCEPT !.messages[mb.tail] = m,
                        !.tail = (@ + 1) % MAX_QUEUED_MSGS,
                        !.count = @ + 1]
    /\ cond_signal
    /\ UNCHANGED <<mask, timed, msg>>

\* Mutant: the shift stops one message early.
shift_short(b, i) ==
    [n \in 0..MAX_QUEUED_MSGS - 1 |->
        IF \E j \in i..b.count - 3 : n = slot(b, j)
          THEN b.messages[(n + 1) % MAX_QUEUED_MSGS] ELSE b.messages[n]]

\* The messages behind the i-th one move forward by a place.
shift(b, i) ==
    [n \in 0..MAX_QUEUED_MSGS - 1 |->
        IF \E j \in i..b.count - 2 : n = slot(b, j)
          THEN b.messages[(n + 1) % MAX_QUEUED_MSGS] ELSE b.messages[n]]

\* Take the i-th message out.
remove(b, i) == [b EXCEPT !.messages = shift(b, i),
                          !.count = @ - 1,
                          !.tail = slot(b, b.count - 1)]

\* One pass of the loop of rcv_msg: the first message that matches, or with
\* tmo = 0 nothing, or a wait.
Pass(r, mk, tmo) ==
    \/ \E i \in Matching(mk) :
         /\ \A j \in Matching(mk) : i <= j
         /\ msg' = [msg EXCEPT ![r] = mb.messages[slot(mb, i)]]
         /\ mb' = remove(mb, i)
         /\ pc' = [pc EXCEPT ![r] = "idle"]
    \/ /\ Matching(mk) = {}
       /\ pc' = [pc EXCEPT ![r] = IF tmo = "poll" THEN "idle" ELSE "wait"]
       /\ UNCHANGED <<mb, msg>>

\* rcv_msg up to its first wait; chk_msg is the call with tmo = 0.
RcvMsg(r, mk, tmo) ==
    /\ pc[r] = "idle"
    /\ Pass(r, mk, tmo)
    /\ mask' = [mask EXCEPT ![r] = mk]
    /\ timed' = [timed EXCEPT ![r] = tmo = "timed"]

\* pthread_cond_wait returns with the lock.
Woken(r) ==
    /\ pc[r] = "woken"
    /\ Pass(r, mask[r], IF timed[r] THEN "timed" ELSE "forever")
    /\ UNCHANGED <<mask, timed>>

\* pthread_cond_timedwait returns ETIMEDOUT: no further search.  It may consume
\* a signal that comes at the same time.
Timeout(r) ==
    /\ pc[r] # "idle" /\ timed[r]
    /\ pc' = [pc EXCEPT ![r] = "idle"]
    /\ UNCHANGED <<mb, mask, timed, msg>>

\* A condition variable may wake a thread for no reason.
SpuriousWakeup(r) ==
    /\ pc[r] = "wait"
    /\ pc' = [pc EXCEPT ![r] = "woken"]
    /\ UNCHANGED <<mb, mask, timed, msg>>

Next == \/ \E m \in MESSAGE : SndMsg(m)
        \/ \E r \in Receivers :
             \/ \E mk \in Masks, tmo \in {"poll", "timed", "forever"} : RcvMsg(r, mk, tmo)
             \/ Woken(r) \/ Timeout(r) \/ SpuriousWakeup(r)

Spec == Init /\ [][Next]_vars

\* A thread that was woken gets the lock in the end, as nobody holds it for
\* long, and the deadline of a timed wait does not move.
FairSpec == Spec /\ \A r \in Receivers : WF_vars(Woken(r)) /\ SF_vars(Timeout(r))

-----------------------------------------------------------------------------
(* Properties                                                              *)

\* The indices stay inside the array and the count inside its bounds, whatever
\* snd_msg and the selective removals of rcv_msg did, and tail is where the
\* next message belongs.
MailboxOK ==
    /\ mb \in IPC_MAILBOX
    /\ mb.tail = slot(mb, mb.count)
    /\ pc \in [Receivers -> {"idle", "wait", "woken"}]
    /\ mask \in [Receivers -> SUBSET Types] /\ timed \in [Receivers -> BOOLEAN]
    /\ msg \in [Receivers -> MESSAGE]

\* The mailbox is a bounded first-in-first-out queue with selective receive: no
\* message is lost, duplicated, overwritten or reordered by the ring and its
\* shifts, and every receiver gets the oldest message that its mask accepts.
MQ == INSTANCE MessageQueue WITH Messages <- MESSAGE, Capacity <- MAX_QUEUED_MSGS,
          queue <- Contents(mb), received <- msg

MQSpec == MQ!Spec

Starving(r) == pc[r] # "idle" /\ Matching(mask[r]) # {}

\* A thread does not stay in rcv_msg beside a message that it accepts: it gets
\* the message, unless another thread does.  (doc/os_spec/kernel/message.html:
\* without a matching message the process "waits for its arrival".)
Delivered == \A r \in Receivers : Starving(r) ~> ~Starving(r)

\* So it is, over wakeups for no reason, while never two threads are in rcv_msg
\* at a time.
AtMostOneReceives == \A r, s \in Receivers : pc[r] # "idle" /\ pc[s] # "idle" => r = s
DeliveredToOne == []AtMostOneReceives => Delivered

=============================================================================
