--------------------------- MODULE MessageBuffer ---------------------------
(***************************************************************************)
(* A message buffer of the T-Kernel (messagebuf.c): messages of different  *)
(* sizes, each behind a header, in a ring that they may wrap around.       *)
(* wait_queue is the code's send_queue; receivers wait in recv_queue       *)
(* (state RECV), always in the order of arrival.  Sizes are in bytes; the  *)
(* ring is seen as words of ROUNDSIZE bytes.                               *)
(***************************************************************************)
EXTENDS HookObject

CONSTANTS HEADERSZ,  \* sizeof(HEADER), which is ROUNDSIZE too
          BufSizes,  \* the values of pk_cmbf->bufsz
          MbfMsgs,   \* messages
          MsgSz      \* MsgSz[m]: msgsz of the message m; all are within maxmsz

ASSUME BufferAssumption == /\ HEADERSZ \in Nat \ {0} /\ BufSizes \subseteq Nat
                           /\ NULL \notin MbfMsgs /\ MsgSz \in [MbfMsgs -> Nat \ {0}]

VARIABLES bufsz, frbufsz,  \* mbfcb->bufsz, mbfcb->frbufsz
          mbf_head,        \* mbfcb->head, in words
          mbf_tail,        \* mbfcb->tail, in words
          buffer,          \* the words of mbfcb->buffer
          recv_queue,      \* mbfcb->recv_queue
          accepted,        \* history: the messages accepted and not received yet
          rcvd             \* history: the message received in this step, or NULL

mbf == <<bufsz, frbufsz, mbf_head, mbf_tail, buffer, recv_queue, accepted, rcvd>>

Rounded(sz) == (sz + HEADERSZ - 1) \div HEADERSZ      \* in words
ROUNDSZ(sz) == Rounded(sz) * HEADERSZ

\* The ring as its operations see it.
Ring == [free |-> frbufsz, tail |-> mbf_tail, buf |-> buffer, acc |-> accepted,
         freed |-> {}, stop |-> FALSE]
SetRing(k) == /\ frbufsz' = k.free /\ mbf_tail' = k.tail
              /\ buffer' = k.buf /\ accepted' = k.acc

mbf_free(k, m) == HEADERSZ + MsgSz[m] <= k.free
mbf_empty == frbufsz = bufsz
Words == bufsz \div HEADERSZ
At(i) == i % Words

\* The words of a message: its header and its body.
word(m, i) == IF i = 0 THEN <<"size", MsgSz[m]>> ELSE <<m, i>>

\* msg_to_mbf: the header, then the body, each at the beginning of the ring
\* when its end is reached.
msg_to_mbf(k, m) ==
    LET n == Rounded(MsgSz[m])
    IN  [k EXCEPT !.free = @ - (HEADERSZ + ROUNDSZ(MsgSz[m])),
                  !.buf  = [i \in 0..Words - 1 |->
                              IF At(i - k.tail + Words) <= n THEN word(m, At(i - k.tail + Words)) ELSE @[i]],
                  !.tail = At(@ + n + 1),
                  !.acc  = Append(@, m)]

\* One turn of the loop of mbf_wakeup.
wakeup_one(k, t) ==
    IF k.stop \/ ~mbf_free(k, winfo[t]) THEN [k EXCEPT !.stop = TRUE]
    ELSE [msg_to_mbf(k, winfo[t]) EXCEPT !.freed = @ \cup {t}]

\* mbf_wakeup on the send queue q and the ring k.
mbf_wakeup(q, k) ==
    LET r == Loop(q, k, wakeup_one)
    IN  /\ wait_queue' = Without(q, r.freed)
        /\ gets' = r.freed /\ SetRing(r)

\* mbf_chg_pri and mbf_rel_wai, after the queue became q.
mbf_chg_pri(q) == /\ mbf_wakeup(q, Ring)
                  /\ rcvd' = NULL /\ UNCHANGED <<bufsz, mbf_head, recv_queue>>

-----------------------------------------------------------------------------
MbfInit == /\ bufsz = 0 /\ frbufsz = 0 /\ mbf_head = 0 /\ mbf_tail = 0 /\ buffer = <<>>
           /\ recv_queue = <<>> /\ accepted = <<>> /\ rcvd = NULL

\* tk_cre_mbf
CreMbf(atr, sz) ==
    /\ create(atr)
    /\ bufsz' = ROUNDSZ(sz) /\ frbufsz' = ROUNDSZ(sz) /\ mbf_head' = 0 /\ mbf_tail' = 0
    /\ buffer' = [i \in 0..Rounded(sz) - 1 |-> NULL]
    /\ recv_queue' = <<>> /\ accepted' = <<>> /\ rcvd' = NULL /\ gets' = {}
    /\ UNCHANGED winfo

\* tk_del_mbf: who waits in either queue is released (E_DLT).
DelMbf ==
    /\ objid /\ objid' = FALSE
    /\ wait_release_ok(ToSet(recv_queue) \cup ToSet(wait_queue))
    /\ recv_queue' = <<>> /\ rcvd' = NULL /\ gets' = {}
    /\ winfo' = [t \in Tasks |-> NULL]
    /\ UNCHANGED <<objatr, waitmask, priority, bufsz, frbufsz, mbf_head, mbf_tail, buffer, accepted>>

\* tk_snd_mbf when a task waits to receive: straight to the first one.
snd_to_receiver(m) ==
    /\ recv_queue # <<>>
    /\ recv_queue' = QueRemoveNext(recv_queue) /\ gets' = {QueNext(recv_queue)} /\ rcvd' = m
    /\ wake(NULL, "READY")
    /\ UNCHANGED <<wait_queue, bufsz, frbufsz, mbf_head, mbf_tail, buffer, accepted>>

\* Otherwise into the ring, if it fits; `sender' is the task or nobody.
snd_to_ring(m, sender) ==
    /\ recv_queue = <<>> /\ mbf_free(Ring, m)
    /\ SetRing(msg_to_mbf(Ring, m))
    /\ gets' = sender /\ rcvd' = NULL
    /\ UNCHANGED <<wait_queue, state, winfo, bufsz, mbf_head, recv_queue>>

\* A task stores its message only when it would be the first of the queue.
may_send(t) == gcb_top_of_wait_queue(wait_queue, t, priority, objatr.tpri) = t

\* tk_snd_mbf of a task, with a timeout or without.
SndMbf(t, m) ==
    /\ state[t] = "READY" /\ objid /\ ~is_diswai(t)
    /\ \/ snd_to_receiver(m)
       \/ may_send(t) /\ snd_to_ring(m, {t})
       \/ /\ recv_queue = <<>> /\ ~(may_send(t) /\ mbf_free(Ring, m))
          /\ hook_make_wait(t, m)
          /\ rcvd' = NULL
          /\ UNCHANGED <<bufsz, frbufsz, mbf_head, mbf_tail, buffer, recv_queue, accepted>>
    /\ UNCHANGED <<gcb, waitmask, priority>>

\* tk_snd_mbf of an interrupt handler (TMO_POL), past the tasks that wait.
SndMbfIndp(m) == /\ objid
                 /\ snd_to_receiver(m) \/ snd_to_ring(m, {})
                 /\ UNCHANGED <<gcb, waitmask, priority>>

\* mbf_to_msg: the message whose header is at head.
HeadSize == buffer[mbf_head][2]
mbf_to_msg == buffer[At(mbf_head + 1)][1]

\* tk_rcv_mbf out of the ring; then as many senders as fit get their turn.
rcv_from_ring ==
    /\ ~mbf_empty
    /\ rcvd' = mbf_to_msg
    /\ mbf_head' = At(mbf_head + 1 + Rounded(HeadSize))
    /\ mbf_wakeup(wait_queue, [Ring EXCEPT !.free = @ + HEADERSZ + ROUNDSZ(HeadSize), !.acc = Tail(@)])
    /\ wake(NULL, "READY")
    /\ UNCHANGED <<bufsz, recv_queue>>

\* With an empty ring, straight from the first sender.
rcv_from_sender ==
    /\ mbf_empty /\ ~isQueEmpty(wait_queue)
    /\ rcvd' = winfo[QueNext(wait_queue)]
    /\ mbf_wakeup(QueRemoveNext(wait_queue), [Ring EXCEPT !.freed = {QueNext(wait_queue)}])
    /\ wake(NULL, "READY")
    /\ UNCHANGED <<bufsz, mbf_head, recv_queue>>

\* tk_rcv_mbf, with a timeout or without.
RcvMbf(t) ==
    /\ state[t] = "READY" /\ objid /\ ~is_diswai(t)
    /\ \/ rcv_from_ring
       \/ rcv_from_sender
       \/ /\ mbf_empty /\ isQueEmpty(wait_queue)
          /\ state' = [state EXCEPT ![t] = "RECV"]
          /\ recv_queue' = QueInsert(recv_queue, t)
          /\ rcvd' = NULL /\ gets' = {}
          /\ UNCHANGED <<wait_queue, winfo, bufsz, frbufsz, mbf_head, mbf_tail, buffer, accepted>>
    /\ UNCHANGED <<gcb, waitmask, priority>>

\* The wait of a receiver ends without a message (wspec_rmbf has no hook).
RecvLeave(t) ==
    /\ state[t] = "RECV"
    /\ \/ state' = [state EXCEPT ![t] = "READY"] /\ UNCHANGED <<waitmask, priority>>
       \/ /\ ~objatr.nodiswai
          /\ state' = [state EXCEPT ![t] = "READY"]
          /\ waitmask' = [waitmask EXCEPT ![t] = TRUE]
          /\ UNCHANGED priority
       \/ /\ state' = [state EXCEPT ![t] = "DORMANT"]
          /\ waitmask' = [waitmask EXCEPT ![t] = FALSE]
          /\ priority' = [priority EXCEPT ![t] = INI_PRI]
    /\ recv_queue' = QueRemove(recv_queue, t)
    /\ rcvd' = NULL /\ gets' = {}
    /\ UNCHANGED <<gcb, wait_queue, winfo, bufsz, frbufsz, mbf_head, mbf_tail, buffer, accepted>>

MbfNext ==
    \/ \E atr \in Attributes, sz \in BufSizes : CreMbf(atr, sz)
    \/ DelMbf
    \/ \E m \in MbfMsgs : SndMbfIndp(m) \/ \E t \in Tasks : SndMbf(t, m)
    \/ \E t \in Tasks :
         \/ RcvMbf(t) \/ RecvLeave(t)
         \/ HookedLeave(t, mbf_chg_pri)
         \/ HookedQuiet(t) /\ rcvd' = NULL
              /\ UNCHANGED <<bufsz, frbufsz, mbf_head, mbf_tail, buffer, recv_queue, accepted>>

MbfSpec == GcbInit /\ HookInit /\ MbfInit /\ [][MbfNext]_<<gcb, tasks, hook, mbf>>

-----------------------------------------------------------------------------
MbfTypeOK == /\ bufsz \in Nat /\ frbufsz \in 0..bufsz
             /\ {mbf_head, mbf_tail} \subseteq 0..Words
             /\ recv_queue \in Seq(Tasks) /\ winfo \in [Tasks -> MbfMsgs \cup {NULL}]

\* How many words the first j of the messages in the ring take.
taken[j \in 0..Len(accepted)] ==
    IF j = 0 THEN 0 ELSE taken[j - 1] + 1 + Rounded(MsgSz[accepted[j]])

\* What a receiver will find in the ring, from the head on and wherever the
\* messages wrap, is what was accepted, in that order and complete: behind each
\* header all words of its body; and the free size is what is left.
RingExact ==
    objid =>
      /\ frbufsz = bufsz - taken[Len(accepted)] * HEADERSZ
      /\ bufsz > 0 => mbf_tail = At(mbf_head + taken[Len(accepted)])
      /\ \A j \in 1..Len(accepted) : \A i \in 0..Rounded(MsgSz[accepted[j]]) :
           buffer[At(mbf_head + taken[j - 1] + i)] = word(accepted[j], i)

\* The receivers that wait are those in the queue.
RecvQueueExact == /\ IsInjective(recv_queue)
                  /\ ToSet(recv_queue) = {t \in Tasks : state[t] = "RECV"}
                  /\ \A t \in ToSet(recv_queue) : ~is_diswai(t)

\* In a step, a receiver gets the message that was accepted first or, when there is
\* none, that of the first sender; and senders have their turn in order.
MessagesInOrder ==
    /\ InOrder
    /\ rcvd' # NULL /\ accepted # <<>> => rcvd' = Head(accepted)
    /\ rcvd' # NULL /\ accepted = <<>> /\ wait_queue # <<>> => rcvd' = winfo[Head(wait_queue)]

\* No lost wakeup: no receiver waits while there is a message, in the ring or
\* with a sender that waits; no sender waits in front whose message fits.
NobodyWaitsForBuffer ==
    /\ recv_queue # <<>> => accepted = <<>> /\ wait_queue = <<>>
    /\ wait_queue # <<>> => ~mbf_free(Ring, winfo[Head(wait_queue)])

=============================================================================
