------------------------------ MODULE Mailbox ------------------------------
(***************************************************************************)
(* A mailbox of the T-Kernel (mailbox.c).  The messages are the senders'   *)
(* own memory, linked through their first word; mq_tail is meaningful only *)
(* while the list is not empty, and only without TA_MPRI.                  *)
(***************************************************************************)
EXTENDS WaitObject

CONSTANTS Msgs, MsgPri   \* MsgPri[m]: msgpri of the message m

ASSUME MailboxAssumption == /\ NULL \notin Msgs /\ IsFiniteSet(Msgs)
                            /\ MsgPri \in [Msgs -> Nat \ {0}]

VARIABLES mpri,      \* mbxcb->mbxatr & TA_MPRI
          head,      \* mbxcb->mq_head.msgque[0]
          mq_tail,   \* mbxcb->mq_tail
          next,      \* nextmsg(m) of every message
          pending    \* history: the messages sent and not received, in the order
                     \* in which they have to be received

mbx  == <<mpri, head, mq_tail, next, pending>>

\* chain[n][m]: the first n messages of the list that starts at m.
chain[n \in 0..Cardinality(Msgs) + 1] ==
    [m \in Msgs \cup {NULL} |->
       IF m = NULL \/ n = 0 THEN <<>> ELSE <<m>> \o chain[n - 1][next[m]]]

\* Every message that the list can hold, and one more if it is circular.
List == chain[Cardinality(Msgs) + 1][head]

\* The messages in front of m: those whose msgpri is not larger.
Before(m) == Without(List, {k \in Msgs : MsgPri[k] > MsgPri[m]})

\* queue_insert_mpri stops at the first message with a larger msgpri.
queue_insert_mpri(m) ==
    LET i == SelectInSeq(List, LAMBDA k : MsgPri[k] > MsgPri[m])
        n == IF i = 0 THEN Len(List) ELSE i - 1
        after == IF i = 0 THEN NULL ELSE List[i]
    IN  IF n = 0 THEN head' = m /\ next' = [next EXCEPT ![m] = after]
        ELSE head' = head /\ next' = [next EXCEPT ![m] = after, ![List[n]] = m]

\* The end of the queue without TA_MPRI.
append_to_tail(m) ==
    /\ head' = IF head = NULL THEN m ELSE head
    /\ next' = IF head = NULL THEN [next EXCEPT ![m] = NULL]
               ELSE [next EXCEPT ![m] = NULL, ![mq_tail] = m]
    /\ mq_tail' = m

-----------------------------------------------------------------------------
MbxInit == /\ mpri = FALSE /\ head = NULL /\ mq_tail = NULL
           /\ next = [m \in Msgs |-> NULL] /\ pending = <<>>
\* tk_cre_mbx
CreMbx(atr, mp) == /\ create(atr)
                   /\ mpri' = mp /\ head' = NULL /\ pending' = <<>>
                   /\ UNCHANGED <<mq_tail, next>>

\* tk_del_mbx
DelMbx == wait_delete /\ UNCHANGED mbx

\* tk_snd_mbx of a message that is not in a mailbox: to the first waiting task,
\* or into the list.
SndMbx(m) ==
    /\ objid /\ m \notin ToSet(pending)
    /\ IF ~isQueEmpty(wait_queue)
         THEN wait_release_ok({QueNext(wait_queue)}) /\ UNCHANGED mbx
         ELSE /\ IF mpri THEN queue_insert_mpri(m) /\ UNCHANGED mq_tail ELSE append_to_tail(m)
              /\ pending' = IF ~mpri THEN Append(pending, m)
                            ELSE Before(m) \o <<m>> \o Without(pending, {k \in Msgs : MsgPri[k] <= MsgPri[m]})
              /\ UNCHANGED <<wait_queue, state, mpri>>
    /\ UNCHANGED <<gcb, waitmask, priority>>

has_message == head # NULL

\* tk_rcv_mbx, with a timeout or without.
RcvMbx(t) ==
    /\ state[t] = "READY" /\ objid /\ ~is_diswai(t)
    /\ \/ /\ has_message
          /\ head' = next[head]
          /\ pending' = Tail(pending)
          /\ UNCHANGED <<tasks, mpri, mq_tail, next>>
       \/ /\ ~has_message
          /\ make_wait_with_diswai(t)
          /\ UNCHANGED <<waitmask, priority, mbx>>
    /\ UNCHANGED gcb

\* A call on the task t (WaitObject).
MbxTaskCall(t) == (WaitCall(t) \/ TerTsk(t)) /\ UNCHANGED mbx

MbxNext ==
    \/ \E atr \in Attributes, mp \in BOOLEAN : CreMbx(atr, mp)
    \/ DelMbx
    \/ \E m \in Msgs : SndMbx(m)
    \/ \E t \in Tasks : RcvMbx(t) \/ MbxTaskCall(t)

MbxSpec == GcbInit /\ MbxInit /\ [][MbxNext]_<<gcb, tasks, mbx>>

-----------------------------------------------------------------------------
MbxTypeOK == /\ mpri \in BOOLEAN /\ {head, mq_tail} \subseteq Msgs \cup {NULL}
             /\ next \in [Msgs -> Msgs \cup {NULL}] /\ pending \in Seq(Msgs)

\* The linked list is the queue that was asked for: the messages sent and not
\* received, in their order, however stale mq_tail and the links of messages
\* received and sent again are.
ListExact == objid => List = pending

\* Nobody waits while a message is there.
NobodyWaitsForMessage == wait_queue # <<>> => head = NULL

=============================================================================
