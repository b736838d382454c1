----------------------------- MODULE EventQueue -----------------------------
(***************************************************************************)
(* The system event queue (window/event.c): a ring of EVENT_QUEUE_SIZE     *)
(* events.  An event is its type; position and key are chosen where it is  *)
(* handled.                                                                *)
(***************************************************************************)
EXTENDS Queue

CONSTANTS EVT,               \* the event types
          EVENT_QUEUE_SIZE

ASSUME EventAssumption == EVENT_QUEUE_SIZE \in Nat \ {0} /\ EVT # {}

VARIABLES g_queue, g_q_head, g_q_tail, g_q_count

queue == <<g_queue, g_q_head, g_q_tail, g_q_count>>

\* The i-th event of the queue, and all of them in order.
slot(i)  == (g_q_head + i) % EVENT_QUEUE_SIZE
Contents == [i \in 1..g_q_count |-> g_queue[slot(i - 1)]]

\* init_evt_sys; the ring is zeroed memory, any event stands for that.
init_evt_sys == /\ g_queue = [i \in 0 .. EVENT_QUEUE_SIZE - 1 |-> CHOOSE e \in EVT : TRUE]
                /\ g_q_head = 0 /\ g_q_tail = 0 /\ g_q_count = 0

\* Mutant: off by one.
full_late == g_q_count > EVENT_QUEUE_SIZE

\* snd_evt; a full queue refuses the event (E_BUSY).
full == g_q_count >= EVENT_QUEUE_SIZE

snd_evt(e) == /\ ~full
              /\ g_queue' = [g_queue EXCEPT ![g_q_tail] = e]
              /\ g_q_tail' = (g_q_tail + 1) % EVENT_QUEUE_SIZE
              /\ g_q_count' = g_q_count + 1
              /\ UNCHANGED g_q_head

\* get_evt takes the event at the head.
get_evt == /\ g_q_count > 0
           /\ g_q_head' = (g_q_head + 1) % EVENT_QUEUE_SIZE
           /\ g_q_count' = g_q_count - 1
           /\ UNCHANGED <<g_queue, g_q_tail>>

\* Mutant: the tail is not brought back into the ring.
new_tail_unwrapped(n) == n

\* The tail of clr_evt, for n remaining events.
new_tail(n) == n % EVENT_QUEUE_SIZE

\* clr_evt copies the events that the mask does not name to the front.
clr_evt(mask) ==
    LET kept == Without(Contents, mask)
    IN  /\ g_queue' = [i \in DOMAIN g_queue |-> IF i < Len(kept) THEN kept[i + 1] ELSE g_queue[i]]
        /\ g_q_head' = 0
        /\ g_q_tail' = new_tail(Len(kept))
        /\ g_q_count' = Len(kept)

=============================================================================
