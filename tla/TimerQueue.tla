----------------------------- MODULE TimerQueue -----------------------------
(***************************************************************************)
(* The timer event queue (timer.c).  Times are kept relative to            *)
(* current_time: left[e] is e->time - current_time, so a timer interrupt   *)
(* lowers them all, and an event is due when left[e] <= 0.                 *)
(***************************************************************************)
EXTENDS KernelWait

CONSTANTS NULL,
          Tasks, Cycs, Alms,  \* the owners of the timer events: tcb->wtmeb,
                              \* cyccb->cyctmeb, almcb->almtmeb
          TIMER_PERIOD,       \* in units of the hardware timer
          MaxNest             \* bound: handlers running inside one another

Handlers == Cycs \cup Alms
Events   == Tasks \cup Handlers

ASSUME TimerAssumption == /\ TIMER_PERIOD \in Nat \ {0} /\ MaxNest \in Nat \ {0}
                          /\ NULL \notin Events /\ NULL \notin Int
                          /\ Tasks \cap Handlers = {} /\ Cycs \cap Alms = {}

TMO_FEVR == -1

VARIABLES elapsed,      \* get_hw_timer_usec: the time since the last interrupt
          timer_queue,
          left,         \* 0 for an event that is not queued, but see tick
          in_timer,     \* timer_handler runs
          running,      \* the cyclic and alarm handlers that run, the innermost first
          deadline      \* history: when what a task or an alarm waits for is due,
                        \* relative to current_time like left, until it is over;
                        \* NULL if never

timer == <<elapsed, timer_queue, left, in_timer, running, deadline>>

timer_initialize == /\ elapsed = 0 /\ timer_queue = <<>>
                    /\ left = [e \in Events |-> 0]
                    /\ in_timer = FALSE /\ running = <<>>
                    /\ deadline = [e \in Events |-> NULL]

\* System calls happen outside of timer_handler, or in or over a cyclic or alarm
\* handler that it has called: that enables the interrupts above TIMER_INTLEVEL.
Callable == in_timer => running # <<>>

\* Only a task may wait (CHECK_DISPATCH).
TaskRuns == ~in_timer /\ running = <<>>

-----------------------------------------------------------------------------
\* adjust_time
adjust_time == elapsed

\* enqueue_tmeb: in front of the first event that is later.
enqueue_tmeb(q, l, e) ==
    LET i == SelectInSeq(q, LAMBDA d : l[e] < l[d])
    IN  IF i = 0 THEN Append(q, e) ELSE InsertAt(q, i, e)

\* timer_insert_abs; q is the queue e is not in.
insert(q, e, l) == /\ left' = [left EXCEPT ![e] = l]
                   /\ timer_queue' = enqueue_tmeb(q, left', e)

\* Mutant: the time since the last interrupt is not added.
insert_reltim_unadjusted(q, e, tmout) == insert(q, e, tmout)

\* timer_insert_reltim, timer_insert and alm_timer_insert
insert_reltim(q, e, tmout) == insert(q, e, tmout + adjust_time)

\* timer_insert: with TMO_FEVR the event is not queued.
timer_insert(e, tmout) ==
    /\ IF tmout = TMO_FEVR THEN UNCHANGED <<timer_queue, left>>
                           ELSE insert_reltim(timer_queue, e, tmout)
    /\ deadline' = [deadline EXCEPT ![e] = IF tmout = TMO_FEVR THEN NULL ELSE elapsed + tmout]

\* timer_delete of an event that is queued, or initialised by timer_insert; a
\* stopped cyclic handler still needs its time.
timer_delete(e) == /\ timer_queue' = QueRemove(timer_queue, e)
                   /\ left' = IF e \in Cycs THEN left ELSE [left EXCEPT ![e] = 0]
                   /\ deadline' = [deadline EXCEPT ![e] = NULL]

-----------------------------------------------------------------------------
\* Mutant: the software clock stands still.
tick_lost(cyctim) == left

\* The times after a timer interrupt.  A stopped cyclic handler keeps its next
\* time; once that is over only its place in the cycle matters to cyc_next_time,
\* so it is kept within one cycle.
tick(cyctim) ==
    [e \in Events |->
        LET l == left[e] - TIMER_PERIOD
        IN  IF e \in ToSet(timer_queue) THEN l
            ELSE IF e \notin Cycs \/ cyctim[e] = 0 THEN 0
            ELSE IF l > 0 THEN l ELSE (l % cyctim[e]) - cyctim[e]]

\* The hardware timer goes on.
Elapse == /\ elapsed < TIMER_PERIOD - 1
          /\ elapsed' = elapsed + 1
          /\ UNCHANGED <<timer_queue, left, in_timer, running, deadline>>

\* timer_handler: current_time += TIMER_PERIOD.
TimerInterrupt(cyctim) ==
    /\ ~in_timer /\ running = <<>>
    /\ in_timer' = TRUE /\ elapsed' = 0
    /\ left' = tick(cyctim)
    /\ deadline' = [e \in Events |-> IF deadline[e] = NULL \/ deadline[e] <= 0 THEN deadline[e]
                                     ELSE deadline[e] - TIMER_PERIOD]
    /\ UNCHANGED <<timer_queue, running>>

\* The loop of timer_handler goes on.
due == ~isQueEmpty(timer_queue) /\ left[QueNext(timer_queue)] <= 0

\* timer_handler takes the event of e and calls its callback.
Expires(e) == in_timer /\ running = <<>> /\ due /\ e = QueNext(timer_queue)

\* timer_handler returns.
TimerReturn == /\ in_timer /\ running = <<>> /\ ~due
               /\ in_timer' = FALSE
               /\ UNCHANGED <<elapsed, timer_queue, left, running, deadline>>

=============================================================================
