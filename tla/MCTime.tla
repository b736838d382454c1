------------------------------- MODULE MCTime -------------------------------
(***************************************************************************)
(* The timer queue under its users.  kind says which calls the behaviour   *)
(* has: sleep and wakeup, task events, or cyclic and alarm handlers beside *)
(* delayed tasks.                                                          *)
(***************************************************************************)
EXTENDS TaskSync, TimeHandlers

CONSTANT Kinds

VARIABLE kind

vars == <<kind, timer, tsk, handlers>>

Init == kind \in Kinds /\ timer_initialize /\ SyncInit /\ HandlersInit

SleepCalls(t) == \/ \E tmout \in Timeouts \cup {TMO_FEVR} : slp_tsk(t, tmout)
                 \/ wup_tsk(t) \/ can_wup(t)

EventCalls(t) == \/ \E w \in (SUBSET Evts) \ {{}}, tmout \in Timeouts \cup {TMO_FEVR} :
                      wai_tev(t, w, tmout)
                 \/ \E e \in Evts : sig_tev(t, e)

WaitCalls(t) == \/ rel_wai(t) \/ ena_wai(t) \/ ter_tsk(t) \/ sta_tsk(t)
                \/ \E mask \in DisMasks : dis_wai(t, mask)

HandlerCalls == \/ \E c \in Cycs : \/ \E k \in CycKinds : cre_cyc(c, k)
                                   \/ del_cyc(c) \/ sta_cyc(c) \/ stp_cyc(c)
                \/ \E a \in Alms : \/ \E almtim \in AlmTimes : sta_alm(a, almtim)
                                   \/ cre_alm(a) \/ del_alm(a) \/ stp_alm(a)

TaskCalls == \E t \in Tasks :
                \/ kind = "sleep" /\ (SleepCalls(t) \/ WaitCalls(t))
                \/ kind = "event" /\ (EventCalls(t) \/ WaitCalls(t))
                \/ \E dlytim \in Timeouts : dly_tsk(t, dlytim)
                \/ kind = "handlers" /\ (sta_tsk(t) \/ rel_wai(t))

Callbacks == \/ \E t \in Tasks : WaitReleaseTmout(t) /\ UNCHANGED handlers
             \/ \E c \in Cycs : CallCychdr(c) /\ UNCHANGED tsk
             \/ \E a \in Alms : CallAlmhdr(a) /\ UNCHANGED tsk

Next == /\ UNCHANGED kind
        /\ \/ Elapse /\ UNCHANGED <<tsk, handlers>>
           \/ TimerTick /\ UNCHANGED tsk
           \/ Callbacks
           \/ TimerReturn /\ UNCHANGED <<tsk, handlers>>
           \/ HandlerReturns /\ UNCHANGED tsk
           \/ TaskCalls /\ UNCHANGED handlers
           \/ kind = "handlers" /\ HandlerCalls /\ UNCHANGED tsk

\* A timer interrupt that meets disabled interrupts stays pending, timer_handler
\* gets on, and every handler comes to its end.
Fairness == /\ SF_vars(TimerTick /\ UNCHANGED <<kind, tsk>>)
            /\ WF_vars(Callbacks /\ UNCHANGED kind)
            /\ WF_vars(TimerReturn /\ UNCHANGED <<kind, tsk, handlers>>)
            /\ WF_vars(HandlerReturns /\ UNCHANGED <<kind, tsk>>)
            /\ SF_vars(HandlerReturns /\ running' = <<>> /\ UNCHANGED <<kind, tsk>>)

Spec == Init /\ [][Next]_vars /\ Fairness

-----------------------------------------------------------------------------
\* Type correctness; wupcnt stays within its limit.
TypeOK == /\ SyncTypeOK
          /\ elapsed \in 0..TIMER_PERIOD - 1 /\ timer_queue \in Seq(Events)
          /\ left \in [Events -> Int] /\ in_timer \in BOOLEAN
          /\ running \in Seq(Handlers) /\ Len(running) <= MaxNest
          /\ cycstat \in [Cycs -> {"NOEXS", "STP", "STA"}]
          /\ almstat \in [Alms -> {"NOEXS", "STP", "STA"}]

\* The timer queue holds exactly the events of the tasks that wait with a timeout
\* and of the handlers that are started, each once, in the order of their times,
\* whoever stops, restarts or deletes a handler, from within the handler too.
TimerQueueExact ==
    /\ IsInjective(timer_queue)
    /\ ToSet(timer_queue) = {t \in Tasks : waiting(t) /\ deadline[t] # NULL}
                            \cup {c \in Cycs : cycstat[c] = "STA"}
                            \cup {a \in Alms : almstat[a] = "STA"}
    /\ \A i, j \in DOMAIN timer_queue : i < j => left[timer_queue[i]] <= left[timer_queue[j]]

\* Between two timer interrupts nothing is overdue: every timeout that has run
\* out was handled by the loop of timer_handler, also behind events whose
\* callbacks changed the queue.
NothingOverdue ==
    ~in_timer => \A e \in ToSet(timer_queue) : left[e] > 0 /\ (deadline[e] # NULL => deadline[e] > 0)

\* timer_handler may trust the queue whatever its callbacks do to it: it is exact
\* and ordered, and leaves nothing that is due.
TimerQueueTrue == TimerQueueExact /\ NothingOverdue

\* The calls of a cyclic handler stay in the cycle that tk_cre_cyc or, without
\* TA_PHS, tk_sta_cyc began, while it is stopped and when calls were missed.  The
\* next one is never further away than one cycle (cyc_next_time), unless it is
\* the first, at the phase that was asked for, which may be longer than a cycle.
\* An alarm rings in the time that tk_ref_alm tells.
HandlerTimesTrue ==
    /\ \A c \in Cycs : cycstat[c] # "NOEXS" =>
         /\ (left[c] - phase[c]) % cyctim[c] = 0
         /\ lfttim(c) <= cyctim[c] \/ left[c] = phase[c]
    /\ \A a \in Alms : almstat[a] = "STA" =>
         lfttim_alm(a) = IF deadline[a] > elapsed THEN deadline[a] - elapsed ELSE 0

\* timer_handler ends no wait and calls no alarm handler before its time, counted
\* from the call and not from the timer interrupt before it (adjust_time); a
\* handler with TA_PHS is started with the remaining time that tk_ref_cyc told.
OnTime ==
    [][ /\ in_timer /\ running = <<>> /\ timer_queue' # timer_queue
             => deadline[Head(timer_queue)] = NULL \/ deadline[Head(timer_queue)] <= 0
        /\ \A c \in Cycs : cycatr[c] /\ cycstat[c] = "STP" /\ cycstat'[c] = "STA"
             => lfttim(c)' = lfttim(c) ]_vars

\* Every wait with a timeout ends.
TimedWaitsEnd == \A t \in Tasks : waiting(t) /\ deadline[t] # NULL ~> ~waiting(t)

-----------------------------------------------------------------------------
\* Phases shorter and longer than the cycle, and none.
Cycles == {[phs |-> TRUE,  sta |-> FALSE, cyctim |-> 3, cycphs |-> 2],
           [phs |-> TRUE,  sta |-> TRUE,  cyctim |-> 2, cycphs |-> 5],
           [phs |-> FALSE, sta |-> TRUE,  cyctim |-> 3, cycphs |-> 1],
           [phs |-> TRUE,  sta |-> TRUE,  cyctim |-> 1, cycphs |-> 0]}

\* The waits that tk_dis_wai disables.
Masks == {{"SLP"}, {"DLY", "e1"}}

=============================================================================
