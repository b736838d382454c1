---------------------------- MODULE TimeHandlers ----------------------------
(***************************************************************************)
(* Cyclic and alarm handlers (time_calls.c) on the timer queue.  A handler *)
(* that timer_handler calls may make any system call, on itself too, and   *)
(* so may the interrupts over it; one that is called immediately, by       *)
(* tk_cre_cyc or tk_sta_alm, runs in the caller's critical section.        *)
(***************************************************************************)
EXTENDS TimerQueue

CONSTANTS CycKinds,  \* [phs : TA_PHS, sta : TA_STA, cyctim, cycphs] of tk_cre_cyc
          AlmTimes   \* the almtim of tk_sta_alm

ASSUME HandlerAssumption ==
    /\ CycKinds \subseteq [phs : BOOLEAN, sta : BOOLEAN, cyctim : Nat \ {0}, cycphs : Nat]
    /\ AlmTimes \subseteq Nat

VARIABLES cycstat, almstat,  \* "NOEXS" (no handler), "STP" or "STA"
          cycatr,            \* TA_PHS is set
          cyctim,            \* 0 without a handler
          phase              \* history: a time of the cycle as it was asked for,
                             \* relative to current_time: the first one, while it
                             \* lies ahead

handlers == <<cycstat, almstat, cycatr, cyctim, phase>>

HandlersInit == /\ cycstat = [c \in Cycs |-> "NOEXS"] /\ almstat = [a \in Alms |-> "NOEXS"]
                /\ cycatr = [c \in Cycs |-> FALSE] /\ cyctim = [c \in Cycs |-> 0]
                /\ phase = [c \in Cycs |-> 0]

\* The cycle of c begins at l.
set_phase(c, l) == phase' = [phase EXCEPT ![c] = l]

\* Handler h is called.
call(h) == running' = <<h>> \o running
immediate_call(h) == Len(running) < MaxNest /\ call(h)

-----------------------------------------------------------------------------
(* Cyclic handlers                                                         *)

\* Mutant: one cycle from now on, whatever the time of this call was.
cyc_next_time_drift(c, tm, tim) == tim

\* cyc_next_time: the next time in the cycle that is later than current_time.
cyc_next_time(c, tm, tim) ==
    IF tm + tim > 0 THEN tm + tim ELSE tm + (((-tm) \div tim) + 1) * tim

\* tk_cre_cyc
cre_cyc(c, k) ==
    LET tm == k.cycphs + adjust_time
    IN  /\ Callable /\ cycstat[c] = "NOEXS"
        /\ cycatr' = [cycatr EXCEPT ![c] = k.phs]
        /\ cyctim' = [cyctim EXCEPT ![c] = k.cyctim]
        /\ cycstat' = [cycstat EXCEPT ![c] = IF k.sta THEN "STA" ELSE "STP"]
        /\ \/ /\ ~k.sta
              /\ left' = [left EXCEPT ![c] = tm]
              /\ UNCHANGED <<timer_queue, running>>
           \/ /\ k.sta /\ k.cycphs > 0
              /\ insert(timer_queue, c, tm)
              /\ UNCHANGED running
           \/ /\ k.sta /\ k.cycphs = 0
              /\ insert(timer_queue, c, cyc_next_time(c, tm, k.cyctim))
              /\ immediate_call(c)
        /\ set_phase(c, elapsed + k.cycphs)
        /\ UNCHANGED <<elapsed, in_timer, deadline, almstat>>

\* tk_del_cyc
del_cyc(c) == /\ Callable /\ cycstat[c] # "NOEXS"
              /\ IF cycstat[c] = "STA" THEN timer_delete(c)
                 ELSE UNCHANGED <<timer_queue, left, deadline>>
              /\ cycstat' = [cycstat EXCEPT ![c] = "NOEXS"]
              /\ cycatr' = [cycatr EXCEPT ![c] = FALSE]
              /\ cyctim' = [cyctim EXCEPT ![c] = 0]
              /\ phase' = [phase EXCEPT ![c] = 0]
              /\ UNCHANGED <<elapsed, in_timer, running, almstat>>

\* Mutant: a running handler is queued a second time.
sta_cyc_queue(c) == timer_queue

\* tk_sta_cyc without TA_PHS stops a running handler once.
sta_cyc_stop(c) == QueRemove(timer_queue, c)

\* tk_sta_cyc
sta_cyc(c) ==
    /\ Callable /\ cycstat[c] # "NOEXS"
    /\ IF cycatr[c]
         THEN /\ IF cycstat[c] = "STA" THEN UNCHANGED <<timer_queue, left>>
                 ELSE insert(timer_queue, c, IF left[c] > 0 THEN left[c]
                                             ELSE cyc_next_time(c, left[c], cyctim[c]))
              /\ UNCHANGED phase
         ELSE /\ insert(sta_cyc_stop(c), c, cyctim[c] + adjust_time)
              /\ set_phase(c, elapsed)
    /\ cycstat' = [cycstat EXCEPT ![c] = "STA"]
    /\ UNCHANGED <<elapsed, in_timer, running, deadline, almstat, cycatr, cyctim>>

\* tk_stp_cyc
stp_cyc(c) == /\ Callable /\ cycstat[c] = "STA"
              /\ timer_delete(c)
              /\ cycstat' = [cycstat EXCEPT ![c] = "STP"]
              /\ UNCHANGED <<elapsed, in_timer, running, almstat, cycatr, cyctim, phase>>

\* The remaining time that tk_ref_cyc tells.
lfttim(c) ==
    LET tm == IF cycstat[c] = "STP" /\ left[c] <= 0
                THEN cyc_next_time(c, left[c], cyctim[c]) ELSE left[c]
    IN  IF tm > elapsed THEN tm - elapsed ELSE 0

\* call_cychdr: the next call is queued before the handler runs.
CallCychdr(c) == /\ Expires(c)
                 /\ insert(QueRemoveNext(timer_queue), c, cyc_next_time(c, left[c], cyctim[c]))
                 /\ call(c)
                 /\ UNCHANGED <<elapsed, in_timer, deadline, handlers>>

-----------------------------------------------------------------------------
(* Alarm handlers                                                          *)

\* tk_cre_alm, tk_del_alm
cre_alm(a) == /\ Callable /\ almstat[a] = "NOEXS"
              /\ almstat' = [almstat EXCEPT ![a] = "STP"]
              /\ UNCHANGED <<timer, cycstat, cycatr, cyctim, phase>>
del_alm(a) == /\ Callable /\ almstat[a] # "NOEXS"
              /\ timer_delete(a)
              /\ almstat' = [almstat EXCEPT ![a] = "NOEXS"]
              /\ UNCHANGED <<elapsed, in_timer, running, cycstat, cycatr, cyctim, phase>>

\* alm_timer_insert, after timer_delete of what was set before
alm_timer_insert(a, almtim) == insert_reltim(QueRemove(timer_queue, a), a, almtim)

\* The remaining time that tk_ref_alm tells.
lfttim_alm(a) == IF almstat[a] = "STA" /\ left[a] > elapsed THEN left[a] - elapsed ELSE 0

\* tk_sta_alm; almtim = 0 calls the handler at once.
sta_alm(a, almtim) ==
    /\ Callable /\ almstat[a] # "NOEXS"
    /\ IF almtim > 0
         THEN /\ alm_timer_insert(a, almtim)
              /\ deadline' = [deadline EXCEPT ![a] = elapsed + almtim]
              /\ almstat' = [almstat EXCEPT ![a] = "STA"]
              /\ UNCHANGED running
         ELSE /\ timer_delete(a)
              /\ almstat' = [almstat EXCEPT ![a] = "STP"]
              /\ immediate_call(a)
    /\ UNCHANGED <<elapsed, in_timer, cycstat, cycatr, cyctim, phase>>

\* tk_stp_alm
stp_alm(a) == /\ Callable /\ almstat[a] = "STA"
              /\ timer_delete(a)
              /\ almstat' = [almstat EXCEPT ![a] = "STP"]
              /\ UNCHANGED <<elapsed, in_timer, running, cycstat, cycatr, cyctim, phase>>

\* call_almhdr clears TALM_STA first.
CallAlmhdr(a) == /\ Expires(a)
                 /\ timer_delete(a)
                 /\ almstat' = [almstat EXCEPT ![a] = "STP"]
                 /\ call(a)
                 /\ UNCHANGED <<elapsed, in_timer, cycstat, cycatr, cyctim, phase>>

-----------------------------------------------------------------------------
\* The innermost handler returns.
HandlerReturns == /\ running # <<>>
                  /\ running' = Tail(running)
                  /\ UNCHANGED <<elapsed, timer_queue, left, in_timer, deadline, handlers>>

TimerTick == /\ TimerInterrupt(cyctim)
             /\ phase' = [c \in Cycs |->
                             LET p == phase[c] - TIMER_PERIOD
                             IN  IF cyctim[c] = 0 THEN 0
                                 ELSE IF p > 0 THEN p ELSE p % cyctim[c]]
             /\ UNCHANGED <<cycstat, almstat, cycatr, cyctim>>

=============================================================================
