------------------------------ MODULE TaskSync ------------------------------
(***************************************************************************)
(* Sleep and wakeup, delays and task events (task_sync.c, tk_dly_tsk of    *)
(* time_calls.c), and the calls that end or disable such a wait.           *)
(***************************************************************************)
EXTENDS TimerQueue

CONSTANTS Evts,      \* the task events, 1 to 8
          Timeouts,  \* of tk_slp_tsk, tk_wai_tev and tk_dly_tsk
          WUP_MAX,   \* stands for INT_MAX, the limit of wupcnt
          DisMasks   \* what tk_dis_wai is called with

TTW == {"SLP", "DLY"} \cup Evts

ASSUME SyncAssumption == /\ WUP_MAX \in Nat /\ Timeouts \subseteq Nat \ {0}
                         /\ "SLP" \notin Evts /\ "DLY" \notin Evts
                         /\ DisMasks \subseteq SUBSET TTW

VARIABLES state,     \* tcb->state
          tskwait,   \* tcb->wspec->tskwait of a waiting task, {} of the others
          wupcnt, tskevt, waitmask

tsk == <<state, tskwait, wupcnt, tskevt, waitmask>>

SyncInit == /\ state = [t \in Tasks |-> "DORMANT"]
            /\ tskwait = [t \in Tasks |-> {}]
            /\ wupcnt = [t \in Tasks |-> 0]
            /\ tskevt = [t \in Tasks |-> {}]
            /\ waitmask = [t \in Tasks |-> {}]

alive(t)   == state[t] # "DORMANT"
waiting(t) == state[t] = "WAIT"
\* t runs and calls; w is what it is about to wait for.
calls(t, w) == TaskRuns /\ state[t] = "READY" /\ waitmask[t] \cap w = {}

\* make_wait, make_wait_reltim
make_wait(t, w, tmout) == /\ state' = [state EXCEPT ![t] = "WAIT"]
                          /\ tskwait' = [tskwait EXCEPT ![t] = w]
                          /\ timer_insert(t, tmout)
                          /\ UNCHANGED <<elapsed, in_timer, running>>

\* t leaves its wait and the timer queue (wait_release, wait_cancel).
end_wait(t, s) == /\ state' = [state EXCEPT ![t] = s]
                  /\ tskwait' = [tskwait EXCEPT ![t] = {}]
                  /\ timer_delete(t)
                  /\ UNCHANGED <<elapsed, in_timer, running>>
wait_release(t) == end_wait(t, "READY")

still == UNCHANGED <<timer, state, tskwait>>

-----------------------------------------------------------------------------
\* Mutant: the wakeups queued before are forgotten.
slp_tsk_waits(t, tmout) ==
    /\ calls(t, {"SLP"})
    /\ make_wait(t, {"SLP"}, tmout)
    /\ UNCHANGED <<wupcnt, tskevt, waitmask>>

\* tk_slp_tsk
slp_tsk(t, tmout) ==
    /\ calls(t, {"SLP"})
    /\ IF wupcnt[t] > 0 THEN wupcnt' = [wupcnt EXCEPT ![t] = @ - 1] /\ still
                        ELSE make_wait(t, {"SLP"}, tmout) /\ UNCHANGED wupcnt
    /\ UNCHANGED <<tskevt, waitmask>>

\* Mutant: one wakeup more than the limit.
may_queue_more(t) == wupcnt[t] <= WUP_MAX

\* Else tk_wup_tsk returns E_QOVR.
may_queue(t) == wupcnt[t] < WUP_MAX

\* tk_wup_tsk
wup_tsk(t) ==
    /\ Callable /\ alive(t)
    /\ IF waiting(t) /\ tskwait[t] = {"SLP"}
         THEN wait_release(t) /\ UNCHANGED wupcnt
         ELSE may_queue(t) /\ wupcnt' = [wupcnt EXCEPT ![t] = @ + 1] /\ still
    /\ UNCHANGED <<tskevt, waitmask>>

\* tk_can_wup
can_wup(t) == /\ Callable /\ alive(t)
              /\ wupcnt' = [wupcnt EXCEPT ![t] = 0]
              /\ still /\ UNCHANGED <<tskevt, waitmask>>

\* tk_wai_tev
wai_tev(t, waiptn, tmout) ==
    /\ calls(t, waiptn)
    /\ IF tskevt[t] \cap waiptn # {}
         THEN tskevt' = [tskevt EXCEPT ![t] = @ \ waiptn] /\ still
         ELSE make_wait(t, waiptn, tmout) /\ UNCHANGED tskevt
    /\ UNCHANGED <<wupcnt, waitmask>>

\* tk_sig_tev: the wait ends with tskevt and the event, or the event is kept.
sig_tev(t, e) ==
    /\ Callable /\ alive(t)
    /\ IF waiting(t) /\ e \in tskwait[t]
         THEN wait_release(t) /\ UNCHANGED tskevt
         ELSE tskevt' = [tskevt EXCEPT ![t] = @ \cup {e}] /\ still
    /\ UNCHANGED <<wupcnt, waitmask>>

\* tk_dly_tsk
dly_tsk(t, dlytim) == /\ calls(t, {"DLY"})
                      /\ make_wait(t, {"DLY"}, dlytim)
                      /\ UNCHANGED <<wupcnt, tskevt, waitmask>>

-----------------------------------------------------------------------------
\* tk_rel_wai
rel_wai(t) == Callable /\ waiting(t) /\ wait_release(t) /\ UNCHANGED <<wupcnt, tskevt, waitmask>>

\* tk_dis_wai
dis_wai(t, mask) ==
    /\ Callable
    /\ waitmask' = [waitmask EXCEPT ![t] = mask]
    /\ IF waiting(t) /\ tskwait[t] \cap mask # {} THEN wait_release(t) ELSE still
    /\ UNCHANGED <<wupcnt, tskevt>>

\* tk_ena_wai
ena_wai(t) == /\ Callable
              /\ waitmask' = [waitmask EXCEPT ![t] = {}]
              /\ still /\ UNCHANGED <<wupcnt, tskevt>>

\* tk_ter_tsk, tk_ext_tsk: wait_cancel, make_dormant
ter_tsk(t) == /\ Callable /\ alive(t)
              /\ end_wait(t, "DORMANT")
              /\ wupcnt' = [wupcnt EXCEPT ![t] = 0]
              /\ tskevt' = [tskevt EXCEPT ![t] = {}]
              /\ waitmask' = [waitmask EXCEPT ![t] = {}]

\* tk_sta_tsk
sta_tsk(t) == /\ Callable /\ ~alive(t)
              /\ state' = [state EXCEPT ![t] = "READY"]
              /\ UNCHANGED <<timer, tskwait, wupcnt, tskevt, waitmask>>

\* wait_release_tmout: timer_handler has unlinked the event.
WaitReleaseTmout(t) == Expires(t) /\ wait_release(t) /\ UNCHANGED <<wupcnt, tskevt, waitmask>>

-----------------------------------------------------------------------------
SyncTypeOK == /\ state \in [Tasks -> {"READY", "WAIT", "DORMANT"}]
              /\ tskwait \in [Tasks -> SUBSET TTW]
              /\ \A t \in Tasks : waiting(t) <=> tskwait[t] # {}
              /\ wupcnt \in [Tasks -> 0..WUP_MAX]
              /\ tskevt \in [Tasks -> SUBSET Evts] /\ waitmask \in [Tasks -> SUBSET TTW]

\* Nobody sleeps over a wakeup that is queued, waits for an event that has
\* occurred, or for something whose wait is disabled (tk_slp_tsk, tk_wai_tev,
\* tk_wup_tsk, tk_sig_tev, tk_dis_wai).
NobodyWaitsInVain ==
    \A t \in Tasks : waiting(t) => /\ tskwait[t] = {"SLP"} => wupcnt[t] = 0
                                   /\ tskevt[t] \cap tskwait[t] = {}
                                   /\ waitmask[t] \cap tskwait[t] = {}

=============================================================================
