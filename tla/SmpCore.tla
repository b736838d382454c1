------------------------------ MODULE SmpCore ------------------------------
(***************************************************************************)
(* Tasks as host threads, their sleep and wakeup, and semaphores           *)
(* (core_smp.c).  Between two steps of one thread the others run; the      *)
(* condition variables may also wake a thread for no reason.               *)
(***************************************************************************)
EXTENDS FiniteSetsExt

CONSTANTS SmpTasks, SmpSems,
          MaxSem     \* config.maxsem

ASSUME SmpAssumption == MaxSem \in Nat \ {0} /\ IsFiniteSet(SmpTasks)

VARIABLES thread,     \* of each task: "none", "created", "runs", "slp_found" (in slp_tsk
                      \* between the two mutexes), "asleep" (cond_wait), "waits", "woken", "ended"
          sleeping,   \* s_smp_tasks[].sleeping
          wants,      \* the semaphore of a thread that is in wai_sem
          sem         \* s_smp_sems[]: count, active

smp == <<thread, sleeping, wants, sem>>

SmpInit == /\ thread = [t \in SmpTasks |-> "none"]
           /\ sleeping = [t \in SmpTasks |-> FALSE]
           /\ wants = [t \in SmpTasks |-> {}]
           /\ sem = [s \in SmpSems |-> [active |-> FALSE, count |-> 0]]

go(t, p) == thread' = [thread EXCEPT ![t] = p]
runs(t) == thread[t] = "runs"

\* cre_tsk, sta_tsk and ext_tsk.  Bound: a task is started once.
smp_cre_tsk(t) == thread[t] = "none" /\ go(t, "created") /\ UNCHANGED <<sleeping, wants, sem>>
smp_sta_tsk(t) == thread[t] = "created" /\ go(t, "runs") /\ UNCHANGED <<sleeping, wants, sem>>

smp_ext_tsk(t) == runs(t) /\ go(t, "ended") /\ UNCHANGED <<sleeping, wants, sem>>

\* slp_tsk: the task looks itself up under the kernel mutex ...
slp_find(t) == runs(t) /\ go(t, "slp_found") /\ UNCHANGED <<sleeping, wants, sem>>

\* ... and sleeps under its own, whatever wup_tsk did between the two.
slp_wait(t) == /\ thread[t] = "slp_found"
               /\ sleeping' = [sleeping EXCEPT ![t] = TRUE]
               /\ go(t, "asleep") /\ UNCHANGED <<wants, sem>>

\* The thread wakes up, and looks again.
slp_wake(t) == /\ thread[t] = "asleep"
               /\ ~sleeping[t]
               /\ go(t, "runs") /\ UNCHANGED <<sleeping, wants, sem>>

\* wup_tsk of a task that was created.
smp_wup_tsk(t) == /\ thread[t] # "none"
                  /\ sleeping' = [sleeping EXCEPT ![t] = FALSE]
                  /\ UNCHANGED <<thread, wants, sem>>

-----------------------------------------------------------------------------
\* cre_sem
smp_cre_sem(s, isemcnt) == /\ ~sem[s].active
                           /\ sem' = [sem EXCEPT ![s] = [active |-> TRUE, count |-> isemcnt]]
                           /\ UNCHANGED <<thread, sleeping, wants>>

take(t, s) == /\ sem' = [sem EXCEPT ![s].count = @ - 1]
              /\ wants' = [wants EXCEPT ![t] = {}]
              /\ go(t, "runs") /\ UNCHANGED sleeping

\* wai_sem: the count is looked at again after every wakeup.
takeable(t, s) == sem[s].count > 0

wai_or_take(t, s) == IF takeable(t, s) THEN take(t, s)
                     ELSE /\ wants' = [wants EXCEPT ![t] = {s}]
                          /\ go(t, "waits") /\ UNCHANGED <<sleeping, sem>>

\* Of a semaphore that was created: without, its mutex is not initialized.
smp_wai_sem(t, s) == runs(t) /\ sem[s].active /\ wai_or_take(t, s)
wai_again(t) == thread[t] = "woken" /\ \E s \in wants[t] : wai_or_take(t, s)

\* A thread wakes without a signal.
spurious(t) == thread[t] = "waits" /\ go(t, "woken") /\ UNCHANGED <<sleeping, wants, sem>>

sem_waiters(s) == {t \in SmpTasks : thread[t] = "waits" /\ s \in wants[t]}

\* sig_sem below the limit: one waiter is woken if there is one.
\* Mutant: only a semaphore at 0 wakes.
woken_by_at_zero(s) == IF sem[s].count = 0 THEN sem_waiters(s) ELSE {}
woken_by(s) == sem_waiters(s)

smp_sig_sem(s) ==
    /\ sem[s].active /\ sem[s].count < MaxSem
    /\ sem' = [sem EXCEPT ![s].count = @ + 1]
    /\ IF woken_by(s) = {} THEN UNCHANGED thread ELSE \E t \in woken_by(s) : go(t, "woken")
    /\ UNCHANGED <<sleeping, wants>>

\* del_sem of a semaphore that nobody waits for; otherwise it destroys a
\* condition variable in use, which leaves the outcome open.
smp_del_sem(s) == /\ sem[s].active /\ \A t \in SmpTasks : s \notin wants[t]
                  /\ sem' = [sem EXCEPT ![s].active = FALSE]
                  /\ UNCHANGED <<thread, sleeping, wants>>

SmpNext == \/ \E t \in SmpTasks : \/ smp_cre_tsk(t) \/ smp_sta_tsk(t) \/ smp_ext_tsk(t) \/ slp_find(t) \/ slp_wait(t) \/ slp_wake(t)
                                  \/ smp_wup_tsk(t) \/ wai_again(t) \/ spurious(t)
                                  \/ \E s \in SmpSems : smp_wai_sem(t, s)
           \/ \E s \in SmpSems : smp_sig_sem(s) \/ smp_del_sem(s) \/ \E n \in 0..MaxSem : smp_cre_sem(s, n)

-----------------------------------------------------------------------------
SmpTypeOK == /\ thread \in [SmpTasks -> {"none", "created", "runs", "slp_found", "asleep", "waits", "woken", "ended"}]
             /\ sleeping \in [SmpTasks -> BOOLEAN]
             /\ \A s \in SmpSems : sem[s].count \in 0..MaxSem

\* No signal is lost: while a semaphore counts something nobody stays blocked for
\* it without a thread on its way to take it (sig_sem, wai_sem).
SmpSignalsKept ==
    \A s \in SmpSems : sem[s].active /\ sem[s].count > 0 /\ sem_waiters(s) # {} =>
        \E t \in SmpTasks : thread[t] = "woken" /\ s \in wants[t]

=============================================================================
