----------------------------- MODULE Semaphore -----------------------------
(***************************************************************************)
(* A counting semaphore of the T-Kernel (semaphore.c), with everything that *)
(* can end or reorder a wait on it: tk_rel_wai, tk_dis_wai, timeouts, task  *)
(* termination, priority changes and deletion.                             *)
(*                                                                         *)
(* A system call is one step; any task that does not wait may be running.  *)
(* Calls that return an error change nothing and are stuttering steps.     *)
(***************************************************************************)
EXTENDS HookObject

CONSTANT MaxSem   \* the largest maxsem

ASSUME SemaphoreAssumption == MaxSem \in Nat \ {0}

VARIABLES ta_cnt,      \* semcb->sematr & TA_CNT
          semcnt,      \* semcb->semcnt
          maxsem,      \* semcb->maxsem
          out          \* history: counts handed out, less initial and signalled ones

sem  == <<ta_cnt, semcnt, maxsem, out>>

-----------------------------------------------------------------------------
\* One turn of the loop of tk_sig_sem and sem_chg_pri.
release(k, t) ==
    IF k.stop THEN k
    ELSE IF k.cnt < winfo[t] THEN [k EXCEPT !.stop = ~ta_cnt]
    ELSE [cnt |-> k.cnt - winfo[t], freed |-> k.freed \cup {t}, stop |-> k.cnt - winfo[t] <= 0]

\* The loop on the queue q with c counts.
release_loop(q, c) == Loop(q, [cnt |-> c, freed |-> {}, stop |-> FALSE], release)

TotalOf(S) == MapThenSumSet(LAMBDA t : winfo[t], S)

\* The outcome of the loop after cnt counts were signalled.
Freed(q, k, cnt) == /\ semcnt' = k.cnt
                    /\ wait_queue' = Without(q, k.freed)
                    /\ gets' = k.freed
                    /\ out' = out - cnt + TotalOf(k.freed)
                    /\ UNCHANGED <<ta_cnt, maxsem>>

\* sem_chg_pri after the queue became q; sem_rel_wai is the same.
sem_chg_pri(q) ==
    IF ta_cnt THEN wait_queue' = q /\ gets' = {} /\ UNCHANGED sem
              ELSE Freed(q, release_loop(q, semcnt), 0)

-----------------------------------------------------------------------------
SemInit == ta_cnt = FALSE /\ semcnt = 0 /\ maxsem = 0 /\ out = 0

\* tk_cre_sem
CreSem(atr, cnt, icnt, max) ==
    /\ icnt <= max
    /\ create(atr)
    /\ ta_cnt' = cnt /\ semcnt' = icnt /\ maxsem' = max
    /\ gets' = {} /\ out' = -icnt
    /\ UNCHANGED winfo

\* tk_del_sem: who waits is released (E_DLT).
DelSem == HookedDelete /\ UNCHANGED sem

\* Mutant: the counts that may be out are not considered.
sig_allowed_always(cnt) == objid

\* tk_sig_sem is refused beyond maxsem (E_QOVR).
sig_allowed(cnt) == objid /\ cnt <= maxsem - semcnt

\* tk_sig_sem
SigSem(cnt) ==
    /\ sig_allowed(cnt)
    /\ Freed(wait_queue, release_loop(wait_queue, semcnt + cnt), cnt)
    /\ wake(NULL, "READY")
    /\ UNCHANGED <<gcb, waitmask, priority>>

\* Mutant: a task that finds enough counts does not queue.
may_take_counts(t, cnt) == semcnt >= cnt

\* A task takes its counts at once only if it would be the first in the queue,
\* or with TA_CNT.
may_take(t, cnt) ==
    /\ ta_cnt \/ gcb_top_of_wait_queue(wait_queue, t, priority, objatr.tpri) = t
    /\ semcnt >= cnt

\* tk_wai_sem, with a timeout or without; a poll that fails is an error return.
WaiSem(t, cnt) ==
    /\ state[t] = "READY" /\ objid /\ cnt <= maxsem /\ ~is_diswai(t)
    /\ \/ /\ may_take(t, cnt)
          /\ semcnt' = semcnt - cnt
          /\ gets' = {t} /\ out' = out + cnt
          /\ UNCHANGED <<wait_queue, state, winfo>>
       \/ /\ ~may_take(t, cnt)
          /\ hook_make_wait(t, cnt)
          /\ UNCHANGED <<semcnt, out>>
    /\ UNCHANGED <<gcb, ta_cnt, maxsem, waitmask, priority>>

SemNext ==
    \/ \E atr \in Attributes, cnt \in BOOLEAN, max \in 1..MaxSem, icnt \in 0..MaxSem :
         CreSem(atr, cnt, icnt, max)
    \/ DelSem
    \/ \E cnt \in 1..MaxSem : SigSem(cnt)
    \/ \E t \in Tasks :
         \/ \E cnt \in 1..MaxSem : WaiSem(t, cnt)
         \/ HookedLeave(t, sem_chg_pri)
         \/ HookedQuiet(t) /\ UNCHANGED sem

SemSpec == GcbInit /\ HookInit /\ SemInit /\ [][SemNext]_<<gcb, tasks, hook, sem>>

-----------------------------------------------------------------------------
(* Properties                                                              *)

\* The count never leaves 0..maxsem.
SemTypeOK == /\ ta_cnt \in BOOLEAN
             /\ maxsem \in 0..MaxSem /\ semcnt \in 0..maxsem
             /\ winfo \in [Tasks -> 0..MaxSem \cup {NULL}]

\* No lost wakeup: at rest nobody waits who could be served.  That is the first
\* task of the queue, or with TA_CNT any task, and it must hold after a signal,
\* after a task in front has given up, was terminated or changed its priority.
NobodyWaitsForCounts ==
    \A i \in 1..Len(wait_queue) : i = 1 \/ ta_cnt => winfo[wait_queue[i]] > semcnt

\* Counts are neither lost nor handed out twice: what is in the semaphore and
\* what is out add up, whichever path released the tasks.
CountsConserved == objid => semcnt + out = 0

\* Without TA_CNT nobody overtakes.
CountsInOrder == ta_cnt \/ InOrder

=============================================================================
