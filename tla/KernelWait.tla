----------------------------- MODULE KernelWait -----------------------------
(***************************************************************************)
(* The wait queues of the synchronisation objects (wait.h, wait.c): what   *)
(* the semaphore, the mutex and their like share.  A wait queue is the     *)
(* sequence of the tasks in it; pri is the priority of every task.         *)
(***************************************************************************)
EXTENDS Queue

\* queue_insert_tpri: behind the last task whose priority is not lower.
queue_insert_tpri(q, t, pri) ==
    LET i == SelectInSeq(q, LAMBDA u : pri[u] > pri[t])
    IN  IF i = 0 THEN Append(q, t) ELSE InsertAt(q, i, t)

\* gcb_make_wait: in the order of arrival, or by priority with TA_TPRI.
gcb_make_wait(q, t, pri, tpri) ==
    IF tpri THEN queue_insert_tpri(q, t, pri) ELSE QueInsert(q, t)

\* gcb_change_priority
gcb_change_priority(q, t, pri) == queue_insert_tpri(QueRemove(q, t), t, pri)

\* gcb_top_of_wait_queue: the first of the queue and t, were t in it.
gcb_top_of_wait_queue(q, t, pri, tpri) ==
    IF isQueEmpty(q) \/ (tpri /\ pri[t] < pri[QueNext(q)]) THEN t ELSE QueNext(q)

\* No task stands behind one of lower priority.
PriorityOrdered(q, pri) == \A i, j \in 1..Len(q) : i < j => pri[q[i]] <= pri[q[j]]

=============================================================================
