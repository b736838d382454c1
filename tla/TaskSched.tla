----------------------------- MODULE TaskSched -----------------------------
(***************************************************************************)
(* The task scheduler of the T-Kernel: the ready queue (ready_queue.h),    *)
(* the state transitions that feed it (task.c, wait.c), the task system    *)
(* calls that trigger them (task_manage.c, task_sync.c), the kernel object *)
(* lock (klock.c) and dispatch disabling (cpu_calls.c).                    *)
(*                                                                         *)
(* A system call runs with interrupts disabled, so it is one step.  A call *)
(* that cannot block may come from the running task or from an interrupt   *)
(* handler at any time, and its effect is the same: its action names only  *)
(* the target.  A call that may block, or that is about the caller, is     *)
(* made by the task t that holds the processor, and carries Running(t).    *)
(* A call that returns an error changes nothing and is a stuttering step.  *)
(*                                                                         *)
(* The dispatcher is assembly code that is not in the repository.  Its     *)
(* contract is taken from END_CRITICAL_SECTION: it runs when ctxtsk and    *)
(* schedtsk differ, unless dispatching is disabled, and makes them equal.  *)
(***************************************************************************)
EXTENDS Queue

CONSTANTS Tasks,       \* the task control blocks of tcb_table
          NULL,        \* the null pointer
          NUM_PRI,     \* number of priorities; 0 is the highest
          Locks,       \* the OBJLOCKs, one in every fixed-size memory pool
          SliceTimes,  \* the values tk_chg_slt sets; 0 is "no time slice"
          MaxCount     \* INT_MAX, the limit of the request counters

Pri == 0 .. NUM_PRI - 1

ASSUME ConstantsAssumption ==
    /\ NULL \notin Tasks /\ NULL \notin Locks
    /\ NUM_PRI \in Nat \ {0}
    /\ SliceTimes \subseteq Nat
    /\ MaxCount \in Nat \ {0}

VARIABLES
    state,             \* tcb->state
    ipriority,         \* tcb->ipriority, the priority at task startup
    priority,          \* tcb->priority (bpriority too: nobody owns a mutex here)
    suscnt,            \* tcb->suscnt
    slicetime,         \* tcb->slicetime
    klocked,           \* tcb->klocked, the task holds a kernel lock
    klockwait,         \* tcb->klockwait, the task waits for a kernel lock
    ready_queue,       \* the RDYQUE
    lockq,             \* loc->wtskq, the tasks that wait for the lock
    locked,            \* the locks with wtskq.next # NULL
    inlock,            \* the lock that the system call t is executing needs
    ctxtsk,            \* the task that holds the processor
    schedtsk,          \* the task that should hold it
    dispatch_disabled  \* between tk_dis_dsp and tk_ena_dsp

tcb  == <<state, ipriority, priority, suscnt, slicetime, klocked, klockwait>>
vars == <<tcb, ready_queue, lockq, locked, inlock, ctxtsk, schedtsk, dispatch_disabled>>

TSTAT == {"NONEXIST", "READY", "WAIT", "SUSPEND", "WAITSUS", "DORMANT"}
task_alive(s) == s \in {"READY", "WAIT", "SUSPEND", "WAITSUS"}

RDYQUE == [top_priority : 0..NUM_PRI, tskque : [Pri -> Seq(Tasks)],
           bitmap : SUBSET Pri, klocktsk : Tasks \cup {NULL}]

-----------------------------------------------------------------------------
(* ready_queue.h.  The task's priority and lock flags are parameters.      *)

\* tskque[top_priority].next; tskque[NUM_PRI].next is the 'null' field.
top_of_queues(rq) ==
    IF rq.top_priority = NUM_PRI THEN NULL ELSE QueNext(rq.tskque[rq.top_priority])

ready_queue_top(rq) ==
    IF rq.klocktsk # NULL THEN rq.klocktsk ELSE top_of_queues(rq)

\* Mutant: the bitmap is not updated.
add_to_queue_no_bit(rq, t, pri, klock, q) ==
    [tskque       |-> [rq.tskque EXCEPT ![pri] = q],
     bitmap       |-> rq.bitmap,
     klocktsk     |-> IF klock THEN t ELSE rq.klocktsk,
     top_priority |-> IF pri < rq.top_priority THEN pri ELSE rq.top_priority]

\* The queue of priority pri with t in it becomes q.
add_to_queue(rq, t, pri, klock, q) ==
    [tskque       |-> [rq.tskque EXCEPT ![pri] = q],
     bitmap       |-> rq.bitmap \cup {pri},
     klocktsk     |-> IF klock THEN t ELSE rq.klocktsk,
     top_priority |-> IF pri < rq.top_priority THEN pri ELSE rq.top_priority]

\* Mutant: the task goes before its equals.
ready_queue_insert_lifo(rq, t, pri, klock) ==
    add_to_queue(rq, t, pri, klock, QueInsertTop(rq.tskque[pri], t))

ready_queue_insert(rq, t, pri, klock) ==
    add_to_queue(rq, t, pri, klock, QueInsert(rq.tskque[pri], t))

ready_queue_insert_top(rq, t, pri, klock) ==
    add_to_queue(rq, t, pri, klock, QueInsertTop(rq.tskque[pri], t))

\* BitSearch1_w from 'pri' upwards: the first bit set, or NUM_PRI.
BitSearch1(bitmap, pri) ==
    IF \E p \in bitmap : p >= pri
      THEN CHOOSE p \in bitmap : p >= pri /\ \A q \in bitmap : q >= pri => p <= q
      ELSE NUM_PRI

\* A task that waits for a kernel lock is not in tskque: QueRemove takes it
\* out of lockq, which the callers of this operator do.
ready_queue_delete(rq, t, pri, kwait) ==
    LET que    == IF kwait THEN rq.tskque ELSE [rq.tskque EXCEPT ![pri] = QueRemove(@, t)]
        emptied == ~kwait /\ isQueEmpty(que[pri])
        bits   == IF emptied THEN rq.bitmap \ {pri} ELSE rq.bitmap
    IN  [tskque       |-> que,
         bitmap       |-> bits,
         klocktsk     |-> IF rq.klocktsk = t THEN NULL ELSE rq.klocktsk,
         top_priority |-> IF emptied /\ pri = rq.top_priority
                            THEN BitSearch1(bits, pri) ELSE rq.top_priority]

\* The queue of priority pri in another order.
reorder(rq, pri, q) == [rq EXCEPT !.tskque = [rq.tskque EXCEPT ![pri] = q]]

ready_queue_move_last(rq, t, pri) ==
    reorder(rq, pri, QueInsert(QueRemove(rq.tskque[pri], t), t))

ready_queue_rotate(rq, pri) ==
    LET q == rq.tskque[pri]
    IN  IF isQueEmpty(q) THEN rq
        ELSE reorder(rq, pri, QueInsert(QueRemoveNext(q), QueNext(q)))

\* Mutant: the pointer is set and never cleared.
set_klocktsk_no_clear(rq, t) == IF t = NULL THEN rq ELSE [rq EXCEPT !.klocktsk = t]

\* rq->klocktsk = t
set_klocktsk(rq, t) == [rq EXCEPT !.klocktsk = t]

-----------------------------------------------------------------------------
(* task.c                                                                  *)

\* 'slicecnt' is abstracted: whether it passes 'slicetime' is the choice e.
slice_expired(t, e) == t # NULL /\ e /\ slicetime[t] > 0

time_slice_schedule(rq, t, pri, e) ==
    IF slice_expired(t, e) THEN ready_queue_move_last(rq, t, pri[t]) ELSE rq

\* reschedule() on the ready queue rq and the priorities pri.
reschedule(rq, pri, e) ==
    LET toptsk == ready_queue_top(rq)
    IN  /\ schedtsk' = toptsk
        /\ ready_queue' = IF schedtsk # toptsk /\ schedtsk = ctxtsk
                            THEN time_slice_schedule(rq, schedtsk, pri, e) ELSE rq

make_ready(t, e) ==
    LET rq == ready_queue_insert(ready_queue, t, priority[t], klocked[t])
    IN  /\ state' = [state EXCEPT ![t] = "READY"]
        /\ IF priority[t] < ready_queue.top_priority
             THEN /\ ready_queue' = IF schedtsk = ctxtsk
                                      THEN time_slice_schedule(rq, schedtsk, priority, e)
                                      ELSE rq
                  /\ schedtsk' = t
             ELSE ready_queue' = rq /\ UNCHANGED schedtsk

\* Mutant: the task stays in the queue of the lock.
leave_lockq_never(t) == lockq

\* The lock queues once t has left the one it waits in.
leave_lockq(t) == IF klockwait[t] THEN [l \in Locks |-> QueRemove(lockq[l], t)] ELSE lockq

\* Mutant: the scheduled task is not chosen again.
make_non_ready_keeps_schedtsk(t) ==
    /\ ready_queue' = ready_queue_delete(ready_queue, t, priority[t], klockwait[t])
    /\ lockq' = leave_lockq(t)
    /\ UNCHANGED schedtsk

make_non_ready(t) ==
    LET rq == ready_queue_delete(ready_queue, t, priority[t], klockwait[t])
    IN  /\ ready_queue' = rq
        /\ lockq' = leave_lockq(t)
        /\ schedtsk' = IF schedtsk = t THEN ready_queue_top(rq) ELSE schedtsk

-----------------------------------------------------------------------------

Running(t) == ctxtsk = t /\ (schedtsk = t \/ dispatch_disabled)
\* The task is executing its own code, outside every system call.
InTask(t)  == Running(t) /\ inlock[t] = NULL

Init == /\ state = [t \in Tasks |-> "NONEXIST"]
        /\ ipriority = [t \in Tasks |-> 0]
        /\ priority = [t \in Tasks |-> 0]
        /\ suscnt = [t \in Tasks |-> 0]
        /\ slicetime = [t \in Tasks |-> 0]
        /\ klocked = [t \in Tasks |-> FALSE]
        /\ klockwait = [t \in Tasks |-> FALSE]
        /\ ready_queue = [top_priority |-> NUM_PRI, tskque |-> [p \in Pri |-> <<>>],
                          bitmap |-> {}, klocktsk |-> NULL]
        /\ lockq = [l \in Locks |-> <<>>]
        /\ locked = {}
        /\ inlock = [t \in Tasks |-> NULL]
        /\ ctxtsk = NULL
        /\ schedtsk = NULL
        /\ dispatch_disabled = FALSE

\* Mutant: the suspend requests survive the task.
make_dormant_keeps_suscnt(t, ipri) ==
    /\ state' = [state EXCEPT ![t] = "DORMANT"]
    /\ ipriority' = [ipriority EXCEPT ![t] = ipri]
    /\ priority' = [priority EXCEPT ![t] = ipri]
    /\ slicetime' = [slicetime EXCEPT ![t] = 0]
    /\ klocked' = [klocked EXCEPT ![t] = FALSE]
    /\ klockwait' = [klockwait EXCEPT ![t] = FALSE]
    /\ UNCHANGED suscnt

\* make_dormant, of which tk_cre_tsk sets ipriority first.
make_dormant(t, ipri) ==
    /\ state' = [state EXCEPT ![t] = "DORMANT"]
    /\ ipriority' = [ipriority EXCEPT ![t] = ipri]
    /\ priority' = [priority EXCEPT ![t] = ipri]
    /\ suscnt' = [suscnt EXCEPT ![t] = 0]
    /\ slicetime' = [slicetime EXCEPT ![t] = 0]
    /\ klocked' = [klocked EXCEPT ![t] = FALSE]
    /\ klockwait' = [klockwait EXCEPT ![t] = FALSE]

\* tk_cre_tsk; the order of the free TCBs is left open.
CreTsk(t, ipri) ==
    /\ state[t] = "NONEXIST"
    /\ make_dormant(t, ipri)
    /\ UNCHANGED <<ready_queue, lockq, locked, inlock, ctxtsk, schedtsk, dispatch_disabled>>

\* tk_del_tsk
DelTsk(t) ==
    /\ state[t] = "DORMANT"
    /\ state' = [state EXCEPT ![t] = "NONEXIST"]
    /\ UNCHANGED <<ipriority, priority, suscnt, slicetime, klocked, klockwait, ready_queue,
                   lockq, locked, inlock, ctxtsk, schedtsk, dispatch_disabled>>

\* tk_sta_tsk
StaTsk(t, e) ==
    /\ state[t] = "DORMANT"
    /\ make_ready(t, e)
    /\ UNCHANGED <<ipriority, priority, suscnt, slicetime, klocked, klockwait,
                   lockq, locked, inlock, ctxtsk, dispatch_disabled>>

\* _ter_tsk of a task that holds neither an extended SVC lock nor a mutex.
ter_tsk(t) ==
    IF state[t] = "READY" THEN make_non_ready(t)
                          ELSE UNCHANGED <<ready_queue, lockq, schedtsk>>

\* tk_ext_tsk; force_dispatch leaves the old context behind.
ExtTsk(t) ==
    /\ InTask(t)
    /\ ter_tsk(t)
    /\ make_dormant(t, ipriority[t])
    /\ ctxtsk' = NULL
    /\ dispatch_disabled' = FALSE
    /\ UNCHANGED <<locked, inlock>>

\* tk_exd_tsk; the TCB goes back to the free list as it is.  (The links of the
\* free list are left out, and with them what becomes of them when a handler has
\* terminated and deleted the caller before it calls tk_ext_tsk or tk_exd_tsk.)
ExdTsk(t) ==
    /\ InTask(t)
    /\ ter_tsk(t)
    /\ state' = [state EXCEPT ![t] = "NONEXIST"]
    /\ klockwait' = [klockwait EXCEPT ![t] = FALSE]
    /\ ctxtsk' = NULL
    /\ dispatch_disabled' = FALSE
    /\ UNCHANGED <<ipriority, priority, suscnt, slicetime, klocked, locked, inlock>>

\* tk_ter_tsk; refused while the task holds a kernel lock.  CHECK_NONSELF keeps
\* a task from naming itself, and not an interrupt handler from naming ctxtsk,
\* which then keeps the processor until the next dispatch.
TerTsk(t) ==
    /\ task_alive(state[t])
    /\ ~klocked[t]
    /\ ter_tsk(t)
    /\ make_dormant(t, ipriority[t])
    /\ inlock' = [inlock EXCEPT ![t] = NULL]
    /\ UNCHANGED <<locked, ctxtsk, dispatch_disabled>>

\* The task is filed again under its new priority; one that waited for a
\* kernel lock becomes runnable and tries again.
change_task_priority(t, pri, e) ==
    /\ priority' = [priority EXCEPT ![t] = pri]
    /\ IF state[t] = "READY"
         THEN LET out == ready_queue_delete(ready_queue, t, priority[t], klockwait[t])
              IN  /\ reschedule(ready_queue_insert(out, t, pri, klocked[t]), priority', e)
                  /\ lockq' = leave_lockq(t)
                  /\ klockwait' = [klockwait EXCEPT ![t] = FALSE]
         ELSE UNCHANGED <<ready_queue, schedtsk, lockq, klockwait>>

\* tk_chg_pri, and the mutex operations that call change_task_priority.
ChgPri(t, pri, e) ==
    /\ state[t] # "NONEXIST"
    /\ change_task_priority(t, pri, e)
    /\ UNCHANGED <<state, ipriority, suscnt, slicetime, klocked, locked, inlock, ctxtsk,
                   dispatch_disabled>>

rotate_ready_queue(pri, e) ==
    reschedule(ready_queue_rotate(ready_queue, pri), priority, e)

\* tk_rot_rdq; TPRI_RUN stands for the priority of the caller, or the highest.
RotRdq(pri, e) ==
    /\ rotate_ready_queue(pri, e)
    /\ UNCHANGED <<tcb, lockq, locked, inlock, ctxtsk, dispatch_disabled>>

\* tk_chg_slt
ChgSlt(t, slt) ==
    /\ state[t] # "NONEXIST"
    /\ slicetime' = [slicetime EXCEPT ![t] = slt]
    /\ UNCHANGED <<state, ipriority, priority, suscnt, klocked, klockwait, ready_queue,
                   lockq, locked, inlock, ctxtsk, schedtsk, dispatch_disabled>>

\* Mutants: without the limit of the count; without the check of the context.
sus_allowed_no_limit(t) == task_alive(state[t]) /\ ~(t = ctxtsk /\ dispatch_disabled)
sus_allowed_no_ctx(t) == task_alive(state[t]) /\ suscnt[t] < MaxCount

\* tk_sus_tsk is refused for a task that is not alive (E_OBJ), for the running
\* task while dispatching is disabled (E_CTX) and at the limit (E_QOVR).
sus_allowed(t) ==
    /\ task_alive(state[t])
    /\ ~(t = ctxtsk /\ dispatch_disabled)
    /\ suscnt[t] < MaxCount

\* tk_sus_tsk
SusTsk(t) ==
    /\ sus_allowed(t)
    /\ suscnt' = [suscnt EXCEPT ![t] = @ + 1]
    /\ \/ /\ state[t] = "READY"
          /\ make_non_ready(t)
          /\ klockwait' = [klockwait EXCEPT ![t] = FALSE]
          /\ state' = [state EXCEPT ![t] = "SUSPEND"]
       \/ /\ state[t] # "READY"
          /\ state' = [state EXCEPT ![t] = IF @ = "WAIT" THEN "WAITSUS" ELSE @]
          /\ UNCHANGED <<klockwait, ready_queue, lockq, schedtsk>>
    /\ UNCHANGED <<ipriority, priority, slicetime, klocked, locked, inlock, ctxtsk,
                   dispatch_disabled>>

\* Leave the suspended state with cnt requests left.
resume(t, cnt, e) ==
    /\ suscnt' = [suscnt EXCEPT ![t] = cnt]
    /\ \/ /\ cnt > 0
          /\ UNCHANGED <<state, ready_queue, schedtsk>>
       \/ /\ cnt = 0 /\ state[t] = "SUSPEND"
          /\ make_ready(t, e)
       \/ /\ cnt = 0 /\ state[t] = "WAITSUS"
          /\ state' = [state EXCEPT ![t] = "WAIT"]
          /\ UNCHANGED <<ready_queue, schedtsk>>

\* tk_rsm_tsk
RsmTsk(t, e) ==
    /\ state[t] \in {"SUSPEND", "WAITSUS"}
    /\ resume(t, suscnt[t] - 1, e)
    /\ UNCHANGED <<ipriority, priority, slicetime, klocked, klockwait, lockq, locked, inlock,
                   ctxtsk, dispatch_disabled>>

\* tk_frsm_tsk
FrsmTsk(t, e) ==
    /\ state[t] \in {"SUSPEND", "WAITSUS"}
    /\ resume(t, 0, e)
    /\ UNCHANGED <<ipriority, priority, slicetime, klocked, klockwait, lockq, locked, inlock,
                   ctxtsk, dispatch_disabled>>

\* The running task blocks: make_wait, as tk_slp_tsk and its like call it.
MakeWait(t) ==
    /\ InTask(t) /\ ~dispatch_disabled /\ state[t] = "READY"
    /\ make_non_ready(t)
    /\ klockwait' = [klockwait EXCEPT ![t] = FALSE]
    /\ state' = [state EXCEPT ![t] = "WAIT"]
    /\ UNCHANGED <<ipriority, priority, suscnt, slicetime, klocked, locked, inlock, ctxtsk,
                   dispatch_disabled>>

\* make_non_wait: a wakeup, the release of an object, tk_rel_wai or a timeout.
WaitRelease(t, e) ==
    /\ \/ /\ state[t] = "WAIT"
          /\ make_ready(t, e)
       \/ /\ state[t] = "WAITSUS"
          /\ state' = [state EXCEPT ![t] = "SUSPEND"]
          /\ UNCHANGED <<ready_queue, schedtsk>>
    /\ UNCHANGED <<ipriority, priority, suscnt, slicetime, klocked, klockwait, lockq, locked,
                   inlock, ctxtsk, dispatch_disabled>>

-----------------------------------------------------------------------------
(* klock.c: the object lock, as the memory pool calls use it               *)

\* LockOBJ, called first (inlock = NULL) or retried after a wait that ended
\* without the lock.
LockOBJ(t, l) ==
    /\ Running(t) /\ ~dispatch_disabled
    /\ inlock[t] \in {NULL, l} /\ ~klocked[t]
    /\ inlock' = [inlock EXCEPT ![t] = l]
    /\ \/ /\ l \notin locked
          /\ locked' = locked \cup {l}
          /\ klocked' = [klocked EXCEPT ![t] = TRUE]
          /\ ready_queue' = set_klocktsk(ready_queue, t)
          /\ UNCHANGED <<klockwait, lockq, schedtsk>>
       \/ /\ l \in locked
          /\ LET rq == ready_queue_delete(ready_queue, t, priority[t], klockwait[t])
             IN  ready_queue' = rq /\ schedtsk' = ready_queue_top(rq)
          /\ klockwait' = [klockwait EXCEPT ![t] = TRUE]
          /\ lockq' = [leave_lockq(t) EXCEPT ![l] = QueInsert(@, t)]
          /\ UNCHANGED <<locked, klocked>>
    /\ UNCHANGED <<state, ipriority, priority, suscnt, slicetime, ctxtsk, dispatch_disabled>>

\* The body of UnlockOBJ on the ready queue rq: the lock goes to the first
\* task that waits for it, which returns to the ready queue in front.
unlock(t, l, rq) ==
    LET rq0 == set_klocktsk(rq, NULL)
        w   == QueNext(lockq[l])
        rq1 == IF isQueEmpty(lockq[l]) THEN rq0
               ELSE ready_queue_insert_top(rq0, w, priority[w], TRUE)
    IN  /\ ready_queue' = rq1
        /\ schedtsk' = ready_queue_top(rq1)
        /\ IF isQueEmpty(lockq[l])
             THEN /\ locked' = locked \ {l}
                  /\ klocked' = [klocked EXCEPT ![t] = FALSE]
                  /\ UNCHANGED <<klockwait, lockq>>
             ELSE /\ klocked' = [klocked EXCEPT ![t] = FALSE, ![w] = TRUE]
                  /\ klockwait' = [klockwait EXCEPT ![w] = FALSE]
                  /\ lockq' = [lockq EXCEPT ![l] = QueRemoveNext(@)]
                  /\ UNCHANGED locked

\* UnlockOBJ at the end of the system call
UnlockOBJ(t) ==
    /\ Running(t) /\ klocked[t]
    /\ unlock(t, inlock[t], ready_queue)
    /\ inlock' = [inlock EXCEPT ![t] = NULL]
    /\ UNCHANGED <<state, ipriority, priority, suscnt, slicetime, ctxtsk, dispatch_disabled>>

\* The end of tk_get_mpf on an empty pool: gcb_make_wait, then UnlockOBJ, in
\* one critical section.
WaitUnlock(t) ==
    /\ Running(t) /\ klocked[t] /\ state[t] = "READY"
    /\ state' = [state EXCEPT ![t] = "WAIT"]
    /\ unlock(t, inlock[t], ready_queue_delete(ready_queue, t, priority[t], klockwait[t]))
    /\ inlock' = [inlock EXCEPT ![t] = NULL]
    /\ UNCHANGED <<ipriority, priority, suscnt, slicetime, ctxtsk, dispatch_disabled>>

-----------------------------------------------------------------------------
(* Dispatching                                                             *)

\* tk_dis_dsp
DisDsp(t) ==
    /\ InTask(t)
    /\ dispatch_disabled' = TRUE
    /\ UNCHANGED <<tcb, ready_queue, lockq, locked, inlock, ctxtsk, schedtsk>>

\* tk_ena_dsp; it dispatches at once.
EnaDsp(t) ==
    /\ InTask(t)
    /\ dispatch_disabled' = FALSE
    /\ ctxtsk' = schedtsk
    /\ UNCHANGED <<tcb, ready_queue, lockq, locked, inlock, schedtsk>>

\* END_CRITICAL_SECTION, the return from an interrupt, and the idle loop
Dispatch ==
    /\ ctxtsk # schedtsk /\ ~dispatch_disabled
    /\ ctxtsk' = schedtsk
    /\ UNCHANGED <<tcb, ready_queue, lockq, locked, inlock, schedtsk, dispatch_disabled>>

\* timer_handler up to the timer events, which are steps of their own.
TimerTick ==
    /\ ctxtsk # NULL /\ schedtsk = ctxtsk
    /\ slice_expired(ctxtsk, TRUE)
    /\ ready_queue' = ready_queue_move_last(ready_queue, ctxtsk, priority[ctxtsk])
    /\ schedtsk' = QueNext(ready_queue'.tskque[priority[ctxtsk]])
    /\ UNCHANGED <<tcb, lockq, locked, inlock, ctxtsk, dispatch_disabled>>

Next ==
    \/ \E t \in Tasks :
         \/ \E p \in Pri : CreTsk(t, p)
         \/ DelTsk(t) \/ ExtTsk(t) \/ ExdTsk(t) \/ TerTsk(t)
         \/ \E slt \in SliceTimes : ChgSlt(t, slt)
         \/ SusTsk(t) \/ MakeWait(t)
         \/ \E l \in Locks : LockOBJ(t, l)
         \/ UnlockOBJ(t) \/ WaitUnlock(t)
         \/ DisDsp(t) \/ EnaDsp(t)
         \/ \E e \in BOOLEAN :
              \/ StaTsk(t, e)
              \/ \E p \in Pri : ChgPri(t, p, e)
              \/ RsmTsk(t, e) \/ FrsmTsk(t, e) \/ WaitRelease(t, e)
    \/ \E p \in Pri, e \in BOOLEAN : RotRdq(p, e)
    \/ Dispatch
    \/ TimerTick

Spec == Init /\ [][Next]_vars

-----------------------------------------------------------------------------
(* Properties                                                              *)

\* Type correctness of the TCB fields, the ready queue and the locks.
TypeOK ==
    /\ state \in [Tasks -> TSTAT]
    /\ ipriority \in [Tasks -> Pri] /\ priority \in [Tasks -> Pri]
    /\ suscnt \in [Tasks -> 0..MaxCount]
    /\ slicetime \in [Tasks -> SliceTimes \cup {0}]
    /\ klocked \in [Tasks -> BOOLEAN] /\ klockwait \in [Tasks -> BOOLEAN]
    /\ ready_queue \in RDYQUE
    /\ lockq \in [Locks -> Seq(Tasks)] /\ locked \in SUBSET Locks
    /\ inlock \in [Tasks -> Locks \cup {NULL}]
    /\ ctxtsk \in Tasks \cup {NULL} /\ schedtsk \in Tasks \cup {NULL}
    /\ dispatch_disabled \in BOOLEAN

\* The tasks that compete for the processor.
Runnable == {t \in Tasks : state[t] = "READY" /\ ~klockwait[t]}

\* Every runnable task is linked once, at its current priority, and no other
\* task is linked.
QueuesExact(rq, R, pri) ==
    \A p \in Pri : /\ IsInjective(rq.tskque[p])
                   /\ ToSet(rq.tskque[p]) = {t \in R : pri[t] = p}

\* The bitmap and top_priority, which the code keeps so as not to search,
\* say what a search of the queues would find.
IndexExact(rq) ==
    /\ rq.bitmap = {p \in Pri : rq.tskque[p] # <<>>}
    /\ \A p \in rq.bitmap : rq.top_priority <= p
    /\ rq.top_priority \in rq.bitmap \cup {NUM_PRI}

\* The ready queue is exact in every state: no task is lost from it, left in
\* it when it stops being ready, linked twice, or filed under the priority it
\* had before change_task_priority (task.c warns about the order of the calls).
ReadyQueueExact == QueuesExact(ready_queue, Runnable, priority) /\ IndexExact(ready_queue)

\* schedtsk, which task.c updates by hand at every transition, is a runnable
\* task whenever there is one: the dispatcher never loads a task that waits, is
\* suspended or has ended, and never idles while work is ready.
SchedtskRunnable ==
    /\ schedtsk # NULL => schedtsk \in Runnable
    /\ schedtsk = NULL => Runnable = {}

\* While no task holds a kernel lock the scheduler is strictly priority based
\* and first come first served: schedtsk is the head of the highest queue,
\* whatever sequence of preemptions, time slices, rotations, priority changes,
\* suspensions and lock hand-overs led there.
TopPriorityScheduled ==
    (\A t \in Tasks : ~klocked[t]) => schedtsk = top_of_queues(ready_queue)

\* The parts of KernelLockExact
LockHolders ==
    /\ \A t, u \in Tasks : klocked[t] /\ klocked[u] /\ inlock[t] = inlock[u] => t = u
    /\ locked = {inlock[t] : t \in {u \in Tasks : klocked[u]}}

LockQueues ==
    \A l \in Locks : /\ IsInjective(lockq[l])
                     /\ ToSet(lockq[l]) = {t \in Tasks : klockwait[t] /\ inlock[t] = l}

LockStates ==
    \A t \in Tasks :
        /\ klockwait[t] => state[t] = "READY" /\ inlock[t] \in locked /\ ~klocked[t]
        /\ klocked[t] => state[t] \in {"READY", "SUSPEND"}

\* A kernel lock has one holder when it is locked and none when it is free;
\* tasks wait only for a locked one, and each of them is queued for the lock
\* its system call needs, once, and is READY.  So no unlock, suspension,
\* termination or priority change of a waiter loses a lock or a waiter.
KernelLockExact == LockHolders /\ LockQueues /\ LockStates

\* klocktsk, by which ready_queue_top overrides the priorities, never points to
\* a task that has given its lock back or is not runnable.
KlocktskHolds ==
    ready_queue.klocktsk # NULL =>
        klocked[ready_queue.klocktsk] /\ ready_queue.klocktsk \in Runnable

\* An interrupt handler has terminated the task while it kept the processor by
\* disabling dispatching: tk_ter_tsk does not test for it, as tk_sus_tsk does.
EndedDisabled(t) == dispatch_disabled /\ ~task_alive(state[t])

\* The task that executes never waits, is not suspended and is not queued for a
\* lock, even while dispatching is disabled and schedtsk is another task:
\* make_wait relies on it ("However, it does not be in WAIT state", wait.c).  It
\* is READY, but for a task that a handler has terminated while it had
\* dispatching disabled.  And a task that disables dispatching keeps the
\* processor and holds no kernel lock, so no other task can be made to wait for
\* one that it cannot give back.
RunningReady ==
    /\ \A t \in Tasks : Running(t) => t \in Runnable \/ EndedDisabled(t)
    /\ dispatch_disabled => ctxtsk \in Tasks /\ inlock[ctxtsk] = NULL

\* A task is suspended exactly while there are suspend requests to take back.
SuspendCounted == \A t \in Tasks : suscnt[t] > 0 <=> state[t] \in {"SUSPEND", "WAITSUS"}

\* ready_queue.h: "Multiple READY tasks with kernel lock do not exist at the
\* same time."  (Not so: see the README.)
OneReadyKlocked ==
    \A t, u \in Tasks : klocked[t] /\ klocked[u] /\ state[t] = "READY" /\ state[u] = "READY" => t = u

=============================================================================
