------------------------------- MODULE Mutex -------------------------------
(***************************************************************************)
(* The mutexes of the T-Kernel (mutex.c) with their two protocols against  *)
(* priority inversion: TA_INHERIT, where the holder runs with the priority *)
(* of the most urgent task that waits, and TA_CEILING, where it runs with  *)
(* the priority fixed at creation.  Both act through change_task_priority, *)
(* which calls back into the mutex a task waits for, and so on along the   *)
(* chain of holders.                                                       *)
(*                                                                         *)
(* A system call is one step.  Any task that does not wait for a mutex may *)
(* be the one that runs: the others may sleep.                             *)
(***************************************************************************)
EXTENDS KernelWait

CONSTANTS Tasks,
          NULL,
          Mutexes,     \* mutex IDs, a set of integers
          NUM_PRI,     \* number of priorities; 0 is the highest
          INI_PRI,     \* ipriority of every task
          Attributes,  \* the [atr, ceilpri] a mutex may be created with
          Nested       \* TRUE: applications lock mutexes in the order of their IDs

Pri == 0 .. NUM_PRI - 1
NONE == [atr |-> "NONE", ceilpri |-> 0]
MtxAtr == [atr : {"TFIFO", "TPRI", "INHERIT", "CEILING"}, ceilpri : Pri]

ASSUME MutexAssumption ==
    /\ NULL \notin Tasks /\ NULL \notin Mutexes /\ Mutexes \subseteq Int /\ IsFiniteSet(Mutexes)
    /\ NUM_PRI \in Nat /\ INI_PRI \in Pri /\ Attributes \subseteq MtxAtr /\ Nested \in BOOLEAN

VARIABLES mtxatr,      \* mtxcb->mtxatr and ceilpri; NONE if mtxid = 0
          mtxtsk,      \* mtxcb->mtxtsk, the task that holds the mutex
          wait_queue,  \* mtxcb->wait_queue
          mtxlist,     \* tcb->mtxlist, the mutexes a task holds, latest first
          state,       \* tcb->state: WAIT is a wait for a mutex, READY the rest
          wid,         \* tcb->wid, the mutex a task waits for
          priority,    \* tcb->priority
          bpriority    \* tcb->bpriority, the base priority

vars == <<mtxatr, mtxtsk, wait_queue, mtxlist, state, wid, priority, bpriority>>

\* What the chain of calls reads and writes, as one record.
Kernel == [mtxtsk |-> mtxtsk, wait_queue |-> wait_queue, mtxlist |-> mtxlist,
           state |-> state, wid |-> wid, priority |-> priority, bpriority |-> bpriority]

Commit(k) == /\ mtxtsk' = k.mtxtsk /\ wait_queue' = k.wait_queue /\ mtxlist' = k.mtxlist
             /\ state' = k.state /\ wid' = k.wid
             /\ priority' = k.priority /\ bpriority' = k.bpriority

Inherit(m) == mtxatr[m].atr = "INHERIT"
Ceiling(m) == mtxatr[m].atr = "CEILING"

-----------------------------------------------------------------------------
\* The priorities that holding mutex m gives: mtx_head_pri, or the ceiling.
Imposed(k, m) ==
    IF Ceiling(m) THEN {mtxatr[m].ceilpri}
    ELSE IF Inherit(m) /\ ~isQueEmpty(k.wait_queue[m])
           THEN {k.priority[QueNext(k.wait_queue[m])]}
           ELSE {}

ImposedOn(k, t) == UNION {Imposed(k, m) : m \in ToSet(k.mtxlist[t])}

\* The place of t in the queue it waits in, after a change of its priority.
requeue(k, t) ==
    [k EXCEPT !.wait_queue[k.wid[t]] = gcb_change_priority(@, t, k.priority)]

\* A change of priority that is to be made: task c.to is to have c.pri, or there
\* is none.
change(k, t, pri) == [k |-> k, to |-> t, pri |-> pri]
done(k) == change(k, NULL, INI_PRI)

\* release_mutex takes mutex m (or none) from the list of t and gives t the highest
\* of its base priority and the priorities of the mutexes it still holds.
release_one(k, t, m) ==
    LET k1 == [k EXCEPT !.mtxlist[t] = QueRemove(@, m)]
        newpri == Min({k.bpriority[t]} \cup ImposedOn(k1, t))
    IN  IF newpri # k.priority[t] THEN change(k1, t, newpri) ELSE done(k1)

\* mtx_chg_pri raises the holder with its waiter, or lets it down again.
mtx_chg_pri(k, t, oldpri) ==
    LET k1 == requeue(k, t)
        m  == k.wid[t]
        o  == k.mtxtsk[m]
    IN  IF Inherit(m) /\ k1.priority[o] > k1.priority[t] THEN change(k1, o, k1.priority[t])
        ELSE IF Inherit(m) /\ k1.priority[o] = oldpri THEN release_one(k1, o, NULL)
        ELSE done(k1)

\* One call of change_task_priority, which ends in the call that makes the next
\* change.  TA_TFIFO mutexes have no chg_pri_hook.
change_one(c) ==
    IF c.to = NULL THEN c
    ELSE LET k1 == [c.k EXCEPT !.priority[c.to] = c.pri]
         IN  IF c.k.state[c.to] = "WAIT" /\ mtxatr[c.k.wid[c.to]].atr # "TFIFO"
               THEN mtx_chg_pri(k1, c.to, c.k.priority[c.to]) ELSE done(k1)

\* All of them, along the chain of holders, which passes each mutex at most once.
chain(c) ==
    LET after[n \in 0..Cardinality(Mutexes) + 1] == IF n = 0 THEN c ELSE change_one(after[n - 1])
    IN  after[Cardinality(Mutexes) + 1].k

change_task_priority(k, t, pri) == chain(change(k, t, pri))
release_mutex(k, t, m) == chain(release_one(k, t, m))

\* Mutant: the holder keeps the priority of a waiter that has gone.
mtx_rel_wai_nothing(k, t) == k

\* The rel_wai_hook of TA_INHERIT, when t has left the queue.
mtx_rel_wai(k, t) ==
    LET o == k.mtxtsk[k.wid[t]]
    IN  IF Inherit(k.wid[t]) /\ k.priority[o] = k.priority[t]
          THEN release_mutex(k, o, NULL) ELSE k

\* Make t the holder of m.
get_lock(k, m, t) ==
    LET k1 == [k EXCEPT !.mtxtsk[m] = t, !.mtxlist[t] = QueInsertTop(@, m)]
    IN  IF Ceiling(m) /\ k.priority[t] > mtxatr[m].ceilpri
          THEN change_task_priority(k1, t, mtxatr[m].ceilpri) ELSE k1

\* wait_release, which wait_release_ok and its like share
wait_release(k, t) ==
    [k EXCEPT !.wait_queue[k.wid[t]] = QueRemove(@, t), !.state[t] = "READY"]

\* Mutex m goes to the first task that waits for it, or becomes free.
hand_over(k, m) ==
    IF isQueEmpty(k.wait_queue[m]) THEN [k EXCEPT !.mtxtsk[m] = NULL]
    ELSE LET w == QueNext(k.wait_queue[m]) IN get_lock(wait_release(k, w), m, w)

\* Mutant: only the mutex locked last is given back.
signal_all_mutex_first(k, t) ==
    IF k.mtxlist[t] = <<>> THEN k ELSE hand_over(k, Head(k.mtxlist[t]))

signal_all_mutex(k, t) == Loop(k.mtxlist[t], k, hand_over)

-----------------------------------------------------------------------------
Init == /\ mtxatr = [m \in Mutexes |-> NONE]
        /\ mtxtsk = [m \in Mutexes |-> NULL]
        /\ wait_queue = [m \in Mutexes |-> <<>>]
        /\ mtxlist = [t \in Tasks |-> <<>>]
        /\ state = [t \in Tasks |-> "DORMANT"]
        /\ wid = [t \in Tasks |-> NULL]
        /\ priority = [t \in Tasks |-> INI_PRI]
        /\ bpriority = [t \in Tasks |-> INI_PRI]

\* tk_cre_mtx
CreMtx(m, atr) ==
    /\ mtxatr[m] = NONE
    /\ mtxatr' = [mtxatr EXCEPT ![m] = atr]
    /\ mtxtsk' = [mtxtsk EXCEPT ![m] = NULL]
    /\ UNCHANGED <<wait_queue, mtxlist, state, wid, priority, bpriority>>

\* tk_del_mtx: the holder loses the mutex, and who waits is released (E_DLT).
DelMtx(m) ==
    /\ mtxatr[m] # NONE
    /\ LET k == IF mtxtsk[m] # NULL THEN release_mutex(Kernel, mtxtsk[m], m) ELSE Kernel
       IN  Commit(Loop(k.wait_queue[m], k, wait_release))
    /\ mtxatr' = [mtxatr EXCEPT ![m] = NONE]

\* tk_loc_mtx is refused for a mutex that t holds already, and for one whose
\* ceiling is below the base priority of t (E_ILUSE).
loc_allowed(t, m) ==
    /\ mtxatr[m] # NONE /\ mtxtsk[m] # t
    /\ Ceiling(m) => bpriority[t] >= mtxatr[m].ceilpri

\* tk_loc_mtx.  With Nested, t holds no mutex with a higher ID.
LocMtx(t, m) ==
    /\ state[t] = "READY" /\ loc_allowed(t, m)
    /\ Nested => \A n \in ToSet(mtxlist[t]) : n < m
    /\ IF mtxtsk[m] = NULL THEN Commit(get_lock(Kernel, m, t))
       ELSE LET o == mtxtsk[m]
                k == IF Inherit(m) /\ priority[o] > priority[t]
                       THEN change_task_priority(Kernel, o, priority[t]) ELSE Kernel
            IN  Commit([k EXCEPT !.state[t] = "WAIT", !.wid[t] = m,
                           !.wait_queue[m] = gcb_make_wait(@, t, k.priority, mtxatr[m].atr # "TFIFO")])
    /\ UNCHANGED mtxatr

\* tk_unl_mtx
UnlMtx(t, m) ==
    /\ state[t] = "READY" /\ mtxatr[m] # NONE /\ mtxtsk[m] = t
    /\ Commit(hand_over(release_mutex(Kernel, t, m), m))
    /\ UNCHANGED mtxatr

\* A timeout, tk_rel_wai or tk_dis_wai ends the wait: the task is out of the
\* queue and no longer in WAIT when the hook runs.
WaitReleaseNg(t) ==
    /\ state[t] = "WAIT"
    /\ Commit(mtx_rel_wai(wait_release(Kernel, t), t))
    /\ UNCHANGED mtxatr

\* tk_ter_tsk and tk_ext_tsk.  The task is out of the queue, but still in WAIT,
\* when the hook runs.
TerTsk(t) ==
    /\ state[t] # "DORMANT"
    /\ LET k0 == [Kernel EXCEPT !.wait_queue[wid[t]] = QueRemove(@, t)]
           k1 == IF state[t] = "WAIT" THEN mtx_rel_wai(k0, t) ELSE Kernel
           k2 == signal_all_mutex(k1, t)
       IN  Commit([k2 EXCEPT !.state[t] = "DORMANT", !.mtxlist[t] = <<>>,
                             !.priority[t] = INI_PRI, !.bpriority[t] = INI_PRI])
    /\ UNCHANGED mtxatr

\* tk_sta_tsk
StaTsk(t) ==
    /\ state[t] = "DORMANT"
    /\ state' = [state EXCEPT ![t] = "READY"]
    /\ UNCHANGED <<mtxatr, mtxtsk, wait_queue, mtxlist, wid, priority, bpriority>>

\* Mutant: the mutex that t waits for is forgotten.
Limiting_held(t) == {m \in Mutexes : Ceiling(m) /\ m \in ToSet(mtxlist[t])}

\* The mutexes whose ceiling limits the base priority of t.
Limiting(t) ==
    {m \in Mutexes : Ceiling(m) /\ (m \in ToSet(mtxlist[t]) \/ (state[t] = "WAIT" /\ wid[t] = m))}

\* Mutant: the external priority, which counts from 1, is used as it is.
chg_pri_mutex_unconverted(t, pri) == Min({pri + 1} \cup ImposedOn(Kernel, t))

\* chg_pri_mutex when it does not refuse: the priority t may have.
chg_pri_mutex(t, pri) == Min({pri} \cup ImposedOn(Kernel, t))

\* tk_chg_pri
ChgPri(t, pri) ==
    /\ \A m \in Limiting(t) : pri >= mtxatr[m].ceilpri
    /\ Commit(change_task_priority([Kernel EXCEPT !.bpriority[t] = pri], t, chg_pri_mutex(t, pri)))
    /\ UNCHANGED mtxatr

Next ==
    \/ \E m \in Mutexes : (\E atr \in Attributes : CreMtx(m, atr)) \/ DelMtx(m)
    \/ \E t \in Tasks :
         \/ \E m \in Mutexes : LocMtx(t, m) \/ UnlMtx(t, m)
         \/ WaitReleaseNg(t) \/ TerTsk(t) \/ StaTsk(t)
         \/ \E p \in Pri : ChgPri(t, p)

Spec == Init /\ [][Next]_vars

-----------------------------------------------------------------------------
(* Properties                                                              *)

\* Type correctness of the mutex control blocks and the task fields.
TypeOK ==
    /\ mtxatr \in [Mutexes -> MtxAtr \cup {NONE}]
    /\ mtxtsk \in [Mutexes -> Tasks \cup {NULL}]
    /\ wait_queue \in [Mutexes -> Seq(Tasks)]
    /\ mtxlist \in [Tasks -> Seq(Mutexes)]
    /\ state \in [Tasks -> {"READY", "WAIT", "DORMANT"}]
    /\ wid \in [Tasks -> Mutexes \cup {NULL}]
    /\ priority \in [Tasks -> Pri] /\ bpriority \in [Tasks -> Pri]

Exists == {m \in Mutexes : mtxatr[m] # NONE}
Holds(t) == {m \in Exists : mtxtsk[m] = t}

\* The holders the mutexes name and the lists the tasks keep agree, a task
\* holds nothing once it has ended, nobody waits for a free mutex, and no task
\* waits for a mutex it holds: whatever unlock, deletion, timeout or
\* termination handed the mutexes on.
HoldersExact ==
    \A t \in Tasks :
        /\ IsInjective(mtxlist[t]) /\ ToSet(mtxlist[t]) = Holds(t)
        /\ state[t] = "DORMANT" => Holds(t) = {}
        /\ state[t] = "WAIT" => mtxtsk[wid[t]] \in Tasks \ {t}

\* The wait queues hold exactly the tasks that wait, each once; and the queues
\* of all but the TA_TFIFO mutexes stay ordered by the priorities of the
\* moment, which the protocols change for tasks that wait themselves.
WaitQueuesExact ==
    \A m \in Mutexes :
        /\ IsInjective(wait_queue[m])
        /\ ToSet(wait_queue[m]) = {t \in Tasks : state[t] = "WAIT" /\ wid[t] = m}
        /\ mtxatr[m].atr # "TFIFO" => PriorityOrdered(wait_queue[m], priority)

\* Whatever unlock, deletion, timeout, release or termination handed the mutexes
\* on (release_mutex, signal_all_mutex), holders and wait queues are exact.
MutexesExact == HoldersExact /\ WaitQueuesExact

\* A task runs with exactly the highest of its base priority, the ceilings of
\* the mutexes it holds and the priorities of the tasks that wait for the
\* TA_INHERIT mutexes it holds, those priorities being inherited in turn: no
\* inversion along a chain of holders, and no boost that outlives its reason.
PriorityExact ==
    \A t \in Tasks :
        priority[t] = Min({bpriority[t]}
                          \cup {mtxatr[m].ceilpri : m \in {n \in Holds(t) : Ceiling(n)}}
                          \cup {priority[u] : u \in {v \in Tasks : \E m \in Holds(t) :
                                   Inherit(m) /\ state[v] = "WAIT" /\ wid[v] = m}})

\* No task whose base priority is above the ceiling of a mutex ever holds it
\* or waits for it (mutex.c: "cannot set higher priority than the lowest within
\* the highest priority limit"), also when its priority changes while it waits.
CeilingRespected ==
    \A t \in Tasks, m \in Exists :
        Ceiling(m) /\ (m \in Holds(t) \/ (state[t] = "WAIT" /\ wid[t] = m)) =>
            bpriority[t] >= mtxatr[m].ceilpri

\* make_non_wait, which releases the first task of a wait queue: "Call when the
\* task is in the wait state (including double wait)."  (Not so when a task is
\* terminated in a cycle of TA_INHERIT mutexes: see the README.)
QueuedTasksWait ==
    \A m \in Exists : \A t \in ToSet(wait_queue[m]) : state[t] = "WAIT" /\ wid[t] = m

=============================================================================
