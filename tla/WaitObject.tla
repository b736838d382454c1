----------------------------- MODULE WaitObject -----------------------------
(***************************************************************************)
(* A kernel object that tasks wait for, and the calls that end a wait from *)
(* outside: tk_rel_wai, tk_dis_wai, timeouts, termination and priority     *)
(* changes (wait.c, task_manage.c).  The objects whose wait specification  *)
(* has no rel_wai_hook extend this module: the event flag, the mailbox and *)
(* the fixed-size memory pool.                                             *)
(***************************************************************************)
EXTENDS KernelTasks

VARIABLES objid,       \* gcb->objid # 0, the object exists
          objatr,      \* gcb->objatr: TA_TPRI, TA_NODISWAI
          wait_queue,  \* gcb->wait_queue
          state,       \* tcb->state: WAIT is a wait in the object's wait_queue,
                       \* RECV one in the receive queue of a message buffer
          waitmask,    \* the object's bit in tcb->waitmask
          priority     \* tcb->priority

gcb   == <<objid, objatr>>
tasks == <<wait_queue, state, waitmask, priority>>

GcbInit == /\ objid = FALSE
           /\ objatr \in Attributes
           /\ wait_queue = <<>>
           /\ state = [t \in Tasks |-> "DORMANT"]
           /\ waitmask = [t \in Tasks |-> FALSE]
           /\ priority = [t \in Tasks |-> INI_PRI]

-----------------------------------------------------------------------------
\* is_diswai
is_diswai(t) == waitmask[t] /\ ~objatr.nodiswai

\* gcb_make_wait_with_diswai with a timeout other than TMO_POL, which only
\* returns an error.
make_wait_with_diswai(t) ==
    IF is_diswai(t) THEN UNCHANGED <<wait_queue, state>>
    ELSE /\ wait_queue' = gcb_make_wait(wait_queue, t, priority, objatr.tpri)
         /\ state' = [state EXCEPT ![t] = "WAIT"]

\* wait_release_ok of the tasks of S.
wait_release_ok(S) ==
    /\ wait_queue' = Without(wait_queue, S)
    /\ state' = [t \in Tasks |-> IF t \in S THEN "READY" ELSE state[t]]

\* Creation; wait_delete releases all waiting tasks (E_DLT).
create(atr) == ~objid /\ objid' = TRUE /\ objatr' = atr /\ UNCHANGED tasks
wait_delete == /\ objid /\ objid' = FALSE
               /\ wait_release_ok(ToSet(wait_queue))
               /\ UNCHANGED <<objatr, waitmask, priority>>

-----------------------------------------------------------------------------
\* wait_release_ng and wait_release_tmout: tk_rel_wai or a timeout.
WaitReleaseNg(t) == /\ state[t] = "WAIT"
                    /\ wait_release_ok({t})
                    /\ UNCHANGED <<gcb, waitmask, priority>>

\* tk_dis_wai ends a wait unless it is TA_NODISWAI.
DisWai(t) == /\ waitmask' = [waitmask EXCEPT ![t] = TRUE]
             /\ wait_release_ok(IF state[t] = "WAIT" /\ ~objatr.nodiswai THEN {t} ELSE {})
             /\ UNCHANGED <<gcb, priority>>

\* tk_ena_wai
EnaWai(t) == /\ waitmask' = [waitmask EXCEPT ![t] = FALSE]
             /\ UNCHANGED <<gcb, wait_queue, state, priority>>

\* tk_ter_tsk and tk_ext_tsk; make_dormant resets the task.
TerTsk(t) == /\ state[t] # "DORMANT"
             /\ state' = [state EXCEPT ![t] = "DORMANT"]
             /\ wait_queue' = Without(wait_queue, {t})
             /\ waitmask' = [waitmask EXCEPT ![t] = FALSE]
             /\ priority' = [priority EXCEPT ![t] = INI_PRI]
             /\ UNCHANGED gcb

\* tk_sta_tsk
StaTsk(t) == /\ state[t] = "DORMANT"
             /\ state' = [state EXCEPT ![t] = "READY"]
             /\ UNCHANGED <<gcb, wait_queue, waitmask, priority>>

\* flg_chg_pri, mbx_chg_pri, mpf_chg_pri: only with TA_TPRI.
chg_pri_hook(t) ==
    wait_queue' = IF state[t] = "WAIT" /\ objatr.tpri
                    THEN gcb_change_priority(wait_queue, t, priority') ELSE wait_queue

\* change_task_priority of tk_chg_pri
ChgPri(t, pri) == /\ priority' = [priority EXCEPT ![t] = pri]
                  /\ chg_pri_hook(t)
                  /\ UNCHANGED <<gcb, state, waitmask>>

\* What every such call may do to t; TerTsk is left to the object.
WaitCall(t) == \/ WaitReleaseNg(t) \/ DisWai(t) \/ EnaWai(t) \/ StaTsk(t)
               \/ \E pri \in Pri : ChgPri(t, pri)

-----------------------------------------------------------------------------
GcbTypeOK == /\ objid \in BOOLEAN /\ objatr \in ObjAtr
             /\ wait_queue \in Seq(Tasks)
             /\ state \in [Tasks -> {"READY", "WAIT", "RECV", "DORMANT"}]
             /\ waitmask \in [Tasks -> BOOLEAN] /\ priority \in [Tasks -> Pri]

\* The queue holds exactly the tasks that wait, without repetition, and with
\* TA_TPRI in the order of their priorities of the moment; no wait goes on that
\* tk_dis_wai has disabled; nobody waits for an object that does not exist.
GcbQueueExact ==
    /\ IsInjective(wait_queue)
    /\ ToSet(wait_queue) = {t \in Tasks : state[t] = "WAIT"}
    /\ objatr.tpri => PriorityOrdered(wait_queue, priority)
    /\ \A t \in ToSet(wait_queue) : ~is_diswai(t)
    /\ ~objid => wait_queue = <<>>

=============================================================================
