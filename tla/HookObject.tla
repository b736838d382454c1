----------------------------- MODULE HookObject -----------------------------
(***************************************************************************)
(* An object whose wait specification has a rel_wai_hook (wait.c): when a  *)
(* task leaves the wait queue without what it waited for, or changes its   *)
(* place, the object looks whom it can serve now.  The semaphore, the      *)
(* message buffer and the variable-size memory pool pass their hook to     *)
(* HookedLeave: hook(q) is the hook after the queue became q; it says what *)
(* wait_queue and gets are afterwards.                                     *)
(***************************************************************************)
EXTENDS WaitObject

VARIABLES winfo,   \* tcb->winfo: what a waiting task asked for; NULL for the others
          gets     \* history: the tasks that got what they asked for in this step

hook == <<winfo, gets>>

HookInit == winfo = [t \in Tasks |-> NULL] /\ gets = {}

\* Those who got what they waited for run again, t (or none) is in state s.
wake(t, s) ==
    /\ state' = [u \in Tasks |-> IF u = t THEN s ELSE IF u \in gets' THEN "READY" ELSE state[u]]
    /\ winfo' = [u \in Tasks |-> IF u = t \/ u \in gets' THEN NULL ELSE winfo[u]]

\* t, which asks for w, waits (gcb_make_wait_with_diswai).
hook_make_wait(t, w) == /\ make_wait_with_diswai(t)
                        /\ winfo' = [winfo EXCEPT ![t] = w]
                        /\ gets' = {}

\* t gives up its wait.
leave(t, s, rel_wai(_)) == rel_wai(QueRemove(wait_queue, t)) /\ wake(t, s)

\* The wait of t ends without success, or t moves in the queue: wait_release_ng
\* and wait_release_tmout, tk_dis_wai, tk_ter_tsk, change_task_priority.
HookedLeave(t, rel_wai(_)) ==
    /\ state[t] = "WAIT"
    /\ \/ leave(t, "READY", rel_wai) /\ UNCHANGED <<waitmask, priority>>
       \/ /\ ~objatr.nodiswai
          /\ leave(t, "READY", rel_wai)
          /\ waitmask' = [waitmask EXCEPT ![t] = TRUE]
          /\ UNCHANGED priority
       \/ /\ leave(t, "DORMANT", rel_wai)
          /\ waitmask' = [waitmask EXCEPT ![t] = FALSE]
          /\ priority' = [priority EXCEPT ![t] = INI_PRI]
       \/ /\ objatr.tpri
          /\ \E pri \in Pri :
               /\ priority' = [priority EXCEPT ![t] = pri]
               /\ rel_wai(gcb_change_priority(wait_queue, t, priority'))
          /\ wake(NULL, "READY")
          /\ UNCHANGED waitmask
    /\ UNCHANGED gcb

\* Calls on t that reach no hook.
HookedQuiet(t) ==
    /\ \/ state[t] # "WAIT" /\ state[t] # "RECV" /\ (DisWai(t) \/ TerTsk(t))
       \/ state[t] \in {"WAIT", "RECV"} /\ objatr.nodiswai /\ DisWai(t)
       \/ EnaWai(t) \/ StaTsk(t)
       \/ ~(state[t] = "WAIT" /\ objatr.tpri) /\ \E pri \in Pri : ChgPri(t, pri)
    /\ gets' = {} /\ UNCHANGED winfo

\* Deletion of the object.
HookedDelete == wait_delete /\ gets' = {} /\ winfo' = [t \in Tasks |-> NULL]

-----------------------------------------------------------------------------
\* In a step, no task gets what it asked for while another one goes on waiting
\* that came before it or, with TA_TPRI, has a higher priority.
InOrder ==
    objid /\ objid' =>
      \A t \in gets', u \in ToSet(wait_queue) \cap ToSet(wait_queue') :
         IF objatr.tpri
           THEN ~(priority'[u] < priority'[t])
           ELSE t \in ToSet(wait_queue) /\ PositionOf(wait_queue, t) < PositionOf(wait_queue, u)

=============================================================================
