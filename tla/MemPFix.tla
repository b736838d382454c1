------------------------------ MODULE MemPFix ------------------------------
(***************************************************************************)
(* A fixed-size memory pool of the T-Kernel (mempfix.c).  Its calls hold   *)
(* the pool's OBJLOCK, with interrupts enabled: a call that has to wait or *)
(* to put a block back is two steps, between which other tasks and         *)
(* handlers run.                                                           *)
(***************************************************************************)
EXTENDS WaitObject

CONSTANT MaxBlocks   \* the largest mpfcnt

ASSUME PoolAssumption == MaxBlocks \in Nat \ {0}

VARIABLES mpfcnt,    \* mpfcb->mpfcnt
          frbcnt,    \* mpfcb->frbcnt
          unused,    \* index of the block mpfcb->unused points to
          freelist,  \* mpfcb->freelist
          lock,      \* the task that holds mpfcb->lock, or NULL
          blf,       \* the block its call puts back, or NULL in tk_get_mpf
          held       \* history: the blocks that tasks have got and not returned

mpf  == <<mpfcnt, frbcnt, unused, freelist, held>>
call == <<lock, blf>>

\* LockOBJ succeeds; a task that does not get the lock waits (TaskSched).
LockOBJ(t) == lock = NULL

-----------------------------------------------------------------------------
MpfInit == /\ mpfcnt = 0 /\ frbcnt = 0 /\ unused = 0 /\ freelist = <<>>
           /\ lock = NULL /\ blf = NULL /\ held = {}

\* tk_cre_mpf
CreMpf(atr, cnt) ==
    /\ lock = NULL
    /\ create(atr)
    /\ mpfcnt' = cnt /\ frbcnt' = cnt /\ unused' = 0 /\ freelist' = <<>> /\ held' = {}
    /\ UNCHANGED call

\* tk_del_mpf
DelMpf(t) == state[t] = "READY" /\ LockOBJ(t) /\ wait_delete /\ UNCHANGED <<mpf, call>>

\* The free list first, then the unused area.
take_block ==
    IF freelist # <<>>
      THEN /\ freelist' = Tail(freelist) /\ held' = held \cup {Head(freelist)}
           /\ UNCHANGED unused
      ELSE /\ unused' = unused + 1 /\ held' = held \cup {unused}
           /\ UNCHANGED freelist

\* tk_get_mpf up to the label wait_mpf.
GetMpf(t) ==
    /\ state[t] = "READY" /\ t # lock /\ LockOBJ(t) /\ objid /\ ~is_diswai(t)
    /\ \/ /\ frbcnt > 0
          /\ take_block
          /\ frbcnt' = frbcnt - 1
          /\ UNCHANGED <<mpfcnt, call>>
       \/ /\ frbcnt <= 0
          /\ lock' = t /\ blf' = NULL
          /\ UNCHANGED mpf
    /\ UNCHANGED <<gcb, tasks>>

\* tk_get_mpf from wait_mpf: it waits and unlocks in one critical section.
WaitMpf(t) ==
    /\ lock = t /\ blf = NULL /\ state[t] = "READY"
    /\ make_wait_with_diswai(t)
    /\ lock' = NULL
    /\ UNCHANGED <<gcb, waitmask, priority, mpf, blf>>

\* tk_rel_mpf of a block that was got: straight to the first waiting task, or
\* interrupts are enabled again before it is put back.
RelMpf(t, b) ==
    /\ state[t] = "READY" /\ t # lock /\ LockOBJ(t) /\ objid /\ b \in held
    /\ \/ /\ ~isQueEmpty(wait_queue)
          /\ wait_release_ok({QueNext(wait_queue)})
          /\ UNCHANGED <<call, mpf>>
       \/ /\ isQueEmpty(wait_queue)
          /\ lock' = t /\ blf' = b
          /\ held' = held \ {b}
          /\ UNCHANGED <<mpfcnt, frbcnt, unused, freelist, wait_queue, state>>
    /\ UNCHANGED <<gcb, waitmask, priority>>

\* tk_rel_mpf puts the block back and unlocks.
FreeMpf(t) ==
    /\ lock = t /\ blf # NULL /\ state[t] = "READY"
    /\ freelist' = <<blf>> \o freelist
    /\ frbcnt' = frbcnt + 1
    /\ lock' = NULL /\ blf' = NULL
    /\ UNCHANGED <<gcb, tasks, mpfcnt, unused, held>>

\* A call on the task t; a task that holds a kernel lock is not terminated.
MpfTaskCall(t) == (WaitCall(t) \/ (lock # t /\ TerTsk(t))) /\ UNCHANGED <<mpf, call>>

MpfNext ==
    \/ \E atr \in Attributes, cnt \in 1..MaxBlocks : CreMpf(atr, cnt)
    \/ \E t \in Tasks :
         \/ DelMpf(t) \/ GetMpf(t) \/ WaitMpf(t) \/ FreeMpf(t) \/ MpfTaskCall(t)
         \/ \E b \in held : RelMpf(t, b)

MpfSpec == GcbInit /\ MpfInit /\ [][MpfNext]_<<gcb, tasks, mpf, call>>

-----------------------------------------------------------------------------
MpfTypeOK == /\ mpfcnt \in 0..MaxBlocks /\ frbcnt \in 0..mpfcnt /\ unused \in 0..mpfcnt
             /\ freelist \in Seq(0..MaxBlocks - 1) /\ held \subseteq 0..MaxBlocks - 1
             /\ lock \in Tasks \cup {NULL} /\ blf \in (0..MaxBlocks - 1) \cup {NULL}

\* Every block is in one place: with a task, on the free list, in the unused
\* area or on its way back; frbcnt counts exactly those that can be got.
PoolExact ==
    objid =>
      /\ IsInjective(freelist)
      /\ frbcnt = Len(freelist) + mpfcnt - unused
      /\ ToSet(freelist) \cap held = {}
      /\ blf \notin ToSet(freelist) \cup held
      /\ ToSet(freelist) \cup held \cup ({blf} \ {NULL}) = 0..unused - 1

\* Nobody waits while a block can be got, whatever ran between the steps.
NobodyWaitsForBlock == wait_queue # <<>> => frbcnt = 0

=============================================================================
