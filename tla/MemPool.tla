------------------------------ MODULE MemPool ------------------------------
(***************************************************************************)
(* A variable-size memory pool of the T-Kernel (mempool.c).  The area is   *)
(* divided into pieces in address order (areaque); the free ones are kept  *)
(* by size (freeque).  Addresses and sizes are in units of sizeof(QUEUE),  *)
(* which is ROUNDSZ; every piece begins with a header of one unit.         *)
(***************************************************************************)
EXTENDS HookObject

CONSTANTS MplSizes,     \* the values of mplcb->mplsz
          BlkSizes,     \* the sizes that are asked for, after roundSize
          MinFragment   \* MIN_FRAGMENT

ASSUME MplAssumption == /\ MinFragment \in Nat \ {0}
                        /\ MplSizes \cup BlkSizes \subseteq {n \in Nat : n >= MinFragment}

VARIABLES mplsz,     \* mplcb->mplsz
          areaque,   \* mplcb->areaque: the addresses of the pieces and of the end mark
          area_use,  \* the addresses whose AREA_USE flag is set
          freeque,   \* mplcb->freeque with its queues of equal size, one after the other
          blocks     \* history: the blocks tasks have got and not returned

mpl == <<mplsz, areaque, area_use, freeque, blocks>>

Pool == [area |-> areaque, use |-> area_use, free |-> freeque, blocks |-> blocks,
         freed |-> {}, stop |-> FALSE]
SetPool(k) == /\ areaque' = k.area /\ area_use' = k.use
              /\ freeque' = k.free /\ blocks' = k.blocks

next_area(k, a) == k.area[PositionOf(k.area, a) + 1]
AreaSize(k, a) == next_area(k, a) - a - 1

\* MaxFreeSize: the last of the free queue.
MaxFreeSize(k) == IF isQueEmpty(k.free) THEN 0 ELSE AreaSize(k, Last(k.free))

\* searchFreeArea, from either end: the position of the first free piece that is
\* as large as blksz, behind the last one if there is none.
searchFreeArea(k, blksz) ==
    LET i == SelectInSeq(k.free, LAMBDA a : AreaSize(k, a) >= blksz)
    IN  IF i = 0 THEN Len(k.free) + 1 ELSE i

\* appendFreeArea: behind the free pieces of the same size.
appendFreeArea(k, a) ==
    LET i == SelectInSeq(k.free, LAMBDA b : AreaSize(k, b) > AreaSize(k, a))
    IN  [k EXCEPT !.use = @ \ {a},
                  !.free = IF i = 0 THEN Append(@, a) ELSE InsertAt(@, i, a)]

removeFreeQue(k, a) == [k EXCEPT !.free = QueRemove(@, a)]
insertAreaQue(k, a, new) == [k EXCEPT !.area = InsertAt(@, PositionOf(@, a) + 1, new)]
removeAreaQue(k, a) == [k EXCEPT !.area = QueRemove(@, a)]

\* get_blk: the rest is divided off when a fragment can stand alone.
get_blk(k, blksz) ==
    LET a == k.free[searchFreeArea(k, blksz)]
        r == removeFreeQue(k, a)
        rest == a + 1 + blksz
        s == IF AreaSize(k, a) - blksz >= MinFragment + 1
               THEN appendFreeArea(insertAreaQue(r, a, rest), rest) ELSE r
    IN  [s EXCEPT !.use = @ \cup {a}, !.blocks = @ \cup {a}]

can_get(k, blksz) == searchFreeArea(k, blksz) <= Len(k.free)

\* rel_blk: with the free neighbours it becomes one piece.
merge_next(k, a) ==
    LET n == next_area(k, a)
    IN  IF n \in k.use THEN k ELSE removeAreaQue(removeFreeQue(k, n), n)

rel_blk(k, a) ==
    LET r == merge_next([k EXCEPT !.use = @ \ {a}, !.blocks = @ \ {a}], a)
        i == PositionOf(r.area, a)
        p == r.area[i - 1]
    IN  IF i = 1 \/ p \in r.use THEN appendFreeArea(r, a)
        ELSE appendFreeArea(removeAreaQue(removeFreeQue(r, p), a), p)

\* One turn of the loop of mpl_wakeup.
wakeup_task(k, t) ==
    IF k.stop \/ winfo[t] > MaxFreeSize(k) THEN [k EXCEPT !.stop = TRUE]
    ELSE [get_blk(k, winfo[t]) EXCEPT !.freed = @ \cup {t}]

\* Mutant: one task is served at most.
mpl_wakeup_once(q, k) ==
    LET r == IF isQueEmpty(q) THEN k ELSE wakeup_task(k, Head(q))
    IN  /\ wait_queue' = Without(q, r.freed)
        /\ gets' = r.freed /\ SetPool(r) /\ UNCHANGED mplsz

\* mpl_wakeup on the wait queue q and the pool k.
mpl_wakeup(q, k) ==
    LET r == Loop(q, k, wakeup_task)
    IN  /\ wait_queue' = Without(q, r.freed)
        /\ gets' = r.freed /\ SetPool(r) /\ UNCHANGED mplsz

\* mpl_chg_pri and mpl_rel_wai, after the queue became q.
mpl_chg_pri(q) == mpl_wakeup(q, Pool)

-----------------------------------------------------------------------------
MplInit == mplsz = 0 /\ areaque = <<>> /\ area_use = {} /\ freeque = <<>> /\ blocks = {}

\* tk_cre_mpl and init_mempool; the end mark counts as in use.
CreMpl(atr, sz) ==
    /\ create(atr)
    /\ mplsz' = sz /\ areaque' = <<0, sz + 1>> /\ area_use' = {sz + 1}
    /\ freeque' = <<0>> /\ blocks' = {} /\ gets' = {}
    /\ UNCHANGED winfo

\* tk_del_mpl
DelMpl == HookedDelete /\ UNCHANGED mpl

\* A block is got at once only by a task that would be the first of the queue.
may_get(t) == gcb_top_of_wait_queue(wait_queue, t, priority, objatr.tpri) = t

\* tk_get_mpl of a size that roundSize has made blksz.
GetMpl(t, blksz) ==
    /\ state[t] = "READY" /\ objid /\ blksz <= mplsz /\ ~is_diswai(t)
    /\ \/ /\ may_get(t) /\ can_get(Pool, blksz)
          /\ SetPool(get_blk(Pool, blksz))
          /\ gets' = {t}
          /\ UNCHANGED <<wait_queue, state, winfo>>
       \/ /\ ~(may_get(t) /\ can_get(Pool, blksz))
          /\ hook_make_wait(t, blksz)
          /\ UNCHANGED <<areaque, area_use, freeque, blocks>>
    /\ UNCHANGED <<gcb, waitmask, priority, mplsz>>

\* tk_rel_mpl of a block that was got.
RelMpl(a) == /\ objid /\ a \in blocks
             /\ mpl_wakeup(wait_queue, rel_blk(Pool, a))
             /\ wake(NULL, "READY")
             /\ UNCHANGED <<gcb, waitmask, priority>>

MplNext ==
    \/ \E atr \in Attributes, sz \in MplSizes : CreMpl(atr, sz)
    \/ DelMpl
    \/ \E a \in blocks : RelMpl(a)
    \/ \E t \in Tasks :
         \/ \E blksz \in BlkSizes : GetMpl(t, blksz)
         \/ HookedLeave(t, mpl_chg_pri)
         \/ HookedQuiet(t) /\ UNCHANGED mpl

MplSpec == GcbInit /\ HookInit /\ MplInit /\ [][MplNext]_<<gcb, tasks, hook, mpl>>

-----------------------------------------------------------------------------
MplTypeOK == /\ mplsz \in MplSizes \cup {0}
             /\ areaque \in Seq(Nat) /\ area_use \subseteq ToSet(areaque)
             /\ ToSet(freeque) \subseteq ToSet(areaque) /\ blocks \subseteq area_use
             /\ winfo \in [Tasks -> Nat \cup {NULL}]

\* The pieces cover the area in address order; what is in use is exactly what
\* tasks hold, the rest is on the free queue in the order of sizes; and no two
\* free pieces lie side by side, so that freed memory can be got as a whole.
AreaExact ==
    objid =>
      LET k == Pool
          pieces == ToSet(areaque) \ {mplsz + 1}
      IN  /\ Head(areaque) = 0 /\ Last(areaque) = mplsz + 1
          /\ \A i \in 1..Len(areaque) - 1 : areaque[i + 1] - areaque[i] > MinFragment
          /\ blocks = area_use \ {mplsz + 1}
          /\ IsInjective(freeque) /\ ToSet(freeque) = pieces \ area_use
          /\ \A i \in 1..Len(freeque) - 1 : AreaSize(k, freeque[i]) <= AreaSize(k, freeque[i + 1])
          /\ \A i \in 1..Len(areaque) - 1 :
               areaque[i] \in area_use \/ areaque[i + 1] \in area_use

\* No lost wakeup: the first task of the queue would not find a block.
NobodyWaitsForArea == wait_queue # <<>> => ~can_get(Pool, winfo[Head(wait_queue)])

=============================================================================
