--------------------------- MODULE Objects_proofs ---------------------------
(***************************************************************************)
(* Proofs about the objects that tasks wait for (MCObjects): the queues of *)
(* every object hold exactly who waits; nobody waits who could be served,  *)
(* and nothing is lost or given twice; nobody overtakes.                   *)
(***************************************************************************)
EXTENDS MCObjects, Queue_proofs, FiniteSetTheorems

-----------------------------------------------------------------------------
(* The wait queue of an object: what the calls that change it have in      *)
(* common.                                                                 *)

\* The queue q holds exactly the tasks in the state WAIT, in the order of their
\* priorities with TA_TPRI, and none whose wait is disabled.
Exact(q, st, mask, pri_, atr) ==
    /\ q \in Seq(Tasks) /\ atr \in ObjAtr
    /\ st \in [Tasks -> {"READY", "WAIT", "RECV", "DORMANT"}]
    /\ mask \in [Tasks -> BOOLEAN] /\ pri_ \in [Tasks -> Pri]
    /\ IsInjective(q)
    /\ \A t \in Tasks : t \in ToSet(q) <=> st[t] = "WAIT"
    /\ atr.tpri => Sorted(q, pri_)
    /\ \A t \in ToSet(q) : ~mask[t] \/ atr.nodiswai

Current == Exact(wait_queue, state, waitmask, priority, objatr)

\* The same for the object of the state, which holds nobody before it is created.
GcbOK == Current /\ objid \in BOOLEAN /\ (~objid => wait_queue = <<>>)

\* It is what the models ask for.
LEMMA GcbExact ==
  GcbOK <=> GcbTypeOK /\ GcbQueueExact
<1>1. ASSUME wait_queue \in Seq(Tasks)
      PROVE  ToSet(wait_queue) \subseteq Tasks
  BY <1>1, MemberPosition
<1>2. PriorityOrdered(wait_queue, priority) <=> Sorted(wait_queue, priority)
  BY DEF PriorityOrdered, Sorted
<1>. QED  BY <1>1, <1>2 DEF GcbOK, Current, Exact, GcbTypeOK, GcbQueueExact, is_diswai

\* Priorities are numbers.
LEMMA PriNumbers ==
  /\ Pri \subseteq Int
  /\ [Tasks -> Pri] \subseteq [Tasks -> Int]
BY ObjectAssumption DEF Pri

\* A wait queue from which the members of S are released.
LEMMA ExactWithout ==
  ASSUME NEW q, NEW st, NEW mask, NEW pri_, NEW atr, Exact(q, st, mask, pri_, atr),
         NEW S, NEW st2 \in [Tasks -> {"READY", "WAIT", "RECV", "DORMANT"}],
         NEW mask2 \in [Tasks -> BOOLEAN], NEW pri2 \in [Tasks -> Pri],
         \A t \in Tasks : st2[t] = "WAIT" <=> st[t] = "WAIT" /\ t \notin S,
         \A t \in Tasks : st2[t] = "WAIT" => mask2[t] = mask[t] /\ pri2[t] = pri_[t]
  PROVE  Exact(Without(q, S), st2, mask2, pri2, atr)
<1>. DEFINE r == Without(q, S)
<1>1. /\ q \in Seq(Tasks) /\ IsInjective(q) /\ \A t \in Tasks : t \in ToSet(q) <=> st[t] = "WAIT"
      /\ atr.tpri => Sorted(q, pri_)
      /\ \A t \in ToSet(q) : ~mask[t] \/ atr.nodiswai
      /\ ToSet(q) \subseteq Tasks
  BY MemberPosition DEF Exact
<1>2. /\ r \in Seq(Tasks) /\ ToSet(r) = ToSet(q) \ S /\ IsInjective(r)
      /\ Sorted(q, pri_) => Sorted(r, pri_)
  BY <1>1, WithoutProperties
<1>. HIDE DEF r
<1>3. Sorted(r, pri_) => Sorted(r, pri2)
  <2>1. \A x, y \in ToSet(r) : pri_[x] <= pri_[y] => pri2[x] <= pri2[y]
    BY <1>1, <1>2
  <2>. QED  BY <1>2, <2>1, SortedSameOrder
<1>. QED  BY <1>1, <1>2, <1>3 DEF Exact, r

\* A wait queue that stays as it is.
LEMMA ExactSame ==
  ASSUME NEW q, NEW st, NEW mask, NEW pri_, NEW atr, Exact(q, st, mask, pri_, atr),
         NEW st2 \in [Tasks -> {"READY", "WAIT", "RECV", "DORMANT"}],
         NEW mask2 \in [Tasks -> BOOLEAN], NEW pri2 \in [Tasks -> Pri],
         \A t \in Tasks : st2[t] = "WAIT" <=> st[t] = "WAIT",
         \A t \in Tasks : st2[t] = "WAIT" =>
            (mask2[t] => mask[t] \/ atr.nodiswai) /\ (atr.tpri => pri2[t] = pri_[t])
  PROVE  Exact(q, st2, mask2, pri2, atr)
<1>1. /\ q \in Seq(Tasks) /\ IsInjective(q) /\ \A t \in Tasks : t \in ToSet(q) <=> st[t] = "WAIT"
      /\ atr.tpri => Sorted(q, pri_)
      /\ \A t \in ToSet(q) : ~mask[t] \/ atr.nodiswai
      /\ ToSet(q) \subseteq Tasks
  BY MemberPosition DEF Exact
<1>2. atr.tpri => Sorted(q, pri2)
  <2>1. atr.tpri => \A x, y \in ToSet(q) : pri_[x] <= pri_[y] => pri2[x] <= pri2[y]
    BY <1>1
  <2>. QED  BY <1>1, <2>1, SortedSameOrder
<1>. QED  BY <1>1, <1>2 DEF Exact

\* A task comes into the queue.
LEMMA ExactInsert ==
  ASSUME NEW q \in Seq(Tasks), NEW key \in [Tasks -> Pri], NEW t \in Tasks, t \notin ToSet(q),
         IsInjective(q), NEW tpri \in BOOLEAN, tpri => Sorted(q, key)
  PROVE  LET r == gcb_make_wait(q, t, key, tpri)
         IN  /\ r \in Seq(Tasks) /\ ToSet(r) = ToSet(q) \cup {t} /\ IsInjective(r)
             /\ tpri => Sorted(r, key)
<1>1. queue_insert_tpri(q, t, key) = PutAt(q, Place(q, key, t), t)
  BY DEF queue_insert_tpri, PutAt, Place, SelectInSeq
<1>2. tpri \in {TRUE, FALSE} /\ key \in [Tasks -> Int]
  BY PriNumbers
<1>3. CASE tpri
  BY <1>1, <1>2, <1>3, SortedInsert DEF gcb_make_wait
<1>4. CASE ~tpri
  BY <1>4, QueInsertProperties DEF gcb_make_wait
<1>. QED  BY <1>3, <1>4

\* ... by gcb_make_wait_with_diswai.
LEMMA ExactMakeWait ==
  ASSUME GcbOK, objid, NEW t \in Tasks, state[t] = "READY", ~is_diswai(t),
         make_wait_with_diswai(t), UNCHANGED <<gcb, waitmask, priority>>
  PROVE  GcbOK'
<1>. DEFINE r == gcb_make_wait(wait_queue, t, priority, objatr.tpri)
<1>1. /\ wait_queue \in Seq(Tasks) /\ IsInjective(wait_queue) /\ objatr.tpri \in BOOLEAN
      /\ \A u \in Tasks : u \in ToSet(wait_queue) <=> state[u] = "WAIT"
      /\ objatr.tpri => Sorted(wait_queue, priority)
      /\ \A u \in ToSet(wait_queue) : ~waitmask[u] \/ objatr.nodiswai
      /\ state \in [Tasks -> {"READY", "WAIT", "RECV", "DORMANT"}]
      /\ waitmask \in [Tasks -> BOOLEAN] /\ priority \in [Tasks -> Pri]
  BY DEF GcbOK, Current, Exact, ObjAtr
<1>2. /\ r \in Seq(Tasks) /\ ToSet(r) = ToSet(wait_queue) \cup {t} /\ IsInjective(r)
      /\ objatr.tpri => Sorted(r, priority)
  BY <1>1, ExactInsert
<1>3. wait_queue' = r /\ state' = [state EXCEPT ![t] = "WAIT"]
  BY DEF make_wait_with_diswai
<1>4. UNCHANGED <<objid, objatr, waitmask, priority>>
  BY DEF gcb
<1>. HIDE DEF r
<1>5. state' \in [Tasks -> {"READY", "WAIT", "RECV", "DORMANT"}]
  BY <1>1, <1>3
<1>6. \A u \in Tasks : u \in ToSet(wait_queue') <=> state'[u] = "WAIT"
  BY <1>1, <1>2, <1>3
<1>7. \A u \in ToSet(wait_queue') : ~waitmask[u] \/ objatr.nodiswai
  BY <1>1, <1>2, <1>3 DEF is_diswai
<1>8. Current'
  BY <1>1, <1>2, <1>3, <1>4, <1>5, <1>6, <1>7 DEF Current, Exact, GcbOK
<1>. QED  BY <1>4, <1>8 DEF GcbOK

\* A waiting task changes its priority and its place.
LEMMA ExactMoved ==
  ASSUME NEW q, NEW st, NEW mask, NEW pri_, NEW atr, Exact(q, st, mask, pri_, atr),
         NEW t \in ToSet(q), NEW pri2 \in [Tasks -> Pri], atr.tpri,
         \A u \in Tasks : u # t => pri2[u] = pri_[u]
  PROVE  Exact(gcb_change_priority(q, t, pri2), st, mask, pri2, atr)
<1>. DEFINE r == QueRemove(q, t)
            f == gcb_make_wait(r, t, pri2, TRUE)
<1>1. /\ q \in Seq(Tasks) /\ IsInjective(q) /\ \A u \in Tasks : u \in ToSet(q) <=> st[u] = "WAIT"
      /\ Sorted(q, pri_) /\ ToSet(q) \subseteq Tasks /\ pri_ \in [Tasks -> Pri]
      /\ \A u \in ToSet(q) : ~mask[u] \/ atr.nodiswai
  BY MemberPosition DEF Exact
<1>2. r \in Seq(Tasks) /\ ToSet(r) = ToSet(q) \ {t} /\ IsInjective(r) /\ Sorted(r, pri_)
  BY <1>1, QueRemoveProperties, QueRemoveSorted
<1>. HIDE DEF r
<1>3. Sorted(r, pri2)
  <2>1. \A x, y \in ToSet(r) : pri_[x] <= pri_[y] => pri2[x] <= pri2[y]
    BY <1>1, <1>2
  <2>. QED  BY <1>2, <2>1, SortedSameOrder
<1>4. /\ f \in Seq(Tasks) /\ ToSet(f) = ToSet(r) \cup {t} /\ IsInjective(f) /\ Sorted(f, pri2)
  BY <1>1, <1>2, <1>3, ExactInsert
<1>5. gcb_change_priority(q, t, pri2) = f
  BY DEF gcb_change_priority, gcb_make_wait, r
<1>. HIDE DEF f
<1>6. ToSet(f) = ToSet(q)
  BY <1>2, <1>4
<1>. QED  BY <1>1, <1>4, <1>5, <1>6 DEF Exact

-----------------------------------------------------------------------------
(* Every call of WaitObject keeps the queue exact.                         *)

\* The objects are created once and keep their attributes.
LEMMA CreateStep ==
  ASSUME GcbOK, NEW atr \in Attributes, create(atr)
  PROVE  GcbOK'
<1>1. wait_queue = <<>> /\ atr \in ObjAtr /\ UNCHANGED tasks /\ objatr' = atr /\ objid' = TRUE
  BY ObjectAssumption DEF GcbOK, create
<1>2. \A i, j \in 1 .. Len(<<>>) : FALSE
  OBVIOUS
<1>3. ToSet(<<>>) = {} /\ \A key : Sorted(<<>>, key)
  BY <1>2 DEF ToSet, Sorted
<1>. QED  BY <1>1, <1>3 DEF GcbOK, Current, Exact, tasks

\* Nobody waits any more when all are released.
LEMMA WithoutAll ==
  ASSUME NEW q \in Seq(Tasks), NEW S, ToSet(q) \subseteq S
  PROVE  Without(q, S) = <<>>
<1>1. Without(q, S) \in Seq(Tasks) /\ ToSet(Without(q, S)) = ToSet(q) \ S
  BY WithoutProperties
<1>. QED  BY <1>1, MemberPosition

\* The members of S run again and nothing else changes in the queue.
LEMMA ReleaseStep ==
  ASSUME GcbOK, NEW S, wait_release_ok(S), objatr' = objatr,
         waitmask' \in [Tasks -> BOOLEAN], priority' \in [Tasks -> Pri],
         \A t \in Tasks : state[t] = "WAIT" /\ t \notin S => waitmask'[t] = waitmask[t] /\ priority'[t] = priority[t]
  PROVE  Current'
<1>1. wait_queue' = Without(wait_queue, S)
      /\ state' = [t \in Tasks |-> IF t \in S THEN "READY" ELSE state[t]]
  BY DEF wait_release_ok
<1>2. Current /\ state \in [Tasks -> {"READY", "WAIT", "RECV", "DORMANT"}]
  BY DEF GcbOK, Current, Exact
<1>3. /\ state' \in [Tasks -> {"READY", "WAIT", "RECV", "DORMANT"}]
      /\ \A t \in Tasks : state'[t] = "WAIT" <=> state[t] = "WAIT" /\ t \notin S
  BY <1>1, <1>2
<1>. QED  BY <1>1, <1>2, <1>3, ExactWithout DEF Current

\* Deletion.
LEMMA DeleteStep ==
  ASSUME GcbOK, wait_delete
  PROVE  GcbOK'
<1>1. wait_release_ok(ToSet(wait_queue)) /\ UNCHANGED <<objatr, waitmask, priority>> /\ objid' = FALSE
  BY DEF wait_delete
<1>2. waitmask' \in [Tasks -> BOOLEAN] /\ priority' \in [Tasks -> Pri] /\ wait_queue \in Seq(Tasks)
  BY <1>1 DEF GcbOK, Current, Exact
<1>3. Current'
  BY <1>1, <1>2, ReleaseStep
<1>4. wait_queue' = <<>>
  BY <1>1, <1>2, WithoutAll DEF wait_release_ok
<1>. QED  BY <1>1, <1>3, <1>4 DEF GcbOK

\* What is released leaves an object that exists, or an empty queue as it was.
LEMMA ReleaseKeeps ==
  ASSUME GcbOK, NEW S, wait_release_ok(S), Current', UNCHANGED gcb
  PROVE  GcbOK'
<1>1. ~objid => wait_queue' = <<>>
  <2>1. wait_queue \in Seq(Tasks) /\ ToSet(<<>>) = {}
    BY DEF GcbOK, Current, Exact, ToSet
  <2>. QED  BY <2>1, WithoutAll DEF GcbOK, wait_release_ok
<1>. QED  BY <1>1 DEF GcbOK, gcb

\* A call on a task.
LEMMA CallStep ==
  ASSUME GcbOK, NEW t \in Tasks, WaitCall(t) \/ TerTsk(t)
  PROVE  GcbOK'
<1>. DEFINE States == {"READY", "WAIT", "RECV", "DORMANT"}
<1>0. /\ Current /\ state \in [Tasks -> States] /\ waitmask \in [Tasks -> BOOLEAN]
      /\ priority \in [Tasks -> Pri] /\ objatr \in ObjAtr /\ wait_queue \in Seq(Tasks)
      /\ \A u \in Tasks : u \in ToSet(wait_queue) <=> state[u] = "WAIT"
  BY DEF GcbOK, Current, Exact
<1>1. CASE WaitReleaseNg(t)
  BY <1>0, <1>1, ReleaseStep, ReleaseKeeps DEF WaitReleaseNg, gcb
<1>2. CASE DisWai(t)
  <2>. DEFINE S == IF state[t] = "WAIT" /\ ~objatr.nodiswai THEN {t} ELSE {}
  <2>1. /\ waitmask' = [waitmask EXCEPT ![t] = TRUE] /\ wait_release_ok(S) /\ UNCHANGED <<gcb, priority>>
    BY <1>2 DEF DisWai
  <2>2. CASE state[t] = "WAIT" /\ objatr.nodiswai
    <3>1. wait_queue' = Without(wait_queue, {}) /\ state' = [u \in Tasks |-> state[u]]
      BY <2>1, <2>2 DEF wait_release_ok
    <3>2. Exact(wait_queue, state, waitmask', priority, objatr)
      BY <1>0, <2>1, <2>2, ExactSame DEF Current
    <3>3. Exact(Without(wait_queue, {}), state, waitmask', priority, objatr)
      <4>1. waitmask' \in [Tasks -> BOOLEAN]
        BY <1>0, <2>1
      <4>. QED  BY <1>0, <3>2, <4>1, ExactWithout
    <3>4. Current'
      BY <1>0, <2>1, <3>1, <3>3 DEF Current, gcb
    <3>. QED  BY <2>1, <3>4, ReleaseKeeps
  <2>3. CASE ~(state[t] = "WAIT" /\ objatr.nodiswai)
    <3>1. /\ waitmask' \in [Tasks -> BOOLEAN] /\ priority' \in [Tasks -> Pri] /\ objatr' = objatr
          /\ \A u \in Tasks : state[u] = "WAIT" /\ u \notin S => waitmask'[u] = waitmask[u] /\ priority'[u] = priority[u]
      BY <1>0, <2>1, <2>3 DEF gcb
    <3>. HIDE DEF S
    <3>2. Current'
      BY <2>1, <3>1, ReleaseStep
    <3>. QED  BY <2>1, <3>2, ReleaseKeeps
  <2>. QED  BY <2>2, <2>3
<1>3. CASE EnaWai(t)
  <2>1. waitmask' = [waitmask EXCEPT ![t] = FALSE] /\ UNCHANGED <<gcb, wait_queue, state, priority>>
    BY <1>3 DEF EnaWai
  <2>2. Exact(wait_queue, state, waitmask', priority, objatr)
    BY <1>0, <2>1, ExactSame DEF Current
  <2>. QED  BY <2>1, <2>2 DEF GcbOK, Current, gcb
<1>4. CASE StaTsk(t)
  <2>1. /\ state[t] = "DORMANT" /\ state' = [state EXCEPT ![t] = "READY"]
        /\ UNCHANGED <<gcb, wait_queue, waitmask, priority>>
    BY <1>4 DEF StaTsk
  <2>2. Exact(wait_queue, state', waitmask, priority, objatr)
    BY <1>0, <2>1, ExactSame DEF Current
  <2>. QED  BY <2>1, <2>2 DEF GcbOK, Current, gcb
<1>5. ASSUME NEW p \in Pri, ChgPri(t, p)  PROVE GcbOK'
  <2>1. /\ priority' = [priority EXCEPT ![t] = p] /\ UNCHANGED <<gcb, state, waitmask>>
        /\ wait_queue' = IF state[t] = "WAIT" /\ objatr.tpri
                           THEN gcb_change_priority(wait_queue, t, priority') ELSE wait_queue
    BY <1>5 DEF ChgPri, chg_pri_hook
  <2>2. priority' \in [Tasks -> Pri] /\ \A u \in Tasks : u # t => priority'[u] = priority[u]
    BY <1>0, <2>1
  <2>3. CASE state[t] = "WAIT" /\ objatr.tpri
    <3>1. Exact(wait_queue', state, waitmask, priority', objatr)
      BY <1>0, <2>1, <2>2, <2>3, ExactMoved DEF Current
    <3>2. objid
      BY <1>0, <2>3 DEF GcbOK, ToSet
    <3>. QED  BY <2>1, <3>1, <3>2 DEF GcbOK, Current, gcb
  <2>4. CASE ~(state[t] = "WAIT" /\ objatr.tpri)
    <3>1. Exact(wait_queue, state, waitmask, priority', objatr)
      BY <1>0, <2>2, <2>4, ExactSame DEF Current
    <3>. QED  BY <2>1, <2>4, <3>1 DEF GcbOK, Current, gcb
  <2>. QED  BY <2>3, <2>4
<1>6. CASE TerTsk(t)
  <2>1. /\ state' = [state EXCEPT ![t] = "DORMANT"] /\ wait_queue' = Without(wait_queue, {t})
        /\ waitmask' = [waitmask EXCEPT ![t] = FALSE] /\ priority' = [priority EXCEPT ![t] = INI_PRI]
        /\ UNCHANGED gcb
    BY <1>6 DEF TerTsk
  <2>2. /\ state' \in [Tasks -> States] /\ waitmask' \in [Tasks -> BOOLEAN] /\ priority' \in [Tasks -> Pri]
        /\ \A u \in Tasks : state'[u] = "WAIT" <=> state[u] = "WAIT" /\ u \notin {t}
        /\ \A u \in Tasks : state'[u] = "WAIT" => waitmask'[u] = waitmask[u] /\ priority'[u] = priority[u]
    BY <1>0, <2>1, ObjectAssumption
  <2>3. Current'
    BY <1>0, <2>1, <2>2, ExactWithout DEF Current, gcb
  <2>4. ~objid => wait_queue' = <<>>
    <3>1. ToSet(<<>>) = {}
      BY DEF ToSet
    <3>. QED  BY <1>0, <2>1, <3>1, WithoutAll DEF GcbOK
  <2>. QED  BY <2>1, <2>3, <2>4 DEF GcbOK, gcb
<1>. QED  BY <1>1, <1>2, <1>3, <1>4, <1>5, <1>6 DEF WaitCall

-----------------------------------------------------------------------------
(* The objects without a hook: event flag, mailbox, fixed-size pool.       *)

\* TA_WSGL, said of the tasks: no two of them wait.
OneWait == ~wmul => \A t, u \in Tasks : state[t] = "WAIT" /\ state[u] = "WAIT" => t = u

\* Then one at most stands in the queue.
LEMMA OneWaitSingle ==
  ASSUME GcbOK, OneWait
  PROVE  SingleWait
<1>. DEFINE q == wait_queue
<1>1. /\ q \in Seq(Tasks) /\ IsInjective(q)
      /\ \A t \in Tasks : t \in ToSet(q) <=> state[t] = "WAIT"
  BY DEF GcbOK, Current, Exact
<1>. HIDE DEF q
<1>2. /\ Len(q) \in Nat /\ \A i \in 1 .. Len(q) : q[i] \in Tasks /\ q[i] \in ToSet(q)
      /\ \A i, j \in 1 .. Len(q) : q[i] = q[j] => i = j
  BY <1>1, MemberPosition, InjectivePositions
<1>3. ASSUME ~wmul, Len(q) > 1  PROVE FALSE
  <2>1. 1 \in 1 .. Len(q) /\ 2 \in 1 .. Len(q)
    BY <1>2, <1>3
  <2>2. q[1] = q[2]
    BY <1>1, <1>2, <1>3, <2>1 DEF OneWait
  <2>. QED  BY <1>2, <2>1, <2>2
<1>. QED  BY <1>2, <1>3 DEF SingleWait, q

\* No call from outside makes a task wait.
LEMMA CallWaits ==
  ASSUME GcbOK, NEW t \in Tasks, WaitCall(t) \/ TerTsk(t)
  PROVE  \A u \in Tasks : state'[u] = "WAIT" => state[u] = "WAIT"
<1>1. state \in [Tasks -> {"READY", "WAIT", "RECV", "DORMANT"}]
  BY DEF GcbOK, Current, Exact
<1>. QED  BY <1>1 DEF WaitCall, WaitReleaseNg, DisWai, EnaWai, StaTsk, ChgPri, TerTsk, wait_release_ok

\* Every call of the event flag.
LEMMA FlgStep ==
  ASSUME GcbOK, OneWait, FlgNext
  PROVE  GcbOK' /\ OneWait'
<1>0. state \in [Tasks -> {"READY", "WAIT", "RECV", "DORMANT"}] /\ waitmask \in [Tasks -> BOOLEAN]
      /\ priority \in [Tasks -> Pri] /\ wait_queue \in Seq(Tasks)
      /\ \A t \in Tasks : t \in ToSet(wait_queue) <=> state[t] = "WAIT"
  BY DEF GcbOK, Current, Exact
<1>1. ASSUME NEW atr \in Attributes, NEW mul \in BOOLEAN, NEW ptn \in SUBSET Bits, CreFlg(atr, mul, ptn)
      PROVE  GcbOK' /\ OneWait'
  <2>1. GcbOK'
    BY <1>1, CreateStep DEF CreFlg
  <2>2. state' = state /\ wait_queue = <<>>
    BY <1>1 DEF CreFlg, create, tasks, GcbOK
  <2>3. \A t \in Tasks : state[t] # "WAIT"
    BY <1>0, <2>2 DEF ToSet
  <2>. QED  BY <2>1, <2>2, <2>3 DEF OneWait
<1>2. CASE DelFlg
  <2>1. wait_delete /\ wmul' = wmul
    BY <1>2 DEF DelFlg
  <2>2. \A u \in Tasks : state'[u] = "WAIT" => state[u] = "WAIT"
    BY <1>0, <2>1 DEF wait_delete, wait_release_ok
  <2>. QED  BY <2>1, <2>2, DeleteStep DEF OneWait
<1>3. ASSUME NEW ptn \in SUBSET Bits, SetFlg(ptn)
      PROVE  GcbOK' /\ OneWait'
  <2>1. PICK S : wait_release_ok(S) /\ UNCHANGED <<gcb, waitmask, priority, wmul>>
    BY <1>3 DEF SetFlg
  <2>2. Current'
    BY <1>0, <2>1, ReleaseStep DEF gcb
  <2>3. \A u \in Tasks : state'[u] = "WAIT" => state[u] = "WAIT"
    BY <1>0, <2>1 DEF wait_release_ok
  <2>. QED  BY <2>1, <2>2, <2>3, ReleaseKeeps DEF OneWait
<1>4. ASSUME NEW ptn \in SUBSET Bits, ClrFlg(ptn)
      PROVE  GcbOK' /\ OneWait'
  BY <1>4 DEF ClrFlg, gcb, tasks, GcbOK, Current, OneWait
<1>5. ASSUME NEW t \in Tasks, FlgTaskCall(t)
      PROVE  GcbOK' /\ OneWait'
  BY <1>5, CallStep, CallWaits DEF FlgTaskCall, OneWait
<1>6. ASSUME NEW t \in Tasks, NEW ptn \in SUBSET Bits, NEW mode \in Modes, WaiFlg(t, ptn, mode)
      PROVE  GcbOK' /\ OneWait'
  <2>1. /\ state[t] = "READY" /\ objid /\ (wmul \/ wait_queue = <<>>) /\ ~is_diswai(t)
        /\ UNCHANGED <<gcb, wmul>>
    BY <1>6 DEF WaiFlg, wai_allowed, isQueEmpty
  <2>2. CASE UNCHANGED tasks
    BY <2>1, <2>2 DEF gcb, tasks, GcbOK, Current, OneWait
  <2>3. CASE make_wait_with_diswai(t) /\ UNCHANGED <<waitmask, priority>>
    <3>1. GcbOK'
      BY <2>1, <2>3, ExactMakeWait
    <3>2. state' = [state EXCEPT ![t] = "WAIT"]
      BY <2>1, <2>3 DEF make_wait_with_diswai
    <3>3. wait_queue = <<>> => \A u \in Tasks : state[u] # "WAIT"
      BY <1>0 DEF ToSet
    <3>. QED  BY <1>0, <2>1, <3>1, <3>2, <3>3 DEF OneWait
  <2>. QED  BY <1>6, <2>2, <2>3 DEF WaiFlg
<1>. QED  BY <1>1, <1>2, <1>3, <1>4, <1>5, <1>6 DEF FlgNext

\* Every call of the mailbox.
LEMMA MbxStep ==
  ASSUME GcbOK, MbxNext
  PROVE  GcbOK'
<1>0. state \in [Tasks -> {"READY", "WAIT", "RECV", "DORMANT"}] /\ waitmask \in [Tasks -> BOOLEAN]
      /\ priority \in [Tasks -> Pri]
  BY DEF GcbOK, Current, Exact
<1>1. ASSUME NEW atr \in Attributes, NEW mp \in BOOLEAN, CreMbx(atr, mp)
      PROVE  GcbOK'
  BY <1>1, CreateStep DEF CreMbx
<1>2. CASE DelMbx
  BY <1>2, DeleteStep DEF DelMbx
<1>3. ASSUME NEW m \in Msgs, SndMbx(m)
      PROVE  GcbOK'
  <2>1. UNCHANGED <<gcb, waitmask, priority>>
    BY <1>3 DEF SndMbx
  <2>2. CASE UNCHANGED <<wait_queue, state>>
    BY <2>1, <2>2 DEF gcb, GcbOK, Current
  <2>3. CASE wait_release_ok({QueNext(wait_queue)})
    <3>1. Current'
      BY <1>0, <2>1, <2>3, ReleaseStep DEF gcb
    <3>. QED  BY <2>1, <2>3, <3>1, ReleaseKeeps
  <2>. QED  BY <1>3, <2>2, <2>3 DEF SndMbx
<1>4. ASSUME NEW t \in Tasks, RcvMbx(t)
      PROVE  GcbOK'
  <2>1. state[t] = "READY" /\ objid /\ ~is_diswai(t) /\ UNCHANGED gcb
    BY <1>4 DEF RcvMbx
  <2>2. CASE UNCHANGED tasks
    BY <2>1, <2>2 DEF gcb, tasks, GcbOK, Current
  <2>3. CASE make_wait_with_diswai(t) /\ UNCHANGED <<waitmask, priority>>
    BY <2>1, <2>3, ExactMakeWait
  <2>. QED  BY <1>4, <2>2, <2>3 DEF RcvMbx
<1>5. ASSUME NEW t \in Tasks, MbxTaskCall(t)
      PROVE  GcbOK'
  BY <1>5, CallStep DEF MbxTaskCall
<1>. QED  BY <1>1, <1>2, <1>3, <1>4, <1>5 DEF MbxNext

\* A pool that is locked exists.
LockedExists == lock # NULL => objid

\* Every call of the fixed-size memory pool, step by step.
LEMMA MpfStep ==
  ASSUME GcbOK, LockedExists, MpfNext
  PROVE  GcbOK' /\ LockedExists'
<1>0. state \in [Tasks -> {"READY", "WAIT", "RECV", "DORMANT"}] /\ waitmask \in [Tasks -> BOOLEAN]
      /\ priority \in [Tasks -> Pri]
  BY DEF GcbOK, Current, Exact
<1>1. ASSUME NEW atr \in Attributes, NEW cnt \in 1..MaxBlocks, CreMpf(atr, cnt)
      PROVE  GcbOK' /\ LockedExists'
  BY <1>1, CreateStep DEF CreMpf, create, LockedExists
<1>2. ASSUME NEW t \in Tasks, DelMpf(t)
      PROVE  GcbOK' /\ LockedExists'
  BY <1>2, DeleteStep DEF DelMpf, LockOBJ, call, LockedExists
<1>3. ASSUME NEW t \in Tasks, GetMpf(t)
      PROVE  GcbOK' /\ LockedExists'
  BY <1>3 DEF GetMpf, gcb, tasks, GcbOK, Current, LockedExists, call
<1>4. ASSUME NEW t \in Tasks, WaitMpf(t)
      PROVE  GcbOK' /\ LockedExists'
  <2>1. /\ lock = t /\ state[t] = "READY" /\ make_wait_with_diswai(t) /\ lock' = NULL
        /\ UNCHANGED <<gcb, waitmask, priority>>
    BY <1>4 DEF WaitMpf
  <2>2. objid
    BY <2>1, ObjectAssumption DEF LockedExists
  <2>3. CASE is_diswai(t)
    BY <2>1, <2>3 DEF make_wait_with_diswai, GcbOK, Current, gcb, LockedExists
  <2>4. CASE ~is_diswai(t)
    BY <2>1, <2>2, <2>4, ExactMakeWait DEF LockedExists
  <2>. QED  BY <2>3, <2>4
<1>5. ASSUME NEW t \in Tasks, NEW b \in held, RelMpf(t, b)
      PROVE  GcbOK' /\ LockedExists'
  <2>1. objid /\ UNCHANGED <<gcb, waitmask, priority>>
    BY <1>5 DEF RelMpf
  <2>2. CASE UNCHANGED <<wait_queue, state>>
    BY <2>1, <2>2 DEF gcb, GcbOK, Current, LockedExists
  <2>3. CASE wait_release_ok({QueNext(wait_queue)})
    <3>1. Current'
      BY <1>0, <2>1, <2>3, ReleaseStep DEF gcb
    <3>. QED  BY <2>1, <2>3, <3>1, ReleaseKeeps DEF LockedExists, gcb
  <2>. QED  BY <1>5, <2>2, <2>3 DEF RelMpf
<1>6. ASSUME NEW t \in Tasks, FreeMpf(t)
      PROVE  GcbOK' /\ LockedExists'
  BY <1>6 DEF FreeMpf, gcb, tasks, GcbOK, Current, LockedExists
<1>7. ASSUME NEW t \in Tasks, MpfTaskCall(t)
      PROVE  GcbOK' /\ LockedExists'
  <2>1. GcbOK'
    BY <1>7, CallStep DEF MpfTaskCall
  <2>2. UNCHANGED <<objid, lock>>
    BY <1>7 DEF MpfTaskCall, WaitCall, WaitReleaseNg, DisWai, EnaWai, StaTsk, ChgPri, TerTsk, gcb, call
  <2>. QED  BY <2>1, <2>2 DEF LockedExists
<1>. QED  BY <1>1, <1>2, <1>3, <1>4, <1>5, <1>6, <1>7 DEF MpfNext

-----------------------------------------------------------------------------
(* The objects with a hook.                                                *)

\* The hook leaves the queue as it is, or serves some of its tasks.
HookResult(q) == \/ wait_queue' = q /\ gets' = {}
                 \/ wait_queue' = Without(q, gets')

\* The queue was changed to q, which is exact for the tasks as they are then (st),
\* before the hook served some of them.
LEMMA HookStep ==
  ASSUME NEW q, NEW st, Exact(q, st, waitmask', priority', objatr'), HookResult(q),
         state' \in [Tasks -> {"READY", "WAIT", "RECV", "DORMANT"}],
         \A u \in Tasks : state'[u] = "WAIT" <=> st[u] = "WAIT" /\ u \notin gets'
  PROVE  Current'
<1>1. waitmask' \in [Tasks -> BOOLEAN] /\ priority' \in [Tasks -> Pri]
  BY DEF Exact
<1>2. CASE wait_queue' = q /\ gets' = {}
  BY <1>1, <1>2, ExactSame DEF Current
<1>3. CASE wait_queue' = Without(q, gets')
  BY <1>1, <1>3, ExactWithout DEF Current
<1>. QED  BY <1>2, <1>3 DEF HookResult

\* A task is taken out of the queue.
LEMMA ExactRemove ==
  ASSUME NEW q, NEW st, NEW mask, NEW pri_, NEW atr, Exact(q, st, mask, pri_, atr),
         NEW t \in Tasks, NEW st2 \in [Tasks -> {"READY", "WAIT", "RECV", "DORMANT"}],
         NEW mask2 \in [Tasks -> BOOLEAN], NEW pri2 \in [Tasks -> Pri],
         \A u \in Tasks : st2[u] = "WAIT" <=> st[u] = "WAIT" /\ u # t,
         \A u \in Tasks : u # t => mask2[u] = mask[u] /\ pri2[u] = pri_[u]
  PROVE  Exact(QueRemove(q, t), st2, mask2, pri2, atr)
<1>. DEFINE r == QueRemove(q, t)
<1>1. /\ q \in Seq(Tasks) /\ IsInjective(q) /\ \A u \in Tasks : u \in ToSet(q) <=> st[u] = "WAIT"
      /\ atr.tpri => Sorted(q, pri_)
      /\ \A u \in ToSet(q) : ~mask[u] \/ atr.nodiswai
      /\ ToSet(q) \subseteq Tasks /\ st \in [Tasks -> {"READY", "WAIT", "RECV", "DORMANT"}]
  BY MemberPosition DEF Exact
<1>2. /\ r \in Seq(Tasks) /\ ToSet(r) = ToSet(q) \ {t} /\ IsInjective(r)
      /\ Sorted(q, pri_) => Sorted(r, pri_)
  BY <1>1, QueRemoveProperties, QueRemoveSorted
<1>. HIDE DEF r
<1>3. Sorted(r, pri_) => Sorted(r, pri2)
  <2>1. \A x, y \in ToSet(r) : pri_[x] <= pri_[y] => pri2[x] <= pri2[y]
    BY <1>1, <1>2
  <2>. QED  BY <1>2, <2>1, SortedSameOrder
<1>4. \A u \in Tasks : u \in ToSet(r) <=> st2[u] = "WAIT"
  BY <1>1, <1>2
<1>5. \A u \in ToSet(r) : ~mask2[u] \/ atr.nodiswai
  BY <1>1, <1>2
<1>. QED  BY <1>1, <1>2, <1>3, <1>4, <1>5 DEF Exact, r

\* What HookedLeave(t, hook) does for every hook.
Leaves(t) ==
    /\ state[t] = "WAIT" /\ UNCHANGED gcb
    /\ \/ /\ \E s \in {"READY", "DORMANT"} : wake(t, s)
          /\ HookResult(QueRemove(wait_queue, t))
          /\ \E b \in BOOLEAN : waitmask' = [waitmask EXCEPT ![t] = b]
          /\ \E p \in Pri : priority' = [priority EXCEPT ![t] = p]
       \/ /\ objatr.tpri /\ wake(NULL, "READY") /\ UNCHANGED waitmask
          /\ \E p \in Pri : priority' = [priority EXCEPT ![t] = p]
          /\ HookResult(gcb_change_priority(wait_queue, t, priority'))

\* It keeps the queue exact.
LEMMA LeaveStep ==
  ASSUME GcbOK, NEW t \in Tasks, Leaves(t)
  PROVE  GcbOK'
<1>0. /\ Current /\ state \in [Tasks -> {"READY", "WAIT", "RECV", "DORMANT"}]
      /\ waitmask \in [Tasks -> BOOLEAN] /\ priority \in [Tasks -> Pri]
      /\ \A u \in Tasks : u \in ToSet(wait_queue) <=> state[u] = "WAIT"
  BY DEF GcbOK, Current, Exact
<1>1. UNCHANGED <<objid, objatr>> /\ t \in ToSet(wait_queue)
  BY <1>0 DEF Leaves, gcb
<1>2. objid
  BY <1>1 DEF GcbOK, ToSet
<1>3. ASSUME NEW s \in {"READY", "DORMANT"}, wake(t, s), HookResult(QueRemove(wait_queue, t)),
             NEW b \in BOOLEAN, waitmask' = [waitmask EXCEPT ![t] = b],
             NEW p \in Pri, priority' = [priority EXCEPT ![t] = p]
      PROVE  Current'
  <2>. DEFINE st == [state EXCEPT ![t] = s]
  <2>1. waitmask' \in [Tasks -> BOOLEAN] /\ priority' \in [Tasks -> Pri]
        /\ \A u \in Tasks : u # t => waitmask'[u] = waitmask[u] /\ priority'[u] = priority[u]
    BY <1>0, <1>3
  <2>2. Exact(QueRemove(wait_queue, t), st, waitmask', priority', objatr')
    <3>1. Exact(wait_queue, state, waitmask, priority, objatr)
      BY <1>0 DEF Current
    <3>2. /\ st \in [Tasks -> {"READY", "WAIT", "RECV", "DORMANT"}]
          /\ \A u \in Tasks : st[u] = "WAIT" <=> state[u] = "WAIT" /\ u # t
      BY <1>0
    <3>. HIDE DEF st
    <3>3. Exact(QueRemove(wait_queue, t), st, waitmask', priority', objatr)
      BY <2>1, <3>1, <3>2, ExactRemove
    <3>. QED  BY <1>1, <3>3
  <2>3. \A u \in Tasks : state'[u] = "WAIT" <=> st[u] = "WAIT" /\ u \notin gets'
    BY <1>0, <1>3 DEF wake
  <2>4. state' \in [Tasks -> {"READY", "WAIT", "RECV", "DORMANT"}]
    BY <1>0, <1>3 DEF wake
  <2>. HIDE DEF st
  <2>. QED  BY <1>3, <2>2, <2>3, <2>4, HookStep
<1>4. ASSUME objatr.tpri, wake(NULL, "READY"), UNCHANGED waitmask,
             NEW p \in Pri, priority' = [priority EXCEPT ![t] = p],
             HookResult(gcb_change_priority(wait_queue, t, priority'))
      PROVE  Current'
  <2>1. priority' \in [Tasks -> Pri] /\ \A u \in Tasks : u # t => priority'[u] = priority[u]
    BY <1>0, <1>4
  <2>2. Exact(gcb_change_priority(wait_queue, t, priority'), state, waitmask', priority', objatr')
    BY <1>0, <1>1, <1>4, <2>1, ExactMoved DEF Current
  <2>3. /\ state' \in [Tasks -> {"READY", "WAIT", "RECV", "DORMANT"}]
        /\ \A u \in Tasks : state'[u] = "WAIT" <=> state[u] = "WAIT" /\ u \notin gets'
    BY <1>0, <1>4, ObjectAssumption DEF wake
  <2>. QED  BY <1>4, <2>2, <2>3, HookStep
<1>5. Current'
  BY <1>3, <1>4 DEF Leaves
<1>. QED  BY <1>1, <1>2, <1>5 DEF GcbOK

\* Tasks of the queue are served, nobody else moves.
LEMMA ServeStep ==
  ASSUME GcbOK, objid, HookResult(wait_queue), wake(NULL, "READY"), UNCHANGED <<gcb, waitmask, priority>>
  PROVE  GcbOK'
<1>0. Current /\ state \in [Tasks -> {"READY", "WAIT", "RECV", "DORMANT"}]
  BY DEF GcbOK, Current, Exact
<1>1. /\ state' \in [Tasks -> {"READY", "WAIT", "RECV", "DORMANT"}]
      /\ \A u \in Tasks : state'[u] = "WAIT" <=> state[u] = "WAIT" /\ u \notin gets'
  BY <1>0, ObjectAssumption DEF wake
<1>2. Exact(wait_queue, state, waitmask', priority', objatr')
  BY <1>0 DEF Current, gcb
<1>3. Current'
  BY <1>1, <1>2, HookStep
<1>. QED  BY <1>3 DEF GcbOK, gcb

\* The calls that reach no hook are calls of WaitObject.
LEMMA QuietStep ==
  ASSUME GcbOK, NEW t \in Tasks, HookedQuiet(t)
  PROVE  GcbOK'
<1>1. WaitCall(t) \/ TerTsk(t)
  BY DEF HookedQuiet, WaitCall
<1>. QED  BY <1>1, CallStep

\* Every call of the semaphore.
LEMMA SemStep ==
  ASSUME GcbOK, SemNext
  PROVE  GcbOK'
<1>1. ASSUME NEW atr \in Attributes, NEW cnt \in BOOLEAN, NEW max \in 1..MaxSem, NEW icnt \in 0..MaxSem,
             CreSem(atr, cnt, icnt, max)
      PROVE  GcbOK'
  BY <1>1, CreateStep DEF CreSem
<1>2. CASE DelSem
  BY <1>2, DeleteStep DEF DelSem, HookedDelete
<1>3. ASSUME NEW cnt \in 1..MaxSem, SigSem(cnt)
      PROVE  GcbOK'
  BY <1>3, ServeStep DEF SigSem, sig_allowed, Freed, HookResult
<1>4. ASSUME NEW t \in Tasks, NEW cnt \in 1..MaxSem, WaiSem(t, cnt)
      PROVE  GcbOK'
  <2>1. /\ state[t] = "READY" /\ objid /\ ~is_diswai(t) /\ UNCHANGED <<gcb, waitmask, priority>>
        /\ UNCHANGED <<wait_queue, state>> \/ make_wait_with_diswai(t)
    BY <1>4 DEF WaiSem, hook_make_wait
  <2>2. CASE UNCHANGED <<wait_queue, state>>
    BY <2>1, <2>2 DEF GcbOK, Current, gcb
  <2>3. CASE make_wait_with_diswai(t)
    BY <2>1, <2>3, ExactMakeWait
  <2>. QED  BY <2>1, <2>2, <2>3
<1>5. ASSUME NEW t \in Tasks, HookedLeave(t, sem_chg_pri)
      PROVE  GcbOK'
  <2>1. priority \in [Tasks -> Pri] /\ waitmask \in [Tasks -> BOOLEAN]
    BY DEF GcbOK, Current, Exact
  <2>2. /\ \E b \in BOOLEAN : waitmask = [waitmask EXCEPT ![t] = b]
        /\ \E p \in Pri : priority = [priority EXCEPT ![t] = p]
    BY <2>1
  <2>3. INI_PRI \in Pri
    BY ObjectAssumption
  <2>4. \A q : sem_chg_pri(q) => HookResult(q)
    BY DEF sem_chg_pri, Freed, HookResult
  <2>. HIDE DEF sem_chg_pri
  <2>5. Leaves(t)
    BY <1>5, <2>2, <2>3, <2>4 DEF HookedLeave, leave, Leaves
  <2>. QED  BY <2>5, LeaveStep
<1>6. ASSUME NEW t \in Tasks, HookedQuiet(t)
      PROVE  GcbOK'
  BY <1>6, QuietStep
<1>. QED  BY <1>1, <1>2, <1>3, <1>4, <1>5, <1>6 DEF SemNext

\* Every call of the variable-size memory pool.
LEMMA MplStep ==
  ASSUME GcbOK, MplNext
  PROVE  GcbOK'
<1>1. ASSUME NEW atr \in Attributes, NEW sz \in MplSizes, CreMpl(atr, sz)
      PROVE  GcbOK'
  BY <1>1, CreateStep DEF CreMpl
<1>2. CASE DelMpl
  BY <1>2, DeleteStep DEF DelMpl, HookedDelete
<1>3. ASSUME NEW a \in blocks, RelMpl(a)
      PROVE  GcbOK'
  <2>1. HookResult(wait_queue) /\ objid /\ wake(NULL, "READY") /\ UNCHANGED <<gcb, waitmask, priority>>
    BY <1>3 DEF RelMpl, mpl_wakeup, HookResult
  <2>. QED  BY <2>1, ServeStep
<1>4. ASSUME NEW t \in Tasks, NEW blksz \in BlkSizes, GetMpl(t, blksz)
      PROVE  GcbOK'
  <2>1. /\ state[t] = "READY" /\ objid /\ ~is_diswai(t) /\ UNCHANGED <<gcb, waitmask, priority>>
        /\ UNCHANGED <<wait_queue, state>> \/ make_wait_with_diswai(t)
    BY <1>4 DEF GetMpl, hook_make_wait
  <2>2. CASE UNCHANGED <<wait_queue, state>>
    BY <2>1, <2>2 DEF GcbOK, Current, gcb
  <2>3. CASE make_wait_with_diswai(t)
    BY <2>1, <2>3, ExactMakeWait
  <2>. QED  BY <2>1, <2>2, <2>3
<1>5. ASSUME NEW t \in Tasks, HookedLeave(t, mpl_chg_pri)
      PROVE  GcbOK'
  <2>1. priority \in [Tasks -> Pri] /\ waitmask \in [Tasks -> BOOLEAN]
    BY DEF GcbOK, Current, Exact
  <2>2. /\ \E b \in BOOLEAN : waitmask = [waitmask EXCEPT ![t] = b]
        /\ \E p \in Pri : priority = [priority EXCEPT ![t] = p]
    BY <2>1
  <2>3. INI_PRI \in Pri
    BY ObjectAssumption
  <2>4. \A q : mpl_chg_pri(q) => HookResult(q)
    BY DEF mpl_chg_pri, mpl_wakeup, HookResult
  <2>. HIDE DEF mpl_chg_pri
  <2>5. Leaves(t)
    BY <1>5, <2>2, <2>3, <2>4 DEF HookedLeave, leave, Leaves
  <2>. QED  BY <2>5, LeaveStep
<1>6. ASSUME NEW t \in Tasks, HookedQuiet(t)
      PROVE  GcbOK'
  BY <1>6, QuietStep
<1>. QED  BY <1>1, <1>2, <1>3, <1>4, <1>5, <1>6 DEF MplNext

-----------------------------------------------------------------------------
(* The message buffer: mbf_wakeup serves tasks of the queue only.          *)

\* f goes through the turns of mbf_wakeup.
Wakeups(q, k, f) ==
    f = [n \in 0..Len(q) |-> IF n = 0 THEN k ELSE wakeup_one(f[n - 1], q[n])]

\* The loop is one of them.
LEMMA WakeupsExist ==
  ASSUME NEW q \in Seq(Tasks), NEW k
  PROVE  \E f : Wakeups(q, k, f) /\ Loop(q, k, wakeup_one) = f[Len(q)]
<1>. DEFINE N == Len(q)
            Upto(n, f) == f = [m \in 0..n |-> IF m = 0 THEN k ELSE wakeup_one(f[m - 1], q[m])]
            P == {n \in Nat : n <= N => \E f : Upto(n, f)}
<1>1. N \in Nat
  OBVIOUS
<1>. HIDE DEF wakeup_one
<1>2. 0 \in P
  <2>1. [m \in 0..0 |-> k] = [m \in 0..0 |-> IF m = 0 THEN k ELSE wakeup_one([l \in 0..0 |-> k][m - 1], q[m])]
    OBVIOUS
  <2>. QED  BY <2>1
<1>3. ASSUME NEW n \in Nat, n \in P  PROVE n + 1 \in P
  <2>. HIDE DEF Upto
  <2>. SUFFICES ASSUME n + 1 <= N  PROVE \E f : Upto(n + 1, f)
    OBVIOUS
  <2>0. PICK g : Upto(n, g)
    BY <1>1, <1>3
  <2>1. g = [m \in 0..n |-> IF m = 0 THEN k ELSE wakeup_one(g[m - 1], q[m])]
    BY <2>0 DEF Upto
  <2>. DEFINE h == [m \in 0..(n + 1) |-> IF m = n + 1 THEN wakeup_one(g[n], q[n + 1]) ELSE g[m]]
  <2>2. ASSUME NEW m \in 0..(n + 1)
        PROVE  h[m] = IF m = 0 THEN k ELSE wakeup_one(h[m - 1], q[m])
    <3>1. CASE m = n + 1
      <4>1. h[m] = wakeup_one(g[n], q[n + 1]) /\ m - 1 = n /\ n \in 0..(n + 1) /\ n # n + 1 /\ m # 0
        BY <3>1
      <4>2. h[m - 1] = g[n]
        BY <4>1
      <4>. QED  BY <3>1, <4>1, <4>2
    <3>2. CASE m # n + 1 /\ m # 0
      <4>1. m \in 0..n /\ m - 1 \in 0..(n + 1) /\ m - 1 # n + 1
        BY <3>2
      <4>2. h[m] = g[m] /\ h[m - 1] = g[m - 1]
        BY <3>2, <4>1
      <4>3. g[m] = wakeup_one(g[m - 1], q[m])
        BY <2>1, <3>2, <4>1
      <4>. QED  BY <3>2, <4>2, <4>3
    <3>3. CASE m = 0
      <4>1. m \in 0..n /\ m # n + 1
        BY <3>3
      <4>. QED  BY <2>1, <3>3, <4>1
    <3>. QED  BY <3>1, <3>2, <3>3
  <2>3. h = [m \in 0..(n + 1) |-> IF m = 0 THEN k ELSE wakeup_one(h[m - 1], q[m])]
    <3>1. h = [m \in 0..(n + 1) |-> h[m]]
      OBVIOUS
    <3>. HIDE DEF h
    <3>. QED  BY <2>2, <3>1
  <2>4. Upto(n + 1, h)
    BY <2>3 DEF Upto
  <2>. QED  BY <2>4
<1>. HIDE DEF P
<1>4. Nat \subseteq P
  BY <1>2, <1>3, SetInduction
<1>5. \E f : Wakeups(q, k, f)
  <2>1. PICK f : Upto(N, f)
    <3>. HIDE DEF Upto, N
    <3>. QED  BY <1>1, <1>4 DEF P
  <2>. QED  BY <2>1 DEF Wakeups, N
<1>. DEFINE after == CHOOSE after : after = [n \in 0..Len(q) |-> IF n = 0 THEN k ELSE wakeup_one(after[n - 1], q[n])]
<1>6. Loop(q, k, wakeup_one) = after[Len(q)]
  BY DEF Loop
<1>7. Wakeups(q, k, after)
  <2>1. \E f : f = [n \in 0..Len(q) |-> IF n = 0 THEN k ELSE wakeup_one(f[n - 1], q[n])]
    BY <1>5 DEF Wakeups
  <2>2. after = [n \in 0..Len(q) |-> IF n = 0 THEN k ELSE wakeup_one(after[n - 1], q[n])]
    BY <2>1, Zenon
  <2>. QED  BY <2>2, Zenon DEF Wakeups
<1>. HIDE DEF after
<1>. QED  BY <1>6, <1>7

RingFields == {"free", "tail", "buf", "acc", "freed", "stop"}

\* Only tasks of the queue are freed, and who was freed before stays it.
LEMMA WakeupFreed ==
  ASSUME NEW q \in Seq(Tasks), NEW k, DOMAIN k = RingFields
  PROVE  /\ k.freed \subseteq Loop(q, k, wakeup_one).freed
         /\ Loop(q, k, wakeup_one).freed \subseteq k.freed \cup ToSet(q)
<1>1. PICK f : Wakeups(q, k, f) /\ Loop(q, k, wakeup_one) = f[Len(q)]
  BY WakeupsExist
<1>. DEFINE N == Len(q)
            Good(r) == DOMAIN r = RingFields /\ k.freed \subseteq r.freed /\ r.freed \subseteq k.freed \cup ToSet(q)
            P == {n \in Nat : n <= N => Good(f[n])}
<1>2. N \in Nat /\ \A i \in 1..N : q[i] \in ToSet(q)
  BY MemberPosition
<1>3. f[0] = k /\ \A n \in 1..N : f[n] = wakeup_one(f[n - 1], q[n])
  <2>1. 0 \in 0..N /\ \A n \in 1..N : n \in 0..N /\ n # 0
    BY <1>2
  <2>. HIDE DEF wakeup_one
  <2>. QED  BY <1>1, <2>1 DEF Wakeups
<1>4. \A r : Good(r) => \A t \in ToSet(q) : Good(wakeup_one(r, t))
  <2>. SUFFICES ASSUME NEW r, Good(r), NEW t \in ToSet(q)
                PROVE  Good(wakeup_one(r, t))
    OBVIOUS
  <2>1. CASE r.stop \/ ~mbf_free(r, winfo[t])
    BY <2>1 DEF wakeup_one, RingFields
  <2>2. CASE ~(r.stop \/ ~mbf_free(r, winfo[t]))
    <3>. DEFINE u == msg_to_mbf(r, winfo[t])
    <3>1. DOMAIN u = RingFields /\ u.freed = r.freed
      BY DEF msg_to_mbf, RingFields
    <3>. HIDE DEF u
    <3>2. wakeup_one(r, t) = [u EXCEPT !.freed = @ \cup {t}]
      BY <2>2 DEF wakeup_one, u
    <3>. QED  BY <3>1, <3>2 DEF RingFields
  <2>. QED  BY <2>1, <2>2
<1>5. 0 \in P
  BY <1>3
<1>6. ASSUME NEW n \in Nat, n \in P  PROVE n + 1 \in P
  <2>. SUFFICES ASSUME n + 1 <= N  PROVE Good(f[n + 1])
    OBVIOUS
  <2>1. Good(f[n]) /\ n + 1 \in 1..N /\ (n + 1) - 1 = n
    BY <1>2, <1>6
  <2>2. f[n + 1] = wakeup_one(f[n], q[n + 1]) /\ q[n + 1] \in ToSet(q)
    BY <1>2, <1>3, <2>1
  <2>. HIDE DEF Good
  <2>. QED  BY <1>4, <2>1, <2>2
<1>. HIDE DEF P
<1>7. Nat \subseteq P
  BY <1>5, <1>6, SetInduction
<1>8. Good(f[N])
  BY <1>2, <1>7 DEF P
<1>. QED  BY <1>1, <1>8

\* The receive queue holds exactly the tasks in the state RECV, and none when
\* the buffer does not exist.
RecvOK ==
    /\ recv_queue \in Seq(Tasks) /\ IsInjective(recv_queue)
    /\ \A t \in Tasks : t \in ToSet(recv_queue) <=> state[t] = "RECV"
    /\ \A t \in ToSet(recv_queue) : ~waitmask[t] \/ objatr.nodiswai
    /\ ~objid => recv_queue = <<>>

\* It is what the model asks for.
LEMMA RecvExact ==
  ASSUME RecvOK
  PROVE  RecvQueueExact
<1>1. ToSet(recv_queue) \subseteq Tasks
  BY MemberPosition DEF RecvOK
<1>. QED  BY <1>1 DEF RecvOK, RecvQueueExact, is_diswai

\* Steps that do not concern the receivers.
LEMMA RecvSame ==
  ASSUME RecvOK, recv_queue' = recv_queue, objatr' = objatr, objid' = objid,
         \A u \in Tasks : state'[u] = "RECV" <=> state[u] = "RECV",
         \A u \in Tasks : state[u] = "RECV" /\ waitmask'[u] => waitmask[u] \/ objatr.nodiswai
  PROVE  RecvOK'
<1>1. ToSet(recv_queue) \subseteq Tasks
  BY MemberPosition DEF RecvOK
<1>. QED  BY <1>1 DEF RecvOK

\* mbf_wakeup as a hook.
LEMMA MbfWakeup ==
  ASSUME NEW q \in Seq(Tasks), NEW k, DOMAIN k = RingFields, mbf_wakeup(q, k)
  PROVE  HookResult(q) /\ k.freed \subseteq gets' /\ gets' \subseteq k.freed \cup ToSet(q)
<1>1. wait_queue' = Without(q, gets') /\ gets' = Loop(q, k, wakeup_one).freed
  BY DEF mbf_wakeup
<1>2. k.freed \subseteq gets' /\ gets' \subseteq k.freed \cup ToSet(q)
  BY <1>1, WakeupFreed
<1>. QED  BY <1>1, <1>2 DEF HookResult

\* ... of a task that leaves.
LEMMA MbfHook ==
  ASSUME NEW q \in Seq(Tasks), mbf_chg_pri(q)
  PROVE  HookResult(q) /\ gets' \subseteq ToSet(q) /\ recv_queue' = recv_queue
<1>1. mbf_wakeup(q, Ring) /\ recv_queue' = recv_queue
  BY DEF mbf_chg_pri
<1>2. DOMAIN Ring = RingFields /\ Ring.freed = {}
  BY DEF Ring, RingFields
<1>. QED  BY <1>1, <1>2, MbfWakeup

\* A sender gives up or moves.
LEMMA MbfLeave ==
  ASSUME GcbOK, RecvOK, NEW t \in Tasks, HookedLeave(t, mbf_chg_pri)
  PROVE  GcbOK' /\ RecvOK'
<1>1. /\ priority \in [Tasks -> Pri] /\ waitmask \in [Tasks -> BOOLEAN] /\ INI_PRI \in Pri
      /\ wait_queue \in Seq(Tasks) /\ IsInjective(wait_queue) /\ state[t] = "WAIT" /\ UNCHANGED gcb
      /\ \A u \in Tasks : u \in ToSet(wait_queue) <=> state[u] = "WAIT"
      /\ Exact(wait_queue, state, waitmask, priority, objatr)
  BY ObjectAssumption DEF GcbOK, Current, Exact, HookedLeave
<1>2. /\ QueRemove(wait_queue, t) \in Seq(Tasks)
      /\ ToSet(QueRemove(wait_queue, t)) \subseteq ToSet(wait_queue)
  BY <1>1, QueRemoveProperties
<1>3. ASSUME NEW p \in Pri, objatr.tpri, priority' = [priority EXCEPT ![t] = p]
      PROVE  /\ gcb_change_priority(wait_queue, t, priority') \in Seq(Tasks)
             /\ ToSet(gcb_change_priority(wait_queue, t, priority')) = ToSet(wait_queue)
  <2>1. priority' \in [Tasks -> Pri] /\ \A u \in Tasks : u # t => priority'[u] = priority[u]
    BY <1>1, <1>3
  <2>2. Exact(gcb_change_priority(wait_queue, t, priority'), state, waitmask, priority', objatr)
    BY <1>1, <1>3, <2>1, ExactMoved
  <2>. DEFINE g == gcb_change_priority(wait_queue, t, priority')
  <2>. HIDE DEF g
  <2>3. g \in Seq(Tasks) /\ \A u \in Tasks : u \in ToSet(g) <=> state[u] = "WAIT"
    BY <2>2 DEF Exact, g
  <2>4. ToSet(g) \subseteq Tasks /\ ToSet(wait_queue) \subseteq Tasks
    BY <1>1, <2>3, MemberPosition
  <2>5. ToSet(g) = ToSet(wait_queue)
    BY <1>1, <2>3, <2>4
  <2>. QED  BY <2>3, <2>5 DEF g
<1>. HIDE DEF mbf_chg_pri
<1>4. /\ \E b \in BOOLEAN : waitmask = [waitmask EXCEPT ![t] = b]
      /\ \E p \in Pri : priority = [priority EXCEPT ![t] = p]
  BY <1>1
<1>5. Leaves(t)
      /\ gets' \subseteq ToSet(wait_queue) /\ recv_queue' = recv_queue
  <2>1. CASE leave(t, "READY", mbf_chg_pri) /\ UNCHANGED <<waitmask, priority>>
    <3>1. HookResult(QueRemove(wait_queue, t)) /\ gets' \subseteq ToSet(wait_queue) /\ recv_queue' = recv_queue
      BY <1>2, <2>1, MbfHook DEF leave
    <3>. QED  BY <1>1, <1>4, <2>1, <3>1 DEF leave, Leaves
  <2>2. CASE leave(t, "READY", mbf_chg_pri) /\ waitmask' = [waitmask EXCEPT ![t] = TRUE] /\ UNCHANGED priority
    <3>1. HookResult(QueRemove(wait_queue, t)) /\ gets' \subseteq ToSet(wait_queue) /\ recv_queue' = recv_queue
      BY <1>2, <2>2, MbfHook DEF leave
    <3>. QED  BY <1>1, <1>4, <2>2, <3>1 DEF leave, Leaves
  <2>3. CASE /\ leave(t, "DORMANT", mbf_chg_pri) /\ waitmask' = [waitmask EXCEPT ![t] = FALSE]
             /\ priority' = [priority EXCEPT ![t] = INI_PRI]
    <3>1. HookResult(QueRemove(wait_queue, t)) /\ gets' \subseteq ToSet(wait_queue) /\ recv_queue' = recv_queue
      BY <1>2, <2>3, MbfHook DEF leave
    <3>. QED  BY <1>1, <1>4, <2>3, <3>1 DEF leave, Leaves
  <2>4. ASSUME NEW p \in Pri, objatr.tpri, priority' = [priority EXCEPT ![t] = p],
               mbf_chg_pri(gcb_change_priority(wait_queue, t, priority')),
               wake(NULL, "READY"), UNCHANGED waitmask
        PROVE  Leaves(t) /\ gets' \subseteq ToSet(wait_queue) /\ recv_queue' = recv_queue
    <3>1. /\ HookResult(gcb_change_priority(wait_queue, t, priority'))
          /\ gets' \subseteq ToSet(wait_queue) /\ recv_queue' = recv_queue
      BY <1>3, <2>4, MbfHook
    <3>. QED  BY <1>1, <2>4, <3>1 DEF Leaves
  <2>. QED  BY <2>1, <2>2, <2>3, <2>4 DEF HookedLeave
<1>6. GcbOK'
  BY <1>5, LeaveStep
<1>7. RecvOK'
  <2>1. /\ \A u \in Tasks : state'[u] = "RECV" <=> state[u] = "RECV"
        /\ \A u \in Tasks : u # t => waitmask'[u] = waitmask[u]
    <3>1. \A u \in gets' : state[u] = "WAIT" \/ u \notin Tasks
      BY <1>1, <1>5
    <3>2. CASE \E s \in {"READY", "DORMANT"} : wake(t, s)
      <4>1. \A u \in Tasks : state'[u] = "RECV" <=> state[u] = "RECV"
        BY <1>1, <3>1, <3>2 DEF wake
      <4>. QED  BY <1>1, <1>5, <4>1 DEF Leaves
    <3>3. CASE wake(NULL, "READY")
      <4>1. \A u \in Tasks : state'[u] = "RECV" <=> state[u] = "RECV"
        BY <1>1, <3>1, <3>3, ObjectAssumption DEF wake
      <4>. QED  BY <1>1, <1>5, <4>1 DEF Leaves
    <3>. QED  BY <1>5, <3>2, <3>3 DEF Leaves
  <2>. QED  BY <1>1, <1>5, <2>1, RecvSame DEF gcb
<1>. QED  BY <1>6, <1>7

\* Steps that leave the wait queue and who waits in it as they are.
LEMMA GcbSame ==
  ASSUME GcbOK, UNCHANGED <<gcb, wait_queue>>,
         state' \in [Tasks -> {"READY", "WAIT", "RECV", "DORMANT"}],
         waitmask' \in [Tasks -> BOOLEAN], priority' \in [Tasks -> Pri],
         \A u \in Tasks : state'[u] = "WAIT" <=> state[u] = "WAIT",
         \A u \in Tasks : state[u] = "WAIT" => waitmask'[u] = waitmask[u] /\ priority'[u] = priority[u]
  PROVE  GcbOK'
<1>1. Exact(wait_queue, state, waitmask, priority, objatr) /\ UNCHANGED <<objid, objatr>>
  BY DEF GcbOK, Current, gcb
<1>2. Exact(wait_queue, state', waitmask', priority', objatr)
  BY <1>1, ExactSame
<1>. QED  BY <1>1, <1>2 DEF GcbOK, Current

\* Storing a message changes neither queue.
LEMMA SendStep ==
  ASSUME GcbOK, RecvOK, NEW m, NEW S, snd_to_receiver(m) \/ snd_to_ring(m, S),
         objid, UNCHANGED <<gcb, waitmask, priority>>
  PROVE  GcbOK' /\ RecvOK'
<1>0. /\ state \in [Tasks -> {"READY", "WAIT", "RECV", "DORMANT"}] /\ waitmask \in [Tasks -> BOOLEAN]
      /\ priority \in [Tasks -> Pri]
  BY DEF GcbOK, Current, Exact
<1>1. CASE snd_to_ring(m, S)
  <2>1. UNCHANGED <<wait_queue, state, recv_queue>>
    BY <1>1 DEF snd_to_ring
  <2>. QED  BY <1>0, <2>1, GcbSame, RecvSame DEF gcb
<1>2. CASE snd_to_receiver(m)
  <2>. DEFINE h == QueNext(recv_queue)
              r == QueRemoveNext(recv_queue)
  <2>1. /\ recv_queue # <<>> /\ recv_queue' = r /\ gets' = {h} /\ UNCHANGED wait_queue
        /\ \A u \in Tasks : state'[u] = IF u = h THEN "READY" ELSE state[u]
        /\ state' = [u \in Tasks |-> IF u = NULL THEN "READY" ELSE IF u \in gets' THEN "READY" ELSE state[u]]
    BY <1>2, ObjectAssumption DEF snd_to_receiver, wake
  <2>2. r \in Seq(Tasks) /\ ToSet(r) = ToSet(recv_queue) \ {h} /\ IsInjective(r)
        /\ h \in ToSet(recv_queue) /\ h \in Tasks
    BY <2>1, QueRemoveNextProperties DEF RecvOK, QueNext
  <2>3. state[h] = "RECV"
    BY <2>2 DEF RecvOK
  <2>4. state' \in [Tasks -> {"READY", "WAIT", "RECV", "DORMANT"}]
    BY <1>0, <2>1
  <2>. HIDE DEF h, r
  <2>5. GcbOK'
    BY <1>0, <2>1, <2>3, <2>4, GcbSame
  <2>6. RecvOK'
    BY <2>1, <2>2, <2>3 DEF RecvOK, gcb
  <2>. QED  BY <2>5, <2>6
<1>. QED  BY <1>1, <1>2

\* Every call of the message buffer.
LEMMA MbfStep ==
  ASSUME GcbOK, RecvOK, MbfNext
  PROVE  GcbOK' /\ RecvOK'
<1>. DEFINE States == {"READY", "WAIT", "RECV", "DORMANT"}
<1>0. /\ state \in [Tasks -> States] /\ waitmask \in [Tasks -> BOOLEAN] /\ INI_PRI \in Pri
      /\ priority \in [Tasks -> Pri] /\ wait_queue \in Seq(Tasks) /\ IsInjective(wait_queue)
      /\ \A u \in Tasks : u \in ToSet(wait_queue) <=> state[u] = "WAIT"
      /\ Exact(wait_queue, state, waitmask, priority, objatr)
  BY ObjectAssumption DEF GcbOK, Current, Exact
<1>1. ASSUME NEW atr \in Attributes, NEW sz \in BufSizes, CreMbf(atr, sz)
      PROVE  GcbOK' /\ RecvOK'
  <2>1. create(atr) /\ recv_queue' = <<>> /\ UNCHANGED tasks /\ recv_queue = <<>>
    BY <1>1 DEF CreMbf, create, RecvOK
  <2>2. \A t \in ToSet(<<>>) : FALSE
    BY DEF ToSet
  <2>. QED  BY <2>1, <2>2, CreateStep DEF RecvOK, tasks
<1>2. CASE DelMbf
  <2>. DEFINE S == ToSet(recv_queue) \cup ToSet(wait_queue)
  <2>1. /\ wait_release_ok(S) /\ recv_queue' = <<>> /\ objid' = FALSE
        /\ UNCHANGED <<objatr, waitmask, priority>>
    BY <1>2 DEF DelMbf
  <2>2. Current' /\ wait_queue' = <<>>
    BY <1>0, <2>1, ReleaseStep, WithoutAll DEF wait_release_ok
  <2>3. \A t \in Tasks : state'[t] # "RECV"
    BY <1>0, <2>1 DEF wait_release_ok, RecvOK
  <2>4. \A t \in ToSet(<<>>) : FALSE
    BY DEF ToSet
  <2>5. <<>> \in Seq(Tasks) /\ IsInjective(<<>>)
    BY DEF IsInjective
  <2>. QED  BY <2>1, <2>2, <2>3, <2>4, <2>5 DEF RecvOK, GcbOK
<1>3. ASSUME NEW m \in MbfMsgs, SndMbfIndp(m)
      PROVE  GcbOK' /\ RecvOK'
  BY <1>3, SendStep DEF SndMbfIndp
<1>4. ASSUME NEW m \in MbfMsgs, NEW t \in Tasks, SndMbf(t, m)
      PROVE  GcbOK' /\ RecvOK'
  <2>1. state[t] = "READY" /\ objid /\ ~is_diswai(t) /\ UNCHANGED <<gcb, waitmask, priority>>
    BY <1>4 DEF SndMbf
  <2>2. CASE snd_to_receiver(m) \/ snd_to_ring(m, {t})
    BY <2>1, <2>2, SendStep
  <2>3. CASE hook_make_wait(t, m) /\ recv_queue' = recv_queue
    <3>1. make_wait_with_diswai(t) /\ state' = [state EXCEPT ![t] = "WAIT"]
      BY <2>1, <2>3 DEF hook_make_wait, make_wait_with_diswai
    <3>2. GcbOK'
      BY <2>1, <3>1, ExactMakeWait
    <3>3. RecvOK'
      BY <1>0, <2>1, <2>3, <3>1, RecvSame DEF gcb
    <3>. QED  BY <3>2, <3>3
  <2>. QED  BY <1>4, <2>2, <2>3 DEF SndMbf
<1>5. ASSUME NEW t \in Tasks, RcvMbf(t)
      PROVE  GcbOK' /\ RecvOK'
  <2>1. state[t] = "READY" /\ objid /\ ~is_diswai(t) /\ UNCHANGED <<gcb, waitmask, priority>>
    BY <1>5 DEF RcvMbf
  <2>2. CASE rcv_from_ring
    <3>. DEFINE k == [Ring EXCEPT !.free = @ + HEADERSZ + ROUNDSZ(HeadSize), !.acc = Tail(@)]
    <3>1. mbf_wakeup(wait_queue, k) /\ wake(NULL, "READY") /\ recv_queue' = recv_queue
      BY <2>2 DEF rcv_from_ring
    <3>2. DOMAIN k = RingFields /\ k.freed = {}
      BY DEF Ring, RingFields
    <3>. HIDE DEF k
    <3>3. HookResult(wait_queue) /\ gets' \subseteq ToSet(wait_queue)
      BY <1>0, <3>1, <3>2, MbfWakeup
    <3>4. GcbOK'
      BY <2>1, <3>1, <3>3, ServeStep
    <3>5. \A u \in Tasks : state'[u] = "RECV" <=> state[u] = "RECV"
      BY <1>0, <3>1, <3>3, ObjectAssumption DEF wake
    <3>. QED  BY <2>1, <3>1, <3>4, <3>5, RecvSame DEF gcb
  <2>3. CASE rcv_from_sender
    <3>. DEFINE h == QueNext(wait_queue)
                q == QueRemoveNext(wait_queue)
                k == [Ring EXCEPT !.freed = {h}]
                st == [state EXCEPT ![h] = "READY"]
    <3>1. /\ wait_queue # <<>> /\ mbf_wakeup(q, k) /\ wake(NULL, "READY") /\ recv_queue' = recv_queue
      BY <2>3 DEF rcv_from_sender, isQueEmpty
    <3>2. DOMAIN k = RingFields /\ k.freed = {h}
      BY DEF Ring, RingFields
    <3>3. /\ q \in Seq(Tasks) /\ ToSet(q) = ToSet(wait_queue) \ {h}
          /\ h \in ToSet(wait_queue) /\ h \in Tasks /\ q = QueRemove(wait_queue, h)
      BY <1>0, <3>1, QueRemoveNextProperties, QueRemoveHead DEF QueNext, QueRemoveNext
    <3>. HIDE DEF k, h, q
    <3>4. HookResult(q) /\ h \in gets' /\ gets' \subseteq ToSet(wait_queue)
      BY <3>1, <3>2, <3>3, MbfWakeup
    <3>5. /\ st \in [Tasks -> States] /\ state[h] = "WAIT"
          /\ \A u \in Tasks : st[u] = "WAIT" <=> state[u] = "WAIT" /\ u # h
      BY <1>0, <3>3
    <3>6. \A u \in Tasks : state'[u] = IF u \in gets' THEN "READY" ELSE state[u]
      BY <3>1, ObjectAssumption DEF wake
    <3>7. state' \in [Tasks -> States]
      BY <1>0, <3>1, ObjectAssumption DEF wake
    <3>8. \A u \in Tasks : state'[u] = "WAIT" <=> st[u] = "WAIT" /\ u \notin gets'
      BY <3>4, <3>5, <3>6
    <3>9. \A u \in Tasks : state'[u] = "RECV" <=> state[u] = "RECV"
      BY <1>0, <3>4, <3>6
    <3>. HIDE DEF st
    <3>10. Exact(q, st, waitmask, priority, objatr)
      BY <1>0, <3>3, <3>5, ExactRemove
    <3>11. Current'
      <4>1. Exact(q, st, waitmask', priority', objatr')
        BY <2>1, <3>10 DEF gcb
      <4>. QED  BY <3>4, <3>7, <3>8, <4>1, HookStep
    <3>12. GcbOK'
      BY <2>1, <3>11 DEF GcbOK, gcb
    <3>. QED  BY <2>1, <3>1, <3>9, <3>12, RecvSame DEF gcb
  <2>4. CASE /\ state' = [state EXCEPT ![t] = "RECV"] /\ recv_queue' = QueInsert(recv_queue, t)
             /\ UNCHANGED wait_queue
    <3>1. state' \in [Tasks -> States] /\ \A u \in Tasks : state'[u] = "WAIT" <=> state[u] = "WAIT"
      BY <1>0, <2>1, <2>4
    <3>2. GcbOK'
      BY <1>0, <2>1, <2>4, <3>1, GcbSame
    <3>3. t \notin ToSet(recv_queue)
      BY <2>1 DEF RecvOK
    <3>4. /\ recv_queue' \in Seq(Tasks) /\ ToSet(recv_queue') = ToSet(recv_queue) \cup {t}
          /\ IsInjective(recv_queue')
      BY <2>4, <3>3, QueInsertProperties DEF RecvOK
    <3>5. RecvOK'
      <4>1. \A u \in Tasks : u \in ToSet(recv_queue') <=> state'[u] = "RECV"
        BY <1>0, <2>4, <3>4 DEF RecvOK
      <4>2. \A u \in ToSet(recv_queue') : ~waitmask'[u] \/ objatr'.nodiswai
        BY <2>1, <3>4 DEF RecvOK, is_diswai, gcb
      <4>. QED  BY <2>1, <3>4, <4>1, <4>2 DEF RecvOK, gcb
    <3>. QED  BY <3>2, <3>5
  <2>. QED  BY <1>5, <2>2, <2>3, <2>4 DEF RcvMbf
<1>6. ASSUME NEW t \in Tasks, RecvLeave(t)
      PROVE  GcbOK' /\ RecvOK'
  <2>. DEFINE r == QueRemove(recv_queue, t)
  <2>1. /\ state[t] = "RECV" /\ recv_queue' = r /\ UNCHANGED <<gcb, wait_queue>>
        /\ \E s \in {"READY", "DORMANT"} : state' = [state EXCEPT ![t] = s]
        /\ \A u \in Tasks : u # t => waitmask'[u] = waitmask[u] /\ priority'[u] = priority[u]
        /\ waitmask' \in [Tasks -> BOOLEAN] /\ priority' \in [Tasks -> Pri]
    BY <1>0, <1>6 DEF RecvLeave
  <2>2. r \in Seq(Tasks) /\ ToSet(r) = ToSet(recv_queue) \ {t} /\ IsInjective(r)
    BY QueRemoveProperties DEF RecvOK
  <2>. HIDE DEF r
  <2>3. GcbOK'
    <3>1. state' \in [Tasks -> States] /\ \A u \in Tasks : state'[u] = "WAIT" <=> state[u] = "WAIT"
      BY <1>0, <2>1
    <3>2. \A u \in Tasks : state[u] = "WAIT" => waitmask'[u] = waitmask[u] /\ priority'[u] = priority[u]
      BY <2>1
    <3>. QED  BY <2>1, <3>1, <3>2, GcbSame
  <2>4. RecvOK'
    <3>1. \A u \in Tasks : u \in ToSet(recv_queue') <=> state'[u] = "RECV"
      BY <1>0, <2>1, <2>2 DEF RecvOK
    <3>2. \A u \in ToSet(recv_queue') : ~waitmask'[u] \/ objatr'.nodiswai
      <4>1. ToSet(recv_queue) \subseteq Tasks
        BY MemberPosition DEF RecvOK
      <4>. QED  BY <2>1, <2>2, <4>1 DEF RecvOK, gcb
    <3>3. objid
      BY <2>1 DEF RecvOK, ToSet
    <3>. QED  BY <2>1, <2>2, <3>1, <3>2, <3>3 DEF RecvOK, gcb
  <2>. QED  BY <2>3, <2>4
<1>7. ASSUME NEW t \in Tasks, HookedLeave(t, mbf_chg_pri)
      PROVE  GcbOK' /\ RecvOK'
  BY <1>7, MbfLeave
<1>8. ASSUME NEW t \in Tasks, HookedQuiet(t), recv_queue' = recv_queue
      PROVE  GcbOK' /\ RecvOK'
  <2>1. GcbOK'
    BY <1>8, QuietStep
  <2>2. /\ \A u \in Tasks : state'[u] = "RECV" <=> state[u] = "RECV"
        /\ \A u \in Tasks : state[u] = "RECV" /\ waitmask'[u] => waitmask[u] \/ objatr.nodiswai
        /\ UNCHANGED <<objid, objatr>>
    <3>1. CASE state[t] # "WAIT" /\ state[t] # "RECV" /\ DisWai(t)
      BY <1>0, <3>1 DEF DisWai, wait_release_ok, gcb
    <3>2. CASE state[t] # "WAIT" /\ state[t] # "RECV" /\ TerTsk(t)
      BY <1>0, <3>2 DEF TerTsk, gcb
    <3>3. CASE objatr.nodiswai /\ DisWai(t)
      BY <1>0, <3>3 DEF DisWai, wait_release_ok, gcb
    <3>4. CASE EnaWai(t)
      BY <1>0, <3>4 DEF EnaWai, gcb
    <3>5. CASE StaTsk(t)
      BY <1>0, <3>5 DEF StaTsk, gcb
    <3>6. CASE \E p \in Pri : ChgPri(t, p)
      BY <3>6 DEF ChgPri, gcb
    <3>. QED  BY <1>8, <3>1, <3>2, <3>3, <3>4, <3>5, <3>6 DEF HookedQuiet
  <2>3. RecvOK'
    BY <1>8, <2>2, RecvSame
  <2>. QED  BY <2>1, <2>3
<1>. QED  BY <1>1, <1>2, <1>3, <1>4, <1>5, <1>6, <1>7, <1>8 DEF MbfNext

-----------------------------------------------------------------------------
(* Rendezvous ports: one queue at a time.                                  *)

\* The queue q holds the tasks of S, by their keys if they are ordered.
Holds(q, S, key, ordered) ==
    /\ q \in Seq(Tasks) /\ IsInjective(q) /\ ToSet(q) = S
    /\ ordered => Sorted(q, key)

\* A task is taken out, wherever it waits; its key does not matter any more.
LEMMA HoldsRemove ==
  ASSUME NEW q, NEW S, NEW key, NEW ordered, Holds(q, S, key, ordered), NEW t, NEW key2,
         \A u \in Tasks : u # t => key2[u] = key[u]
  PROVE  Holds(QueRemove(q, t), S \ {t}, key2, ordered)
<1>. DEFINE r == QueRemove(q, t)
<1>1. q \in Seq(Tasks) /\ IsInjective(q) /\ ToSet(q) = S /\ (ordered => Sorted(q, key)) /\ S \subseteq Tasks
  BY MemberPosition DEF Holds
<1>2. r \in Seq(Tasks) /\ IsInjective(r) /\ ToSet(r) = S \ {t} /\ (ordered => Sorted(r, key))
  BY <1>1, QueRemoveProperties, QueRemoveSorted
<1>. HIDE DEF r
<1>3. \A x, y \in ToSet(r) : key[x] <= key[y] => key2[x] <= key2[y]
  BY <1>1, <1>2
<1>4. ordered => Sorted(r, key2)
  BY <1>2, <1>3, SortedSameOrder
<1>. QED  BY <1>2, <1>4 DEF Holds, r

\* Keys of tasks that wait elsewhere.
LEMMA HoldsSame ==
  ASSUME NEW q, NEW S, NEW key, NEW ordered, Holds(q, S, key, ordered), NEW key2,
         ordered => \A u \in S : key2[u] = key[u]
  PROVE  Holds(q, S, key2, ordered)
<1>1. ordered => \A x, y \in ToSet(q) : key[x] <= key[y] => key2[x] <= key2[y]
  BY DEF Holds
<1>2. ordered => Sorted(q, key2)
  BY <1>1, SortedSameOrder DEF Holds
<1>. QED  BY <1>2 DEF Holds

\* A task begins to wait.
LEMMA HoldsInsert ==
  ASSUME NEW q, NEW S, NEW key \in [Tasks -> Pri], NEW ordered \in BOOLEAN, Holds(q, S, key, ordered),
         NEW t \in Tasks, t \notin S
  PROVE  Holds(gcb_make_wait(q, t, key, ordered), S \cup {t}, key, ordered)
BY ExactInsert DEF Holds

\* A waiting task changes its priority.
LEMMA HoldsMove ==
  ASSUME NEW q, NEW S, NEW key, Holds(q, S, key, TRUE), NEW t \in S, t \in Tasks,
         NEW key2 \in [Tasks -> Pri], \A u \in Tasks : u # t => key2[u] = key[u]
  PROVE  Holds(gcb_change_priority(q, t, key2), S, key2, TRUE)
<1>. DEFINE r == QueRemove(q, t)
<1>1. Holds(r, S \ {t}, key2, TRUE)
  BY HoldsRemove
<1>. HIDE DEF r
<1>2. Holds(gcb_make_wait(r, t, key2, TRUE), (S \ {t}) \cup {t}, key2, TRUE)
  BY <1>1, HoldsInsert
<1>3. gcb_make_wait(r, t, key2, TRUE) = gcb_change_priority(q, t, key2) /\ (S \ {t}) \cup {t} = S
  BY DEF gcb_make_wait, gcb_change_priority, r
<1>. QED  BY <1>2, <1>3

-----------------------------------------------------------------------------
(* The ports.                                                              *)

TcbFields == {"state", "wid", "ptn", "rdvno", "maxrmsz", "nodiswai", "mask", "pri", "buf"}

TcbOK(r) == /\ DOMAIN r = TcbFields /\ r.pri \in Pri /\ r.maxrmsz \in Nat /\ r.buf \in Nat
            /\ r.state = "CAL" => r.wid \in Ports

Callers(p)   == {t \in Tasks : rtcb[t].state = "CAL" /\ rtcb[t].wid = p}
Acceptors(p) == {t \in Tasks : rtcb[t].state = "ACP" /\ rtcb[t].wid = p}

PortOK(p) == porcb[p].exists => porcb[p].atr \in ObjAtr /\ porcb[p].maxrmsz \in Nat

Ordered(p) == porcb[p].exists /\ porcb[p].atr.tpri

\* The types, as far as the proofs need them.
PorTypes == /\ DOMAIN rtcb = Tasks /\ \A t \in Tasks : TcbOK(rtcb[t])
            /\ DOMAIN porcb = Ports /\ \A p \in Ports : PortOK(p)
            /\ DOMAIN call_queue = Ports /\ DOMAIN accept_queue = Ports

\* Both queues of every port.
PorQueues == \A p \in Ports :
                /\ Holds(call_queue[p], Callers(p), pri, Ordered(p))
                /\ Holds(accept_queue[p], Acceptors(p), pri, FALSE)
                /\ ~porcb[p].exists => call_queue[p] = <<>> /\ accept_queue[p] = <<>>

PorOK == PorTypes /\ PorQueues

\* It is what the model asks for.
LEMMA PorExact ==
  ASSUME PorOK
  PROVE  PortQueuesExact
BY DEF PorOK, PorQueues, PorTypes, PortOK, PortQueuesExact, Holds, Callers, Acceptors, Ordered, PriorityOrdered, Sorted

\* What a task's record is when its wait ends.
LEMMA ReadyTcb ==
  ASSUME NEW r, TcbOK(r)
  PROVE  /\ TcbOK(Ready(r)) /\ Ready(r).state = "READY" /\ Ready(r).wid = NULL
         /\ Ready(r).pri = r.pri /\ Ready(r).mask = r.mask
BY DEF Ready, TcbOK, TcbFields

\* ... when it waits for the end of a rendezvous.
LEMMA RdvTcb ==
  ASSUME PorTypes, NEW t \in Tasks, NEW p \in Ports, porcb[p].exists, NEW buf \in Nat
  PROVE  LET r == rdv_wait(t, p, buf)
         IN  /\ TcbOK(r) /\ r.state = "RDV" /\ r.wid = NULL /\ r.pri = rtcb[t].pri /\ r.mask = rtcb[t].mask
             /\ r.rdvno = gen_rdvno(t) /\ r.maxrmsz = porcb[p].maxrmsz /\ r.buf = buf
<1>1. TcbOK(rtcb[t]) /\ porcb[p].maxrmsz \in Nat
  BY DEF PorTypes, PortOK
<1>. QED  BY <1>1 DEF rdv_wait, TcbOK, TcbFields

\* ... when it waits for a partner.
LEMMA CalTcb ==
  ASSUME PorTypes, NEW t \in Tasks, NEW p \in Ports, NEW ptn, NEW buf \in Nat
  PROVE  LET r == cal_wait(t, p, ptn, buf)
         IN  /\ TcbOK(r) /\ r.state = "CAL" /\ r.wid = p /\ r.pri = rtcb[t].pri /\ r.mask = rtcb[t].mask
             /\ r.buf = buf
<1>1. TcbOK(rtcb[t])
  BY DEF PorTypes
<1>. QED  BY <1>1 DEF cal_wait, Ready, TcbOK, TcbFields

\* The partner that is found waits in the queue.
LEMMA MatchFound ==
  ASSUME NEW q \in Seq(Tasks), NEW ptn, first_match(q, ptn) # NULL
  PROVE  first_match(q, ptn) \in ToSet(q) /\ first_match(q, ptn) \in Tasks
<1>. DEFINE I == {i \in 1..Len(q) : rtcb[q[i]].ptn \cap ptn # {}}
            i == SelectInSeq(q, LAMBDA u : rtcb[u].ptn \cap ptn # {})
<1>1. i = IF I # {} THEN Min(I) ELSE 0
  BY DEF SelectInSeq
<1>2. first_match(q, ptn) = IF i = 0 THEN NULL ELSE q[i]
  BY DEF first_match
<1>. HIDE DEF i
<1>3. I # {} /\ i = Min(I)
  BY <1>1, <1>2
<1>4. i \in I
  <2>1. I \in SUBSET Nat
    OBVIOUS
  <2>. HIDE DEF I
  <2>. QED  BY <1>3, <2>1, MinPosition
<1>. QED  BY <1>2, <1>3, <1>4, MemberPosition

\* Nobody's priority changes with its wait.
LEMMA PriTyped ==
  ASSUME PorTypes
  PROVE  pri \in [Tasks -> Pri] /\ \A t \in Tasks : pri[t] = rtcb[t].pri
BY DEF PorTypes, TcbOK, pri

-----------------------------------------------------------------------------
(* The parts of the calls.                                                 *)

\* A task that waits in no queue waits for a partner.
LEMMA CalWaitStep ==
  ASSUME PorOK, NEW t \in Tasks, rtcb[t].state \notin {"CAL", "ACP"}, NEW p \in Ports, porcb[p].exists,
         NEW ptn, NEW buf \in Nat,
         rtcb' = [rtcb EXCEPT ![t] = cal_wait(t, p, ptn, buf)],
         call_queue' = [call_queue EXCEPT ![p] = gcb_make_wait(@, t, pri, porcb[p].atr.tpri)],
         UNCHANGED <<porcb, accept_queue>>
  PROVE  PorOK'
<1>. DEFINE r == cal_wait(t, p, ptn, buf)
<1>1. TcbOK(r) /\ r.state = "CAL" /\ r.wid = p /\ r.pri = rtcb[t].pri
  BY CalTcb DEF PorOK
<1>. HIDE DEF r
<1>2. rtcb'[t] = r /\ \A u \in Tasks : u # t => rtcb'[u] = rtcb[u]
  BY DEF PorOK, PorTypes, r
<1>3. PorTypes'
  BY <1>1, <1>2 DEF PorOK, PorTypes, PortOK
<1>4. pri' = pri
  BY <1>1, <1>2 DEF pri
<1>5. Callers(p)' = Callers(p) \cup {t} /\ t \notin Callers(p)
      /\ \A x \in Ports : x # p => Callers(x)' = Callers(x)
  BY <1>1, <1>2 DEF Callers
<1>6. \A x \in Ports : Acceptors(x)' = Acceptors(x)
  BY <1>1, <1>2 DEF Acceptors
<1>7. ASSUME NEW x \in Ports  PROVE Ordered(x)' = Ordered(x)
  BY DEF Ordered
<1>8. Holds(call_queue'[p], Callers(p)', pri', Ordered(p)')
  <2>1. Ordered(p) = porcb[p].atr.tpri /\ porcb[p].atr.tpri \in BOOLEAN
    BY DEF Ordered, PorOK, PorTypes, PortOK, ObjAtr
  <2>2. Holds(gcb_make_wait(call_queue[p], t, pri, porcb[p].atr.tpri), Callers(p) \cup {t}, pri, porcb[p].atr.tpri)
    <3>1. Holds(call_queue[p], Callers(p), pri, porcb[p].atr.tpri) /\ pri \in [Tasks -> Pri]
      BY <2>1, PriTyped DEF PorOK, PorQueues
    <3>. QED  BY <1>5, <2>1, <3>1, HoldsInsert
  <2>3. call_queue'[p] = gcb_make_wait(call_queue[p], t, pri, porcb[p].atr.tpri)
    BY DEF PorOK, PorTypes
  <2>. QED  BY <1>4, <1>5, <1>7, <2>1, <2>2, <2>3
<1>9. ASSUME NEW x \in Ports
      PROVE  /\ Holds(call_queue'[x], Callers(x)', pri', Ordered(x)')
             /\ Holds(accept_queue'[x], Acceptors(x)', pri', FALSE)
             /\ ~porcb'[x].exists => call_queue'[x] = <<>> /\ accept_queue'[x] = <<>>
  <2>1. x # p => call_queue'[x] = call_queue[x]
    BY DEF PorOK, PorTypes
  <2>. QED  BY <1>4, <1>5, <1>6, <1>7, <1>8, <2>1 DEF PorOK, PorQueues
<1>. QED  BY <1>3, <1>9 DEF PorOK, PorQueues

\* A caller that waits in no queue meets an acceptor.
LEMMA MeetStep ==
  ASSUME PorOK, NEW t \in Tasks, rtcb[t].state \notin {"CAL", "ACP"}, NEW p \in Ports, porcb[p].exists,
         NEW a, a \in Acceptors(p), NEW buf \in Nat, meet(t, a, p, buf), UNCHANGED <<porcb, call_queue>>
  PROVE  PorOK'
<1>. DEFINE new == IF port_diswai(p, t, "RDV") THEN Ready(rtcb[t]) ELSE rdv_wait(t, p, buf)
<1>1. /\ TcbOK(new) /\ new.state \in {"READY", "RDV"} /\ new.pri = rtcb[t].pri
  <2>1. /\ TcbOK(rdv_wait(t, p, buf)) /\ rdv_wait(t, p, buf).state = "RDV"
        /\ rdv_wait(t, p, buf).pri = rtcb[t].pri
    BY RdvTcb DEF PorOK
  <2>2. TcbOK(rtcb[t])
    BY DEF PorOK, PorTypes
  <2>3. TcbOK(Ready(rtcb[t])) /\ Ready(rtcb[t]).state = "READY" /\ Ready(rtcb[t]).pri = rtcb[t].pri
    BY <2>2, ReadyTcb
  <2>. QED  BY <2>1, <2>3
<1>2. a \in Tasks /\ rtcb[a].state = "ACP" /\ a # t /\ TcbOK(rtcb[a]) /\ DOMAIN rtcb = Tasks
  BY DEF Acceptors, PorOK, PorTypes
<1>. DEFINE old == Ready(rtcb[a])
<1>3. TcbOK(old) /\ old.state = "READY" /\ old.pri = rtcb[a].pri
  BY <1>2, ReadyTcb
<1>4. /\ rtcb' = [rtcb EXCEPT ![a] = old, ![t] = IF port_diswai(p, t, "RDV") THEN Ready(@) ELSE rdv_wait(t, p, buf)]
      /\ accept_queue' = [accept_queue EXCEPT ![p] = QueRemove(@, a)]
  BY <1>2 DEF meet
<1>5. /\ rtcb'[a] = old /\ rtcb'[t] = new /\ DOMAIN rtcb' = Tasks
      /\ \A u \in Tasks : u # t /\ u # a => rtcb'[u] = rtcb[u]
  BY <1>2, <1>4
<1>. HIDE DEF new, old
<1>6. PorTypes'
  BY <1>1, <1>3, <1>4, <1>5 DEF PorOK, PorTypes, PortOK
<1>7. pri' = pri
  BY <1>1, <1>3, <1>5 DEF pri
<1>8. \A x \in Ports : Callers(x)' = Callers(x)
  BY <1>1, <1>2, <1>3, <1>5 DEF Callers
<1>9. /\ Acceptors(p)' = Acceptors(p) \ {a}
      /\ \A x \in Ports : x # p => Acceptors(x)' = Acceptors(x)
  BY <1>1, <1>2, <1>3, <1>5 DEF Acceptors
<1>10. Holds(accept_queue'[p], Acceptors(p)', pri', FALSE)
  <2>1. Holds(accept_queue[p], Acceptors(p), pri, FALSE) /\ accept_queue'[p] = QueRemove(accept_queue[p], a)
    BY <1>4 DEF PorOK, PorQueues, PorTypes
  <2>2. Holds(QueRemove(accept_queue[p], a), Acceptors(p) \ {a}, pri, FALSE)
    BY <2>1, HoldsRemove
  <2>. QED  BY <1>7, <1>9, <2>1, <2>2
<1>11. ASSUME NEW x \in Ports
       PROVE  /\ Holds(call_queue'[x], Callers(x)', pri', Ordered(x)')
              /\ Holds(accept_queue'[x], Acceptors(x)', pri', FALSE)
              /\ ~porcb'[x].exists => call_queue'[x] = <<>> /\ accept_queue'[x] = <<>>
  <2>1. x # p => accept_queue'[x] = accept_queue[x]
    BY <1>4 DEF PorOK, PorTypes
  <2>2. Ordered(x)' = Ordered(x)
    BY DEF Ordered
  <2>. QED  BY <1>7, <1>8, <1>9, <1>10, <2>1, <2>2 DEF PorOK, PorQueues
<1>. QED  BY <1>6, <1>11 DEF PorOK, PorQueues

\* The wait of t, if it waits, ends; its priority may change with it.
LEMMA UnqueueStep ==
  ASSUME PorOK, NEW t \in Tasks, NEW new, TcbOK(new), new.state = "READY",
         rtcb' = [rtcb EXCEPT ![t] = new], unqueue(t), UNCHANGED porcb
  PROVE  PorOK'
<1>1. rtcb'[t] = new /\ DOMAIN rtcb' = Tasks /\ \A u \in Tasks : u # t => rtcb'[u] = rtcb[u]
  BY DEF PorOK, PorTypes
<1>2. PorTypes'
  BY <1>1 DEF PorOK, PorTypes, PortOK, unqueue
<1>3. \A u \in Tasks : u # t => pri'[u] = pri[u]
  BY <1>1 DEF pri
<1>4. ASSUME NEW x \in Ports
      PROVE  Callers(x)' = Callers(x) \ {t} /\ Acceptors(x)' = Acceptors(x) \ {t}
  BY <1>1 DEF Callers, Acceptors
<1>5. ASSUME NEW x \in Ports
      PROVE  /\ Holds(call_queue'[x], Callers(x)', pri', Ordered(x)')
             /\ Holds(accept_queue'[x], Acceptors(x)', pri', FALSE)
             /\ ~porcb'[x].exists => call_queue'[x] = <<>> /\ accept_queue'[x] = <<>>
  <2>1. /\ Holds(call_queue[x], Callers(x), pri, Ordered(x))
        /\ Holds(accept_queue[x], Acceptors(x), pri, FALSE)
        /\ ~porcb[x].exists => call_queue[x] = <<>> /\ accept_queue[x] = <<>>
    BY DEF PorOK, PorQueues
  <2>2. /\ call_queue'[x] = QueRemove(call_queue[x], t) /\ accept_queue'[x] = QueRemove(accept_queue[x], t)
    BY DEF unqueue
  <2>3. /\ Holds(QueRemove(call_queue[x], t), Callers(x) \ {t}, pri', Ordered(x))
        /\ Holds(QueRemove(accept_queue[x], t), Acceptors(x) \ {t}, pri', FALSE)
    BY <1>3, <2>1, HoldsRemove
  <2>4. QueRemove(<<>>, t) = <<>>
    BY DEF QueRemove
  <2>5. Ordered(x)' = Ordered(x)
    BY DEF Ordered
  <2>. QED  BY <1>4, <2>1, <2>2, <2>3, <2>4, <2>5
<1>. QED  BY <1>2, <1>5 DEF PorOK, PorQueues

\* A task that waits in no queue changes and still waits in none.
LEMMA ElsewhereStep ==
  ASSUME PorOK, NEW t \in Tasks, NEW new, TcbOK(new),
         rtcb[t].state \notin {"CAL", "ACP"}, new.state \notin {"CAL", "ACP"},
         rtcb' = [rtcb EXCEPT ![t] = new], UNCHANGED <<porcb, call_queue, accept_queue>>
  PROVE  PorOK'
<1>1. rtcb'[t] = new /\ DOMAIN rtcb' = Tasks /\ \A u \in Tasks : u # t => rtcb'[u] = rtcb[u]
  BY DEF PorOK, PorTypes
<1>2. PorTypes'
  BY <1>1 DEF PorOK, PorTypes, PortOK
<1>3. \A u \in Tasks : u # t => pri'[u] = pri[u]
  BY <1>1 DEF pri
<1>4. ASSUME NEW x \in Ports
      PROVE  /\ Callers(x)' = Callers(x) /\ Acceptors(x)' = Acceptors(x)
             /\ t \notin Callers(x) /\ t \notin Acceptors(x)
  BY <1>1 DEF Callers, Acceptors
<1>5. ASSUME NEW x \in Ports
      PROVE  /\ Holds(call_queue[x], Callers(x), pri', Ordered(x))
             /\ Holds(accept_queue[x], Acceptors(x), pri', FALSE)
  <2>1. Callers(x) \subseteq Tasks /\ Acceptors(x) \subseteq Tasks
    BY DEF Callers, Acceptors
  <2>2. \A u \in Callers(x) : pri'[u] = pri[u]
    BY <1>3, <1>4, <2>1
  <2>. QED  BY <2>2, HoldsSame DEF PorOK, PorQueues
<1>6. \A x \in Ports : Ordered(x)' = Ordered(x)
  BY DEF Ordered
<1>. QED  BY <1>2, <1>4, <1>5, <1>6 DEF PorOK, PorQueues

\* A task changes but neither its wait nor its priority.
LEMMA QuietTcbStep ==
  ASSUME PorOK, NEW t \in Tasks, NEW new, TcbOK(new), new.state = rtcb[t].state, new.wid = rtcb[t].wid,
         new.pri = rtcb[t].pri,
         rtcb' = [rtcb EXCEPT ![t] = new], UNCHANGED <<porcb, call_queue, accept_queue>>
  PROVE  PorOK'
<1>1. rtcb'[t] = new /\ DOMAIN rtcb' = Tasks /\ \A u \in Tasks : u # t => rtcb'[u] = rtcb[u]
  BY DEF PorOK, PorTypes
<1>2. PorTypes'
  BY <1>1 DEF PorOK, PorTypes, PortOK
<1>3. pri' = pri
  BY <1>1 DEF pri
<1>4. \A x \in Ports : Callers(x)' = Callers(x) /\ Acceptors(x)' = Acceptors(x) /\ Ordered(x)' = Ordered(x)
  BY <1>1 DEF Callers, Acceptors, Ordered
<1>. QED  BY <1>2, <1>3, <1>4 DEF PorOK, PorQueues
\* Nothing of it changes.
LEMMA PorSame ==
  ASSUME PorOK, UNCHANGED <<porcb, call_queue, accept_queue, rtcb>>
  PROVE  PorOK'
<1>1. PorTypes' /\ pri' = pri
  BY DEF PorOK, PorTypes, PortOK, pri
<1>2. \A x \in Ports : Callers(x)' = Callers(x) /\ Acceptors(x)' = Acceptors(x) /\ Ordered(x)' = Ordered(x)
  BY DEF Callers, Acceptors, Ordered
<1>. QED  BY <1>1, <1>2 DEF PorOK, PorQueues

-----------------------------------------------------------------------------
(* Every call of the ports keeps their queues.                             *)

\* A number tells the task that waits for the reply.
Numbered == DOMAIN holds = Tasks /\ \A t \in Tasks : holds[t] \subseteq Tasks \X (0..MaxOdd)

\* tk_cre_por
LEMMA CrePorStep ==
  ASSUME PorOK, NEW p \in Ports, NEW pk \in PortKinds[p], CrePor(p, pk)
  PROVE  PorOK'
<1>1. pk \in [atr : ObjAtr, maxrmsz : Nat]
  BY RendezvousAssumption
<1>2. /\ UNCHANGED <<call_queue, accept_queue, rtcb>> /\ ~porcb[p].exists
      /\ porcb' = [porcb EXCEPT ![p] = [exists |-> TRUE, atr |-> pk.atr, maxrmsz |-> pk.maxrmsz]]
  BY DEF CrePor
<1>. DEFINE new == [exists |-> TRUE, atr |-> pk.atr, maxrmsz |-> pk.maxrmsz]
<1>3. new.atr = pk.atr /\ new.maxrmsz = pk.maxrmsz
  OBVIOUS
<1>. HIDE DEF new
<1>4. porcb'[p] = new /\ DOMAIN porcb' = Ports /\ \A x \in Ports : x # p => porcb'[x] = porcb[x]
  BY <1>2 DEF PorOK, PorTypes, new
<1>5. PorTypes'
  BY <1>1, <1>2, <1>3, <1>4 DEF PorOK, PorTypes, PortOK
<1>6. pri' = pri /\ \A x \in Ports : Callers(x)' = Callers(x) /\ Acceptors(x)' = Acceptors(x)
  BY <1>2 DEF pri, Callers, Acceptors
<1>7. call_queue[p] = <<>> /\ accept_queue[p] = <<>>
  BY <1>2 DEF PorOK, PorQueues
<1>8. Holds(call_queue[p], Callers(p), pri, Ordered(p)')
  BY <1>7 DEF PorOK, PorQueues, Holds, Sorted
<1>9. ASSUME NEW x \in Ports
      PROVE  /\ Holds(call_queue[x], Callers(x), pri, Ordered(x)')
             /\ Holds(accept_queue[x], Acceptors(x), pri, FALSE)
             /\ ~porcb'[x].exists => call_queue[x] = <<>> /\ accept_queue[x] = <<>>
  <2>1. CASE x = p
    BY <1>7, <1>8, <2>1 DEF PorOK, PorQueues
  <2>2. CASE x # p
    <3>1. Ordered(x)' = Ordered(x)
      BY <1>4, <2>2 DEF Ordered
    <3>. QED  BY <1>4, <2>2, <3>1 DEF PorOK, PorQueues
  <2>. QED  BY <2>1, <2>2
<1>. QED  BY <1>2, <1>5, <1>6, <1>9 DEF PorOK, PorQueues

\* tk_del_por
LEMMA DelPorStep ==
  ASSUME PorOK, NEW p \in Ports, DelPor(p)
  PROVE  PorOK'
<1>1. /\ porcb' = [porcb EXCEPT ![p] = [exists |-> FALSE]]
      /\ call_queue' = [call_queue EXCEPT ![p] = <<>>] /\ accept_queue' = [accept_queue EXCEPT ![p] = <<>>]
      /\ rtcb' = [t \in Tasks |-> IF rtcb[t].state \in {"CAL", "ACP"} /\ rtcb[t].wid = p
                                    THEN Ready(rtcb[t]) ELSE rtcb[t]]
  BY DEF DelPor
<1>2. /\ porcb'[p].exists = FALSE /\ call_queue'[p] = <<>> /\ accept_queue'[p] = <<>>
      /\ \A x \in Ports : x # p => /\ porcb'[x] = porcb[x] /\ call_queue'[x] = call_queue[x]
                                   /\ accept_queue'[x] = accept_queue[x]
      /\ DOMAIN porcb' = Ports /\ DOMAIN call_queue' = Ports /\ DOMAIN accept_queue' = Ports
  BY <1>1 DEF PorOK, PorTypes
<1>3. ASSUME NEW t \in Tasks
      PROVE  /\ TcbOK(rtcb'[t]) /\ rtcb'[t].pri = rtcb[t].pri
             /\ \/ /\ rtcb[t].state \in {"CAL", "ACP"} /\ rtcb[t].wid = p
                   /\ rtcb'[t].state = "READY"
                \/ /\ ~(rtcb[t].state \in {"CAL", "ACP"} /\ rtcb[t].wid = p)
                   /\ rtcb'[t] = rtcb[t]
  <2>1. TcbOK(rtcb[t])
    BY DEF PorOK, PorTypes
  <2>2. TcbOK(Ready(rtcb[t])) /\ Ready(rtcb[t]).state = "READY" /\ Ready(rtcb[t]).pri = rtcb[t].pri
    BY <2>1, ReadyTcb
  <2>. HIDE DEF Ready
  <2>3. rtcb'[t] = IF rtcb[t].state \in {"CAL", "ACP"} /\ rtcb[t].wid = p THEN Ready(rtcb[t]) ELSE rtcb[t]
    BY <1>1
  <2>. QED  BY <2>1, <2>2, <2>3
<1>4. PorTypes'
  BY <1>1, <1>2, <1>3 DEF PorOK, PorTypes, PortOK
<1>5. pri' = pri
  BY <1>3 DEF pri
<1>6. Callers(p)' = {} /\ Acceptors(p)' = {}
      /\ \A x \in Ports : x # p => Callers(x)' = Callers(x) /\ Acceptors(x)' = Acceptors(x)
  BY <1>3 DEF Callers, Acceptors
<1>7. ASSUME NEW x \in Ports
      PROVE  /\ Holds(call_queue'[x], Callers(x)', pri', Ordered(x)')
             /\ Holds(accept_queue'[x], Acceptors(x)', pri', FALSE)
             /\ ~porcb'[x].exists => call_queue'[x] = <<>> /\ accept_queue'[x] = <<>>
  <2>1. CASE x = p
    <3>1. ASSUME NEW k, NEW o  PROVE Holds(<<>>, {}, k, o)
      BY DEF Holds, Sorted, IsInjective, ToSet
    <3>. QED  BY <1>2, <1>6, <2>1, <3>1
  <2>2. CASE x # p
    <3>1. Ordered(x)' = Ordered(x)
      BY <1>2, <2>2 DEF Ordered
    <3>. QED  BY <1>2, <1>5, <1>6, <2>2, <3>1 DEF PorOK, PorQueues
  <2>. QED  BY <2>1, <2>2
<1>. QED  BY <1>4, <1>7 DEF PorOK, PorQueues
\* tk_cal_por
LEMMA CalPorStep ==
  ASSUME PorOK, NEW t \in Tasks, NEW p \in Ports, NEW ptn, CalPor(t, p, ptn)
  PROVE  PorOK'
<1>. DEFINE a == first_match(accept_queue[p], ptn)
<1>1. /\ rtcb[t].state = "READY" /\ porcb[p].exists /\ porcb[p].maxrmsz \in Nat
      /\ Holds(accept_queue[p], Acceptors(p), pri, FALSE)
  BY DEF CalPor, PorOK, PorQueues, PorTypes, PortOK
<1>2. CASE a # NULL
  <2>1. meet(t, a, p, porcb[p].maxrmsz) /\ UNCHANGED <<porcb, call_queue>>
    BY <1>2 DEF CalPor
  <2>2. a \in Acceptors(p)
    BY <1>1, <1>2, MatchFound DEF Holds
  <2>. HIDE DEF a
  <2>. QED  BY <1>1, <2>1, <2>2, MeetStep
<1>3. CASE a = NULL
  <2>1. /\ rtcb' = [rtcb EXCEPT ![t] = cal_wait(t, p, ptn, porcb[p].maxrmsz)]
        /\ call_queue' = [call_queue EXCEPT ![p] = gcb_make_wait(@, t, pri, porcb[p].atr.tpri)]
        /\ UNCHANGED <<porcb, accept_queue>>
    BY <1>3 DEF CalPor
  <2>. QED  BY <1>1, <2>1, CalWaitStep
<1>. QED  BY <1>2, <1>3

\* A caller leaves the call queue, and waits for the end of its rendezvous or not at all.
LEMMA AcceptStep ==
  ASSUME PorOK, NEW p \in Ports, NEW c, c \in Callers(p), NEW new, TcbOK(new),
         new.state \in {"READY", "RDV"}, new.pri = rtcb[c].pri,
         rtcb' = [rtcb EXCEPT ![c] = new],
         call_queue' = [call_queue EXCEPT ![p] = QueRemove(@, c)],
         UNCHANGED <<porcb, accept_queue>>
  PROVE  PorOK'
<1>1. c \in Tasks /\ rtcb[c].state = "CAL" /\ rtcb[c].wid = p
  BY DEF Callers
<1>2. rtcb'[c] = new /\ DOMAIN rtcb' = Tasks /\ \A u \in Tasks : u # c => rtcb'[u] = rtcb[u]
  BY <1>1 DEF PorOK, PorTypes
<1>3. PorTypes'
  BY <1>2 DEF PorOK, PorTypes, PortOK
<1>4. pri' = pri
  BY <1>2 DEF pri
<1>5. /\ Callers(p)' = Callers(p) \ {c}
      /\ \A x \in Ports : x # p => Callers(x)' = Callers(x)
  BY <1>1, <1>2 DEF Callers
<1>6. \A x \in Ports : Acceptors(x)' = Acceptors(x) /\ Ordered(x)' = Ordered(x)
  BY <1>1, <1>2 DEF Acceptors, Ordered
<1>7. Holds(call_queue'[p], Callers(p)', pri', Ordered(p))
  <2>1. Holds(call_queue[p], Callers(p), pri, Ordered(p)) /\ call_queue'[p] = QueRemove(call_queue[p], c)
    BY DEF PorOK, PorQueues, PorTypes
  <2>2. Holds(QueRemove(call_queue[p], c), Callers(p) \ {c}, pri, Ordered(p))
    BY <2>1, HoldsRemove
  <2>. QED  BY <1>4, <1>5, <2>1, <2>2
<1>8. ASSUME NEW x \in Ports
      PROVE  /\ Holds(call_queue'[x], Callers(x)', pri', Ordered(x)')
             /\ Holds(accept_queue'[x], Acceptors(x)', pri', FALSE)
             /\ ~porcb'[x].exists => call_queue'[x] = <<>> /\ accept_queue'[x] = <<>>
  <2>1. x # p => call_queue'[x] = call_queue[x]
    BY DEF PorOK, PorTypes
  <2>2. x = p /\ ~porcb[x].exists => call_queue'[x] = <<>>
    <3>1. call_queue[p] = <<>> => QueRemove(call_queue[p], c) = <<>>
      BY DEF QueRemove
    <3>. QED  BY <3>1 DEF PorOK, PorQueues, PorTypes
  <2>. QED  BY <1>4, <1>5, <1>6, <1>7, <2>1, <2>2 DEF PorOK, PorQueues
<1>. QED  BY <1>3, <1>8 DEF PorOK, PorQueues

\* A task that waits in no queue waits for a caller.
LEMMA AcpWaitStep ==
  ASSUME PorOK, NEW t \in Tasks, rtcb[t].state \notin {"CAL", "ACP"}, NEW p \in Ports, porcb[p].exists,
         NEW new, TcbOK(new), new.state = "ACP", new.wid = p, new.pri = rtcb[t].pri,
         rtcb' = [rtcb EXCEPT ![t] = new],
         accept_queue' = [accept_queue EXCEPT ![p] = QueInsert(@, t)],
         UNCHANGED <<porcb, call_queue>>
  PROVE  PorOK'
<1>1. rtcb'[t] = new /\ DOMAIN rtcb' = Tasks /\ \A u \in Tasks : u # t => rtcb'[u] = rtcb[u]
  BY DEF PorOK, PorTypes
<1>2. PorTypes'
  BY <1>1 DEF PorOK, PorTypes, PortOK
<1>3. pri' = pri
  BY <1>1 DEF pri
<1>4. /\ Acceptors(p)' = Acceptors(p) \cup {t} /\ t \notin Acceptors(p)
      /\ \A x \in Ports : x # p => Acceptors(x)' = Acceptors(x)
  BY <1>1 DEF Acceptors
<1>5. \A x \in Ports : Callers(x)' = Callers(x) /\ Ordered(x)' = Ordered(x)
  BY <1>1 DEF Callers, Ordered
<1>6. Holds(accept_queue'[p], Acceptors(p)', pri', FALSE)
  <2>1. Holds(accept_queue[p], Acceptors(p), pri, FALSE) /\ pri \in [Tasks -> Pri]
    BY PriTyped DEF PorOK, PorQueues
  <2>2. Holds(gcb_make_wait(accept_queue[p], t, pri, FALSE), Acceptors(p) \cup {t}, pri, FALSE)
    BY <1>4, <2>1, HoldsInsert
  <2>3. accept_queue'[p] = gcb_make_wait(accept_queue[p], t, pri, FALSE)
    BY DEF PorOK, PorTypes, gcb_make_wait
  <2>. QED  BY <1>3, <1>4, <2>2, <2>3
<1>7. ASSUME NEW x \in Ports
      PROVE  /\ Holds(call_queue'[x], Callers(x)', pri', Ordered(x)')
             /\ Holds(accept_queue'[x], Acceptors(x)', pri', FALSE)
             /\ ~porcb'[x].exists => call_queue'[x] = <<>> /\ accept_queue'[x] = <<>>
  <2>1. x # p => accept_queue'[x] = accept_queue[x]
    BY DEF PorOK, PorTypes
  <2>. QED  BY <1>3, <1>4, <1>5, <1>6, <2>1 DEF PorOK, PorQueues
<1>. QED  BY <1>2, <1>7 DEF PorOK, PorQueues

\* tk_acp_por
LEMMA AcpPorStep ==
  ASSUME PorOK, NEW t \in Tasks, NEW p \in Ports, NEW ptn, AcpPor(t, p, ptn)
  PROVE  PorOK'
<1>. DEFINE c == first_match(call_queue[p], ptn)
<1>1. /\ rtcb[t].state = "READY" /\ porcb[p].exists /\ TcbOK(rtcb[t])
      /\ Holds(call_queue[p], Callers(p), pri, Ordered(p))
  BY DEF AcpPor, PorOK, PorQueues, PorTypes
<1>2. CASE c # NULL
  <2>. DEFINE new == IF port_diswai(p, c, "RDV") THEN Ready(rtcb[c]) ELSE rdv_wait(c, p, rtcb[c].buf)
  <2>1. c \in Callers(p) /\ c \in Tasks
    BY <1>1, <1>2, MatchFound DEF Holds
  <2>2. /\ rtcb' = [rtcb EXCEPT ![c] = IF port_diswai(p, c, "RDV") THEN Ready(@) ELSE rdv_wait(c, p, rtcb[c].buf)]
        /\ call_queue' = [call_queue EXCEPT ![p] = QueRemove(@, c)] /\ UNCHANGED <<porcb, accept_queue>>
    BY <1>2 DEF AcpPor
  <2>. HIDE DEF c
  <2>3. DOMAIN rtcb = Tasks /\ TcbOK(rtcb[c]) /\ rtcb[c].buf \in Nat
    BY <2>1 DEF PorOK, PorTypes, TcbOK
  <2>4. rtcb' = [rtcb EXCEPT ![c] = new]
    BY <2>1, <2>2, <2>3
  <2>5. TcbOK(new) /\ new.state \in {"READY", "RDV"} /\ new.pri = rtcb[c].pri
    <3>1. /\ TcbOK(rdv_wait(c, p, rtcb[c].buf)) /\ rdv_wait(c, p, rtcb[c].buf).state = "RDV"
          /\ rdv_wait(c, p, rtcb[c].buf).pri = rtcb[c].pri
      BY <1>1, <2>1, <2>3, RdvTcb DEF PorOK
    <3>2. TcbOK(Ready(rtcb[c])) /\ Ready(rtcb[c]).state = "READY" /\ Ready(rtcb[c]).pri = rtcb[c].pri
      BY <2>3, ReadyTcb
    <3>. QED  BY <3>1, <3>2
  <2>. HIDE DEF new
  <2>. QED  BY <2>1, <2>2, <2>4, <2>5, AcceptStep
<1>3. CASE c = NULL
  <2>. DEFINE new == [rtcb[t] EXCEPT !.state = "ACP", !.wid = p, !.ptn = ptn, !.nodiswai = porcb[p].atr.nodiswai]
  <2>1. /\ rtcb' = [rtcb EXCEPT ![t].state = "ACP", ![t].wid = p, ![t].ptn = ptn,
                                ![t].nodiswai = porcb[p].atr.nodiswai]
        /\ accept_queue' = [accept_queue EXCEPT ![p] = QueInsert(@, t)] /\ UNCHANGED <<porcb, call_queue>>
    BY <1>3 DEF AcpPor
  <2>2. TcbOK(new) /\ new.state = "ACP" /\ new.wid = p /\ new.pri = rtcb[t].pri
    BY <1>1 DEF TcbOK, TcbFields
  <2>3. rtcb' = [rtcb EXCEPT ![t] = new]
    BY <2>1 DEF PorOK, PorTypes
  <2>. HIDE DEF new
  <2>. QED  BY <1>1, <2>1, <2>2, <2>3, AcpWaitStep
<1>. QED  BY <1>2, <1>3

\* tk_fwd_por
LEMMA FwdPorStep ==
  ASSUME PorOK, Numbered, NEW t \in Tasks, NEW p \in Ports, NEW ptn, NEW r \in holds[t], FwdPor(t, p, ptn, r)
  PROVE  PorOK'
<1>. DEFINE c == r[1]
            a == first_match(accept_queue[p], ptn)
<1>1. c \in Tasks
  BY DEF Numbered
<1>2. /\ rtcb[c].state = "RDV" /\ porcb[p].exists /\ TcbOK(rtcb[c]) /\ rtcb[c].buf \in Nat
      /\ Holds(accept_queue[p], Acceptors(p), pri, FALSE) /\ UNCHANGED porcb
  BY <1>1 DEF FwdPor, may_forward, good, PorOK, PorTypes, PorQueues, TcbOK
<1>3. CASE port_diswai(p, c, "CAL")
  <2>1. rtcb' = [rtcb EXCEPT ![c] = Ready(@)] /\ UNCHANGED <<call_queue, accept_queue>>
    BY <1>3 DEF FwdPor
  <2>. HIDE DEF c
  <2>2. rtcb' = [rtcb EXCEPT ![c] = Ready(rtcb[c])]
    BY <1>1, <2>1 DEF PorOK, PorTypes
  <2>3. TcbOK(Ready(rtcb[c])) /\ Ready(rtcb[c]).state = "READY"
    BY <1>2, ReadyTcb
  <2>. QED  BY <1>1, <1>2, <2>1, <2>2, <2>3, ElsewhereStep
<1>4. CASE ~port_diswai(p, c, "CAL") /\ a # NULL
  <2>1. meet(c, a, p, rtcb[c].buf) /\ UNCHANGED call_queue
    BY <1>4 DEF FwdPor
  <2>2. a \in Acceptors(p)
    BY <1>2, <1>4, MatchFound DEF Holds
  <2>. HIDE DEF a, c
  <2>. QED  BY <1>1, <1>2, <2>1, <2>2, MeetStep
<1>5. CASE ~port_diswai(p, c, "CAL") /\ a = NULL
  <2>1. /\ rtcb' = [rtcb EXCEPT ![c] = cal_wait(c, p, ptn, rtcb[c].buf)]
        /\ call_queue' = [call_queue EXCEPT ![p] = gcb_make_wait(@, c, pri, porcb[p].atr.tpri)]
        /\ UNCHANGED accept_queue
    BY <1>5 DEF FwdPor
  <2>. HIDE DEF a, c
  <2>. QED  BY <1>1, <1>2, <2>1, CalWaitStep
<1>. QED  BY <1>3, <1>4, <1>5

\* tk_rpl_rdv
LEMMA RplRdvStep ==
  ASSUME PorOK, Numbered, NEW t \in Tasks, NEW r \in holds[t], RplRdv(t, r)
  PROVE  PorOK'
<1>. DEFINE c == r[1]
<1>1. c \in Tasks /\ TcbOK(rtcb[c])
  BY DEF Numbered, PorOK, PorTypes
<1>2. UNCHANGED <<porcb, call_queue, accept_queue>>
  BY DEF RplRdv
<1>3. CASE good(r)
  <2>1. rtcb[c].state = "RDV" /\ rtcb' = [rtcb EXCEPT ![c] = Ready(@)]
    BY <1>3 DEF RplRdv, good
  <2>. HIDE DEF c
  <2>2. rtcb' = [rtcb EXCEPT ![c] = Ready(rtcb[c])]
    BY <1>1, <2>1 DEF PorOK, PorTypes
  <2>3. TcbOK(Ready(rtcb[c])) /\ Ready(rtcb[c]).state = "READY"
    BY <1>1, ReadyTcb
  <2>. QED  BY <1>1, <1>2, <2>1, <2>2, <2>3, ElsewhereStep
<1>4. CASE ~good(r)
  <2>1. UNCHANGED rtcb
    BY <1>4 DEF RplRdv
  <2>. QED  BY <1>2, <2>1, PorSame
<1>. QED  BY <1>3, <1>4

\* tk_rel_wai
LEMMA RelWaiStep ==
  ASSUME PorOK, NEW t \in Tasks, RelWai(t)
  PROVE  PorOK'
<1>1. TcbOK(rtcb[t]) /\ rtcb' = [rtcb EXCEPT ![t] = Ready(rtcb[t])]
  BY DEF PorOK, PorTypes, RelWai
<1>2. TcbOK(Ready(rtcb[t])) /\ Ready(rtcb[t]).state = "READY"
  BY <1>1, ReadyTcb
<1>. QED  BY <1>1, <1>2, UnqueueStep DEF RelWai

\* tk_ter_tsk and tk_sta_tsk
LEMMA RestartStep ==
  ASSUME PorOK, NEW t \in Tasks, RestartTsk(t)
  PROVE  PorOK'
<1>. DEFINE new == [Ready(rtcb[t]) EXCEPT !.mask = {}, !.pri = INI_PRI]
<1>1. TcbOK(rtcb[t]) /\ rtcb' = [rtcb EXCEPT ![t] = new]
  BY DEF PorOK, PorTypes, RestartTsk
<1>2. TcbOK(new) /\ new.state = "READY"
  BY <1>1, ObjectAssumption DEF Ready, TcbOK, TcbFields
<1>. HIDE DEF new
<1>. QED  BY <1>1, <1>2, UnqueueStep DEF RestartTsk

\* tk_dis_wai
LEMMA DisWaiStep ==
  ASSUME PorOK, NEW t \in Tasks, NEW wait \in Waits, DisWaiRdv(t, wait)
  PROVE  PorOK'
<1>1. TcbOK(rtcb[t]) /\ UNCHANGED porcb
  BY DEF PorOK, PorTypes, DisWaiRdv
<1>2. CASE rtcb[t].state = wait /\ ~rtcb[t].nodiswai
  <2>. DEFINE new == [Ready(rtcb[t]) EXCEPT !.mask = {wait}]
  <2>1. rtcb' = [rtcb EXCEPT ![t] = new] /\ unqueue(t)
    BY <1>2 DEF PorOK, PorTypes, DisWaiRdv
  <2>2. TcbOK(new) /\ new.state = "READY"
    BY <1>1 DEF Ready, TcbOK, TcbFields
  <2>. HIDE DEF new
  <2>. QED  BY <1>1, <2>1, <2>2, UnqueueStep
<1>3. CASE ~(rtcb[t].state = wait /\ ~rtcb[t].nodiswai)
  <2>. DEFINE new == [rtcb[t] EXCEPT !.mask = {wait}]
  <2>1. rtcb' = [rtcb EXCEPT ![t] = new] /\ UNCHANGED <<call_queue, accept_queue>>
    BY <1>3 DEF PorOK, PorTypes, DisWaiRdv
  <2>2. TcbOK(new) /\ new.state = rtcb[t].state /\ new.wid = rtcb[t].wid /\ new.pri = rtcb[t].pri
    BY <1>1 DEF TcbOK, TcbFields
  <2>. HIDE DEF new
  <2>. QED  BY <1>1, <2>1, <2>2, QuietTcbStep
<1>. QED  BY <1>2, <1>3

\* tk_ena_wai
LEMMA EnaWaiStep ==
  ASSUME PorOK, NEW t \in Tasks, EnaWaiRdv(t)
  PROVE  PorOK'
<1>. DEFINE new == [rtcb[t] EXCEPT !.mask = {}]
<1>1. TcbOK(rtcb[t]) /\ UNCHANGED <<porcb, call_queue, accept_queue>>
  BY DEF PorOK, PorTypes, EnaWaiRdv
<1>2. rtcb' = [rtcb EXCEPT ![t] = new]
  BY DEF PorOK, PorTypes, EnaWaiRdv
<1>3. TcbOK(new) /\ new.state = rtcb[t].state /\ new.wid = rtcb[t].wid /\ new.pri = rtcb[t].pri
  BY <1>1 DEF TcbOK, TcbFields
<1>. HIDE DEF new
<1>. QED  BY <1>1, <1>2, <1>3, QuietTcbStep

\* tk_chg_pri
LEMMA ChgPriStep ==
  ASSUME PorOK, NEW t \in Tasks, NEW p \in Pri, ChgPriRdv(t, p)
  PROVE  PorOK'
<1>. DEFINE now == [pri EXCEPT ![t] = p]
            w == rtcb[t].wid
<1>1. TcbOK(rtcb[t]) /\ UNCHANGED <<porcb, accept_queue>>
  BY DEF PorOK, PorTypes, ChgPriRdv
<1>2. /\ DOMAIN rtcb' = Tasks /\ \A u \in Tasks : u # t => rtcb'[u] = rtcb[u]
      /\ rtcb'[t] = [rtcb[t] EXCEPT !.pri = p]
  BY DEF PorOK, PorTypes, ChgPriRdv
<1>3. TcbOK(rtcb'[t]) /\ rtcb'[t].state = rtcb[t].state /\ rtcb'[t].wid = rtcb[t].wid /\ rtcb'[t].pri = p
  BY <1>1, <1>2 DEF TcbOK, TcbFields
<1>4. call_queue' = IF rtcb[t].state = "CAL" /\ porcb[w].atr.tpri
                      THEN [call_queue EXCEPT ![w] = gcb_change_priority(@, t, now)] ELSE call_queue
  BY DEF ChgPriRdv
<1>5. PorTypes'
  BY <1>1, <1>2, <1>3, <1>4 DEF PorOK, PorTypes, PortOK
<1>6. pri' = now /\ now \in [Tasks -> Pri] /\ \A u \in Tasks : u # t => now[u] = pri[u]
  <2>1. pri \in [Tasks -> Pri] /\ \A u \in Tasks : pri[u] = rtcb[u].pri
    BY PriTyped DEF PorOK
  <2>2. pri' \in [Tasks -> Pri] /\ \A u \in Tasks : pri'[u] = rtcb'[u].pri
    BY <1>5 DEF PorTypes, TcbOK, pri
  <2>3. now[t] = p /\ \A u \in Tasks : u # t => now[u] = pri[u]
    BY <2>1
  <2>4. now \in [Tasks -> Pri]
    BY <2>1
  <2>5. \A u \in Tasks : u # t => rtcb'[u] = rtcb[u]
    BY <1>2
  <2>. HIDE DEF now
  <2>6. \A u \in Tasks : pri'[u] = now[u]
    BY <1>3, <2>1, <2>2, <2>3, <2>5
  <2>. QED  BY <2>2, <2>3, <2>4, <2>6
<1>. HIDE DEF now
<1>7. \A x \in Ports : Callers(x)' = Callers(x) /\ Acceptors(x)' = Acceptors(x) /\ Ordered(x)' = Ordered(x)
  BY <1>1, <1>2, <1>3 DEF Callers, Acceptors, Ordered
<1>8. ASSUME NEW x \in Ports
      PROVE  /\ Holds(call_queue'[x], Callers(x), now, Ordered(x))
             /\ Holds(accept_queue[x], Acceptors(x), now, FALSE)
             /\ ~porcb[x].exists => call_queue'[x] = <<>> /\ accept_queue[x] = <<>>
  <2>1. /\ Holds(call_queue[x], Callers(x), pri, Ordered(x))
        /\ Holds(accept_queue[x], Acceptors(x), pri, FALSE)
        /\ ~porcb[x].exists => call_queue[x] = <<>> /\ accept_queue[x] = <<>>
    BY DEF PorOK, PorQueues
  <2>2. Holds(accept_queue[x], Acceptors(x), now, FALSE)
    BY <2>1, HoldsSame
  <2>3. CASE rtcb[t].state = "CAL" /\ porcb[w].atr.tpri /\ x = w
    <3>1. t \in Callers(x) /\ call_queue'[x] = gcb_change_priority(call_queue[x], t, now)
      BY <1>4, <2>3 DEF Callers, PorOK, PorTypes
    <3>2. porcb[x].exists
      <4>1. t \in ToSet(call_queue[x])
        BY <2>1, <3>1 DEF Holds
      <4>2. call_queue[x] # <<>>
        BY <4>1 DEF ToSet
      <4>. QED  BY <2>1, <4>2
    <3>3. Ordered(x) = TRUE
      BY <2>3, <3>2 DEF Ordered, PorOK, PorTypes, PortOK, ObjAtr
    <3>4. Holds(gcb_change_priority(call_queue[x], t, now), Callers(x), now, TRUE)
      BY <1>6, <2>1, <3>1, <3>3, HoldsMove
    <3>. QED  BY <2>1, <2>2, <3>1, <3>2, <3>3, <3>4
  <2>4. CASE ~(rtcb[t].state = "CAL" /\ porcb[w].atr.tpri /\ x = w)
    <3>1. call_queue'[x] = call_queue[x]
      BY <1>4, <2>4 DEF PorOK, PorTypes
    <3>2. Ordered(x) => \A u \in Callers(x) : now[u] = pri[u]
      BY <1>6, <2>4 DEF Ordered, Callers
    <3>3. Holds(call_queue[x], Callers(x), now, Ordered(x))
      BY <2>1, <3>2, HoldsSame
    <3>. QED  BY <2>1, <2>2, <3>1, <3>3
  <2>. QED  BY <2>3, <2>4
<1>. QED  BY <1>1, <1>5, <1>6, <1>7, <1>8 DEF PorOK, PorQueues
\* The ports at the beginning.
LEMMA PorInitial ==
  ASSUME PorInit
  PROVE  PorOK
<1>1. ASSUME NEW t \in Tasks  PROVE TcbOK(rtcb[t]) /\ rtcb[t].state = "READY"
  BY ObjectAssumption DEF PorInit, TcbOK, TcbFields
<1>2. /\ DOMAIN rtcb = Tasks /\ DOMAIN porcb = Ports /\ DOMAIN call_queue = Ports /\ DOMAIN accept_queue = Ports
      /\ \A p \in Ports : ~porcb[p].exists /\ call_queue[p] = <<>> /\ accept_queue[p] = <<>>
  BY DEF PorInit
<1>3. \A p \in Ports : Callers(p) = {} /\ Acceptors(p) = {}
  BY <1>1 DEF Callers, Acceptors
<1>4. ASSUME NEW k, NEW o  PROVE Holds(<<>>, {}, k, o)
  BY DEF Holds, Sorted, IsInjective, ToSet
<1>. QED  BY <1>1, <1>2, <1>3, <1>4 DEF PorOK, PorTypes, PorQueues, PortOK

\* Any call.
LEMMA PorStep ==
  ASSUME PorOK, Numbered, PorNext
  PROVE  PorOK'
<1>1. ASSUME NEW p \in Ports, DelPor(p)  PROVE PorOK'
  BY <1>1, DelPorStep
<1>2. ASSUME NEW p \in Ports, NEW pk \in PortKinds[p], CrePor(p, pk)  PROVE PorOK'
  BY <1>2, CrePorStep
<1>3. ASSUME NEW p \in Ports, NEW t \in Tasks, NEW ptn \in AcpPatterns, AcpPor(t, p, ptn)  PROVE PorOK'
  BY <1>3, AcpPorStep
<1>4. ASSUME NEW p \in Ports, NEW t \in Tasks, NEW ptn \in CalPatterns, CalPor(t, p, ptn)  PROVE PorOK'
  BY <1>4, CalPorStep
<1>5. ASSUME NEW p \in Ports, NEW t \in Tasks, NEW ptn \in CalPatterns, NEW r \in holds[t], FwdPor(t, p, ptn, r)
      PROVE PorOK'
  BY <1>5, FwdPorStep
<1>6. ASSUME NEW t \in Tasks, NEW r \in holds[t], RplRdv(t, r)  PROVE PorOK'
  BY <1>6, RplRdvStep
<1>7. ASSUME NEW t \in Tasks, NEW wait \in Waits, DisWaiRdv(t, wait)  PROVE PorOK'
  BY <1>7, DisWaiStep
<1>8. ASSUME NEW t \in Tasks, NEW p \in Pri, ChgPriRdv(t, p)  PROVE PorOK'
  BY <1>8, ChgPriStep
<1>9. ASSUME NEW t \in Tasks, RelWai(t)  PROVE PorOK'
  BY <1>9, RelWaiStep
<1>10. ASSUME NEW t \in Tasks, EnaWaiRdv(t)  PROVE PorOK'
  BY <1>10, EnaWaiStep
<1>11. ASSUME NEW t \in Tasks, RestartTsk(t)  PROVE PorOK'
  BY <1>11, RestartStep
<1>. QED  BY <1>1, <1>2, <1>3, <1>4, <1>5, <1>6, <1>7, <1>8, <1>9, <1>10, <1>11 DEF PorNext

-----------------------------------------------------------------------------
(* One server for a caller, and a reply that fits.                         *)

\* What is true of every caller: the number under which it waits is its own, one
\* task at most holds it, and its buffer is long enough for the reply.
Served(c) ==
    /\ rtcb[c].state = "RDV" =>
         /\ rtcb[c].rdvno[1] = c /\ rtcb[c].maxrmsz <= rtcb[c].buf
         /\ \A t, u \in Tasks : rtcb[c].rdvno \in holds[t] \cap holds[u] => t = u
    /\ rtcb[c].state = "CAL" => porcb[rtcb[c].wid].maxrmsz <= rtcb[c].buf

RdvOK == Numbered /\ \A c \in Tasks : Served(c)

\* It is what the model asks for.
LEMMA ServedExact ==
  ASSUME RdvOK
  PROVE  RendezvousExact
BY DEF RdvOK, Served, RendezvousExact, OneServer, ReplyFits

\* While there is room, a new number is held by nobody.
LEMMA FreshNumber ==
  ASSUME Numbered, room, NEW t \in Tasks
  PROVE  gen_rdvno(t) \in {t} \X (0..MaxOdd) /\ \A u \in Tasks : gen_rdvno(t) \notin holds[u]
<1>. DEFINE D == {n \in 0..MaxOdd : \A u \in Tasks : <<t, n>> \notin holds[u]}
<1>1. MaxOdd \in Nat /\ IsFiniteSet(Tasks)
  BY RendezvousAssumption, ObjectAssumption
<1>2. D # {}
  <2>1. SUFFICES ASSUME D = {}  PROVE FALSE
    OBVIOUS
  <2>2. {t} \X (0..MaxOdd) \subseteq held_by_any
    <3>1. \A n \in 0..MaxOdd : \E u \in Tasks : <<t, n>> \in holds[u]
      BY <2>1
    <3>. QED  BY <3>1 DEF held_by_any
  <2>3. held_by_any \subseteq Tasks \X (0..MaxOdd)
    BY DEF held_by_any, Numbered
  <2>4. IsFiniteSet(0..MaxOdd) /\ Cardinality(0..MaxOdd) = MaxOdd + 1
    BY <1>1, FS_Interval
  <2>5. IsFiniteSet(held_by_any)
    <3>1. IsFiniteSet(Tasks \X (0..MaxOdd))
      BY <1>1, <2>4, FS_Product
    <3>. QED  BY <2>3, <3>1, FS_Subset
  <2>6. Cardinality({t} \X (0..MaxOdd)) = MaxOdd + 1
    <3>1. IsFiniteSet({t}) /\ Cardinality({t}) = 1
      BY FS_Singleton
    <3>2. Cardinality({t} \X (0..MaxOdd)) = 1 * (MaxOdd + 1)
      BY <2>4, <3>1, FS_Product
    <3>. QED  BY <1>1, <3>2
  <2>7. Cardinality({t} \X (0..MaxOdd)) <= Cardinality(held_by_any) /\ Cardinality(held_by_any) \in Nat
    BY <2>2, <2>5, FS_Subset, FS_CardinalityType
  <2>8. Cardinality(masked) \in Nat /\ Cardinality(moved) \in Nat
    <3>1. IsFiniteSet(masked) /\ IsFiniteSet(moved)
      BY <1>1, FS_Subset DEF masked, moved
    <3>. QED  BY <3>1, FS_CardinalityType
  <2>. QED  BY <1>1, <2>6, <2>7, <2>8 DEF room
<1>3. Min(D) \in D
  <2>1. D \in SUBSET Nat
    BY <1>1
  <2>. HIDE DEF D
  <2>. QED  BY <1>2, <2>1, MinPosition
<1>4. gen_rdvno(t) = <<t, Min(D)>>
  BY DEF gen_rdvno
<1>. HIDE DEF D
<1>5. \A m : m \in D => m \in 0..MaxOdd /\ \A u \in Tasks : <<t, m>> \notin holds[u]
  BY DEF D
<1>. QED  BY <1>3, <1>4, <1>5

\* A caller whose wait stays as it is, while nobody gets a number of its own.
LEMMA ServedKept ==
  ASSUME NEW c \in Tasks, Served(c),
         rtcb'[c].state = rtcb[c].state, rtcb'[c].rdvno = rtcb[c].rdvno, rtcb'[c].wid = rtcb[c].wid,
         rtcb'[c].maxrmsz = rtcb[c].maxrmsz, rtcb'[c].buf = rtcb[c].buf,
         rtcb[c].state = "CAL" => porcb'[rtcb[c].wid].maxrmsz = porcb[rtcb[c].wid].maxrmsz,
         \A u \in Tasks : \A r \in holds'[u] : r \in holds[u] \/ r[1] # c
  PROVE  Served(c)'
<1>1. rtcb[c].state = "RDV" => \A u \in Tasks : rtcb[c].rdvno \in holds'[u] => rtcb[c].rdvno \in holds[u]
  BY DEF Served
<1>. QED  BY <1>1 DEF Served

\* A task that is no caller any more.
LEMMA ServedGone ==
  ASSUME NEW c \in Tasks, rtcb'[c].state \notin {"RDV", "CAL"}
  PROVE  Served(c)'
BY DEF Served

\* A caller that waits for the end of its rendezvous with a.
LEMMA ServedMet ==
  ASSUME PorTypes, Numbered, room, NEW c \in Tasks, NEW p \in Ports, porcb[p].exists, NEW buf \in Nat,
         porcb[p].maxrmsz <= buf, rtcb'[c] = rdv_wait(c, p, buf), NEW a \in Tasks,
         \A u \in Tasks : u # a => holds'[u] \subseteq holds[u]
  PROVE  Served(c)'
<1>1. /\ rtcb'[c].state = "RDV" /\ rtcb'[c].rdvno = gen_rdvno(c) /\ rtcb'[c].maxrmsz = porcb[p].maxrmsz
      /\ rtcb'[c].buf = buf
  BY RdvTcb
<1>2. gen_rdvno(c)[1] = c /\ \A u \in Tasks : gen_rdvno(c) \notin holds[u]
  BY FreshNumber
<1>3. \A u \in Tasks : gen_rdvno(c) \in holds'[u] => u = a
  BY <1>2
<1>. QED  BY <1>1, <1>2, <1>3 DEF Served

\* A caller that waits at another port.
LEMMA ServedCalled ==
  ASSUME PorTypes, NEW c \in Tasks, NEW p \in Ports, NEW ptn, NEW buf \in Nat,
         porcb[p].maxrmsz <= buf, rtcb'[c] = cal_wait(c, p, ptn, buf), UNCHANGED porcb
  PROVE  Served(c)'
<1>1. rtcb'[c].state = "CAL" /\ rtcb'[c].wid = p /\ rtcb'[c].buf = buf
  BY CalTcb
<1>. QED  BY <1>1 DEF Served
\* It is enough to look at one task when the others stay, or wait no longer.
LEMMA ServedStep ==
  ASSUME RdvOK, NEW t \in Tasks, Served(t)', UNCHANGED porcb,
         DOMAIN holds' = Tasks,
         \A u \in Tasks : \A r \in holds'[u] : r \in holds[u] \/ r \in {t} \X (0..MaxOdd),
         \A c \in Tasks : c # t => rtcb'[c] = rtcb[c] \/ rtcb'[c].state \notin {"RDV", "CAL"}
  PROVE  RdvOK'
<1>1. Numbered'
  BY DEF RdvOK, Numbered
<1>2. ASSUME NEW c \in Tasks, c # t  PROVE Served(c)'
  <2>1. \A u \in Tasks : \A r \in holds'[u] : r \in holds[u] \/ r[1] # c
    BY <1>2
  <2>2. CASE rtcb'[c] = rtcb[c]
    BY <2>1, <2>2, ServedKept DEF RdvOK
  <2>3. CASE rtcb'[c].state \notin {"RDV", "CAL"}
    BY <2>3, ServedGone
  <2>. QED  BY <1>2, <2>2, <2>3
<1>. QED  BY <1>1, <1>2 DEF RdvOK

\* A caller that may wait for the end of its rendezvous does, unless that wait is disabled.
LEMMA ServedNow ==
  ASSUME PorOK, Numbered, room, NEW c \in Tasks, NEW p \in Ports, porcb[p].exists, NEW buf \in Nat,
         porcb[p].maxrmsz <= buf, NEW a \in Tasks,
         rtcb'[c] = IF port_diswai(p, c, "RDV") THEN Ready(rtcb[c]) ELSE rdv_wait(c, p, buf),
         \A u \in Tasks : u # a => holds'[u] \subseteq holds[u]
  PROVE  Served(c)'
<1>1. CASE port_diswai(p, c, "RDV")
  <2>1. rtcb'[c].state = "READY"
    BY <1>1, ReadyTcb DEF PorOK, PorTypes
  <2>. QED  BY <2>1, ServedGone
<1>2. CASE ~port_diswai(p, c, "RDV")
  BY <1>2, ServedMet DEF PorOK
<1>. QED  BY <1>1, <1>2

\* A caller meets the acceptor a, which gets the new number.
LEMMA MeetServed ==
  ASSUME PorOK, RdvOK, room, NEW c \in Tasks, rtcb[c].state # "ACP", NEW p \in Ports, porcb[p].exists,
         NEW a, a \in Acceptors(p), NEW buf \in Nat, porcb[p].maxrmsz <= buf, meet(c, a, p, buf),
         UNCHANGED porcb, DOMAIN holds' = Tasks,
         \A u \in Tasks : holds'[u] \subseteq holds[u] \cup (IF u = a THEN {gen_rdvno(c)} ELSE {})
  PROVE  RdvOK'
<1>1. a \in Tasks /\ a # c /\ TcbOK(rtcb[a]) /\ DOMAIN rtcb = Tasks
  BY DEF Acceptors, PorOK, PorTypes
<1>2. /\ rtcb'[a] = Ready(rtcb[a])
      /\ rtcb'[c] = IF port_diswai(p, c, "RDV") THEN Ready(rtcb[c]) ELSE rdv_wait(c, p, buf)
      /\ \A u \in Tasks : u # a /\ u # c => rtcb'[u] = rtcb[u]
  BY <1>1 DEF meet
<1>3. rtcb'[a].state = "READY"
  BY <1>1, <1>2, ReadyTcb
<1>4. Served(c)'
  <2>1. \A u \in Tasks : u # a => holds'[u] \subseteq holds[u]
    OBVIOUS
  <2>. QED  BY <1>1, <1>2, <2>1, ServedNow DEF RdvOK
<1>5. \A u \in Tasks : \A r \in holds'[u] : r \in holds[u] \/ r \in {c} \X (0..MaxOdd)
  BY FreshNumber DEF RdvOK
<1>6. \A u \in Tasks : u # c => rtcb'[u] = rtcb[u] \/ rtcb'[u].state \notin {"RDV", "CAL"}
  BY <1>2, <1>3
<1>. QED  BY <1>4, <1>5, <1>6, ServedStep

\* One task changes, and nobody gets a number.
LEMMA NoNumberStep ==
  ASSUME PorTypes, RdvOK, NEW t \in Tasks, Served(t)', UNCHANGED porcb, NEW new, rtcb' = [rtcb EXCEPT ![t] = new],
         DOMAIN holds' = Tasks, \A u \in Tasks : holds'[u] \subseteq holds[u]
  PROVE  RdvOK'
<1>1. \A u \in Tasks : u # t => rtcb'[u] = rtcb[u]
  BY DEF PorTypes
<1>2. \A u \in Tasks : \A r \in holds'[u] : r \in holds[u] \/ r \in {t} \X (0..MaxOdd)
  OBVIOUS
<1>. QED  BY <1>1, <1>2, ServedStep

\* tk_cre_por: nobody waits at the port that is created.
LEMMA CrePorServed ==
  ASSUME PorOK, RdvOK, NEW p \in Ports, NEW pk \in PortKinds[p], CrePor(p, pk)
  PROVE  RdvOK'
<1>1. /\ UNCHANGED <<rtcb, holds>> /\ call_queue[p] = <<>> /\ \A x \in Ports : x # p => porcb'[x] = porcb[x]
  BY DEF CrePor, PorOK, PorQueues, PorTypes
<1>2. Callers(p) = {}
  BY <1>1 DEF PorOK, PorQueues, Holds, ToSet
<1>3. ASSUME NEW c \in Tasks, rtcb[c].state = "CAL"  PROVE porcb'[rtcb[c].wid].maxrmsz = porcb[rtcb[c].wid].maxrmsz
  BY <1>1, <1>2, <1>3 DEF Callers, PorOK, PorTypes, TcbOK
<1>4. ASSUME NEW c \in Tasks  PROVE Served(c)'
  BY <1>1, <1>3, ServedKept DEF RdvOK
<1>. QED  BY <1>1, <1>4 DEF RdvOK, Numbered

\* tk_del_por: whoever waited at the port does not wait any more.
LEMMA DelPorServed ==
  ASSUME PorOK, RdvOK, NEW p \in Ports, DelPor(p)
  PROVE  RdvOK'
<1>1. /\ UNCHANGED holds /\ \A x \in Ports : x # p => porcb'[x] = porcb[x]
      /\ \A t \in Tasks : rtcb'[t] = IF rtcb[t].state \in {"CAL", "ACP"} /\ rtcb[t].wid = p
                                        THEN Ready(rtcb[t]) ELSE rtcb[t]
  BY DEF DelPor, PorOK, PorTypes
<1>2. ASSUME NEW c \in Tasks  PROVE Served(c)'
  <2>1. TcbOK(rtcb[c])
    BY DEF PorOK, PorTypes
  <2>2. CASE rtcb[c].state \in {"CAL", "ACP"} /\ rtcb[c].wid = p
    <3>1. rtcb'[c].state = "READY"
      BY <1>1, <2>1, <2>2, ReadyTcb
    <3>. QED  BY <3>1, ServedGone
  <2>3. CASE ~(rtcb[c].state \in {"CAL", "ACP"} /\ rtcb[c].wid = p)
    <3>1. rtcb'[c] = rtcb[c]
      BY <1>1, <2>3
    <3>2. rtcb[c].state = "CAL" => porcb'[rtcb[c].wid].maxrmsz = porcb[rtcb[c].wid].maxrmsz
      BY <1>1, <2>1, <2>3 DEF TcbOK
    <3>. QED  BY <1>1, <3>1, <3>2, ServedKept DEF RdvOK
  <2>. QED  BY <2>2, <2>3
<1>. QED  BY <1>1, <1>2 DEF RdvOK, Numbered

\* tk_cal_por
LEMMA CalPorServed ==
  ASSUME PorOK, RdvOK, NEW t \in Tasks, NEW p \in Ports, NEW ptn, CalPor(t, p, ptn)
  PROVE  RdvOK'
<1>. DEFINE a == first_match(accept_queue[p], ptn)
            buf == porcb[p].maxrmsz
<1>1. /\ rtcb[t].state = "READY" /\ porcb[p].exists /\ buf \in Nat /\ UNCHANGED porcb
      /\ Holds(accept_queue[p], Acceptors(p), pri, FALSE) /\ DOMAIN holds = Tasks
  BY DEF CalPor, PorOK, PorQueues, PorTypes, PortOK, RdvOK, Numbered
<1>2. CASE a # NULL
  <2>1. meet(t, a, p, buf) /\ room /\ holds' = [holds EXCEPT ![a] = @ \cup {gen_rdvno(t)}]
    BY <1>2 DEF CalPor
  <2>2. a \in Acceptors(p)
    BY <1>1, <1>2, MatchFound DEF Holds
  <2>. HIDE DEF a, buf
  <2>3. DOMAIN holds' = Tasks
        /\ \A u \in Tasks : holds'[u] \subseteq holds[u] \cup (IF u = a THEN {gen_rdvno(t)} ELSE {})
    BY <1>1, <2>1
  <2>4. porcb[p].maxrmsz <= buf
    BY <1>1 DEF buf
  <2>5. rtcb[t].state # "ACP"
    BY <1>1
  <2>. QED  BY <1>1, <2>1, <2>2, <2>3, <2>4, <2>5, MeetServed
<1>3. CASE a = NULL
  <2>1. UNCHANGED holds /\ rtcb' = [rtcb EXCEPT ![t] = cal_wait(t, p, ptn, buf)]
    BY <1>3 DEF CalPor
  <2>2. rtcb'[t] = cal_wait(t, p, ptn, buf)
    BY <2>1 DEF PorOK, PorTypes
  <2>3. buf <= buf
    BY <1>1
  <2>4. Served(t)'
    BY <1>1, <2>2, <2>3, ServedCalled DEF PorOK
  <2>. QED  BY <1>1, <2>1, <2>4, NoNumberStep DEF PorOK
<1>. QED  BY <1>2, <1>3

\* tk_acp_por
LEMMA AcpPorServed ==
  ASSUME PorOK, RdvOK, NEW t \in Tasks, NEW p \in Ports, NEW ptn, AcpPor(t, p, ptn)
  PROVE  RdvOK'
<1>. DEFINE m == first_match(call_queue[p], ptn)
<1>1. /\ rtcb[t].state = "READY" /\ porcb[p].exists /\ UNCHANGED porcb
      /\ Holds(call_queue[p], Callers(p), pri, Ordered(p)) /\ DOMAIN holds = Tasks
  BY DEF AcpPor, PorOK, PorQueues, RdvOK, Numbered
<1>2. CASE m # NULL
  <2>1. m \in Callers(p) /\ m \in Tasks /\ DOMAIN rtcb = Tasks
    BY <1>1, <1>2, MatchFound DEF Holds, PorOK, PorTypes
  <2>. PICK c \in Tasks : c = m
    BY <2>1
  <2>2. /\ rtcb' = [rtcb EXCEPT ![c] = IF port_diswai(p, c, "RDV") THEN Ready(@) ELSE rdv_wait(c, p, rtcb[c].buf)]
        /\ room /\ holds' = [holds EXCEPT ![t] = @ \cup {gen_rdvno(c)}]
    BY <1>2 DEF AcpPor
  <2>. HIDE DEF m
  <2>3. /\ rtcb'[c] = IF port_diswai(p, c, "RDV") THEN Ready(rtcb[c]) ELSE rdv_wait(c, p, rtcb[c].buf)
        /\ \A u \in Tasks : u # c => rtcb'[u] = rtcb[u]
    BY <2>1, <2>2
  <2>4. rtcb[c].buf \in Nat /\ porcb[p].maxrmsz <= rtcb[c].buf
    BY <2>1 DEF PorOK, PorTypes, TcbOK, Callers, RdvOK, Served
  <2>5. DOMAIN holds' = Tasks /\ \A u \in Tasks : u # t => holds'[u] \subseteq holds[u]
    BY <1>1, <2>2
  <2>6. Served(c)'
    BY <1>1, <2>1, <2>2, <2>3, <2>4, <2>5, ServedNow DEF RdvOK
  <2>7. \A u \in Tasks : \A r \in holds'[u] : r \in holds[u] \/ r \in {c} \X (0..MaxOdd)
    <3>1. gen_rdvno(c) \in {c} \X (0..MaxOdd)
      BY <2>1, <2>2, FreshNumber DEF RdvOK
    <3>. QED  BY <1>1, <2>2, <3>1
  <2>. QED  BY <1>1, <2>1, <2>3, <2>5, <2>6, <2>7, ServedStep
<1>3. CASE m = NULL
  <2>1. /\ UNCHANGED holds
        /\ rtcb' = [rtcb EXCEPT ![t].state = "ACP", ![t].wid = p, ![t].ptn = ptn,
                                ![t].nodiswai = porcb[p].atr.nodiswai]
    BY <1>3 DEF AcpPor
  <2>. DEFINE new == [rtcb[t] EXCEPT !.state = "ACP", !.wid = p, !.ptn = ptn, !.nodiswai = porcb[p].atr.nodiswai]
  <2>2. rtcb' = [rtcb EXCEPT ![t] = new] /\ rtcb'[t] = new /\ new.state = "ACP"
    BY <2>1 DEF PorOK, PorTypes, TcbOK, TcbFields
  <2>. HIDE DEF new
  <2>3. Served(t)'
    BY <2>2, ServedGone
  <2>. QED  BY <1>1, <2>1, <2>2, <2>3, NoNumberStep DEF PorOK
<1>. QED  BY <1>2, <1>3

\* tk_fwd_por
LEMMA FwdPorServed ==
  ASSUME PorOK, RdvOK, NEW t \in Tasks, NEW p \in Ports, NEW ptn, NEW r \in holds[t], FwdPor(t, p, ptn, r)
  PROVE  RdvOK'
<1>. DEFINE c == r[1]
            a == first_match(accept_queue[p], ptn)
            buf == rtcb[c].buf
<1>1. c \in Tasks /\ DOMAIN holds = Tasks
  BY DEF RdvOK, Numbered
<1>2. /\ rtcb[c].state = "RDV" /\ porcb[p].exists /\ TcbOK(rtcb[c]) /\ UNCHANGED porcb
      /\ porcb[p].maxrmsz <= rtcb[c].maxrmsz /\ porcb[p].maxrmsz \in Nat
      /\ Holds(accept_queue[p], Acceptors(p), pri, FALSE)
  BY <1>1 DEF FwdPor, may_forward, good, PorOK, PorTypes, PorQueues, PortOK
<1>3. buf \in Nat /\ porcb[p].maxrmsz <= buf
  <2>1. rtcb[c].maxrmsz <= rtcb[c].buf
    BY <1>1, <1>2 DEF RdvOK, Served
  <2>. QED  BY <1>2, <2>1 DEF TcbOK
<1>4. CASE port_diswai(p, c, "CAL")
  <2>1. rtcb' = [rtcb EXCEPT ![c] = Ready(@)] /\ holds' = [holds EXCEPT ![t] = @ \ {r}]
    BY <1>4 DEF FwdPor
  <2>. HIDE DEF c
  <2>2. rtcb' = [rtcb EXCEPT ![c] = Ready(rtcb[c])] /\ rtcb'[c] = Ready(rtcb[c])
    BY <1>1, <2>1 DEF PorOK, PorTypes
  <2>3. Ready(rtcb[c]).state = "READY"
    BY <1>2, ReadyTcb
  <2>4. Served(c)'
    BY <1>1, <2>2, <2>3, ServedGone
  <2>5. DOMAIN holds' = Tasks /\ \A u \in Tasks : holds'[u] \subseteq holds[u]
    BY <1>1, <2>1
  <2>. QED  BY <1>1, <1>2, <2>2, <2>4, <2>5, NoNumberStep DEF PorOK
<1>5. CASE ~port_diswai(p, c, "CAL") /\ a # NULL
  <2>1. /\ meet(c, a, p, buf) /\ room
        /\ holds' = [u \in Tasks |-> (holds[u] \ (IF u = t THEN {r} ELSE {}))
                                       \cup (IF u = a THEN {gen_rdvno(c)} ELSE {})]
    BY <1>5 DEF FwdPor
  <2>2. a \in Acceptors(p)
    BY <1>2, <1>5, MatchFound DEF Holds
  <2>3. rtcb[c].state # "ACP"
    BY <1>2
  <2>. HIDE DEF a, c, buf
  <2>4. DOMAIN holds' = Tasks
        /\ \A u \in Tasks : holds'[u] \subseteq holds[u] \cup (IF u = a THEN {gen_rdvno(c)} ELSE {})
    BY <2>1
  <2>. QED  BY <1>1, <1>2, <1>3, <2>1, <2>2, <2>3, <2>4, MeetServed
<1>6. CASE ~port_diswai(p, c, "CAL") /\ a = NULL
  <2>1. /\ rtcb' = [rtcb EXCEPT ![c] = cal_wait(c, p, ptn, buf)]
        /\ holds' = [holds EXCEPT ![t] = @ \ {r}]
    BY <1>6 DEF FwdPor
  <2>. HIDE DEF a, c, buf
  <2>2. rtcb'[c] = cal_wait(c, p, ptn, buf)
    BY <1>1, <2>1 DEF PorOK, PorTypes
  <2>3. Served(c)'
    BY <1>1, <1>2, <1>3, <2>2, ServedCalled DEF PorOK
  <2>4. DOMAIN holds' = Tasks /\ \A u \in Tasks : holds'[u] \subseteq holds[u]
    BY <1>1, <2>1
  <2>. QED  BY <1>1, <1>2, <2>1, <2>3, <2>4, NoNumberStep DEF PorOK
<1>. QED  BY <1>4, <1>5, <1>6

\* Any other call of a task: a wait ends, or stays as it is.
LEMMA EndServed ==
  ASSUME PorTypes, RdvOK, NEW t \in Tasks, NEW new, rtcb' = [rtcb EXCEPT ![t] = new], UNCHANGED porcb,
         DOMAIN holds' = Tasks, \A u \in Tasks : holds'[u] \subseteq holds[u],
         \/ new.state = "READY"
         \/ /\ new.state = rtcb[t].state /\ new.rdvno = rtcb[t].rdvno /\ new.wid = rtcb[t].wid
            /\ new.maxrmsz = rtcb[t].maxrmsz /\ new.buf = rtcb[t].buf
  PROVE  RdvOK'
<1>1. rtcb'[t] = new
  BY DEF PorTypes
<1>2. Served(t)'
  <2>1. CASE new.state = "READY"
    BY <1>1, <2>1, ServedGone
  <2>2. CASE /\ new.state = rtcb[t].state /\ new.rdvno = rtcb[t].rdvno /\ new.wid = rtcb[t].wid
             /\ new.maxrmsz = rtcb[t].maxrmsz /\ new.buf = rtcb[t].buf
    <3>1. \A u \in Tasks : \A r \in holds'[u] : r \in holds[u] \/ r[1] # t
      OBVIOUS
    <3>. QED  BY <1>1, <2>2, <3>1, ServedKept DEF RdvOK
  <2>. QED  BY <2>1, <2>2
<1>. QED  BY <1>2, NoNumberStep
\* tk_rpl_rdv, tk_rel_wai, tk_dis_wai, tk_ena_wai, tk_chg_pri, and the end of a task
LEMMA OtherServed ==
  ASSUME PorTypes, RdvOK, NEW t \in Tasks,
         \/ \E r \in holds[t] : RplRdv(t, r)
         \/ \E wait \in Waits : DisWaiRdv(t, wait)
         \/ \E p \in Pri : ChgPriRdv(t, p)
         \/ RelWai(t) \/ EnaWaiRdv(t) \/ RestartTsk(t)
  PROVE  RdvOK'
<1>1. TcbOK(rtcb[t]) /\ DOMAIN rtcb = Tasks /\ DOMAIN holds = Tasks
  BY DEF PorTypes, RdvOK, Numbered
<1>2. ASSUME NEW r \in holds[t], RplRdv(t, r)  PROVE RdvOK'
  <2>1. r[1] \in Tasks /\ TcbOK(rtcb[r[1]])
    BY DEF RdvOK, Numbered, PorTypes
  <2>2. /\ UNCHANGED porcb /\ holds' = [holds EXCEPT ![t] = @ \ {r}]
        /\ rtcb' = IF good(r) THEN [rtcb EXCEPT ![r[1]] = Ready(@)] ELSE rtcb
    BY <1>2 DEF RplRdv
  <2>3. DOMAIN holds' = Tasks /\ \A u \in Tasks : holds'[u] \subseteq holds[u]
    BY <1>1, <2>2
  <2>4. CASE good(r)
    <3>1. rtcb' = [rtcb EXCEPT ![r[1]] = Ready(rtcb[r[1]])]
      BY <1>1, <2>1, <2>2, <2>4
    <3>2. Ready(rtcb[r[1]]).state = "READY"
      BY <2>1, ReadyTcb
    <3>. QED  BY <2>1, <2>2, <2>3, <3>1, <3>2, EndServed
  <2>5. CASE ~good(r)
    <3>1. UNCHANGED rtcb
      BY <2>2, <2>5
    <3>2. ASSUME NEW c \in Tasks  PROVE Served(c)'
      BY <2>2, <2>3, <3>1, ServedKept DEF RdvOK
    <3>. QED  BY <2>3, <3>2 DEF RdvOK, Numbered
  <2>. QED  BY <2>4, <2>5
<1>3. ASSUME NEW wait \in Waits, DisWaiRdv(t, wait)  PROVE RdvOK'
  <2>1. UNCHANGED <<porcb, holds>>
    BY <1>3 DEF DisWaiRdv
  <2>2. CASE rtcb[t].state = wait /\ ~rtcb[t].nodiswai
    <3>. DEFINE new == [Ready(rtcb[t]) EXCEPT !.mask = {wait}]
    <3>1. rtcb' = [rtcb EXCEPT ![t] = new]
      BY <1>1, <1>3, <2>2 DEF DisWaiRdv
    <3>2. new.state = "READY"
      BY <1>1 DEF Ready, TcbOK, TcbFields
    <3>. HIDE DEF new
    <3>. QED  BY <1>1, <2>1, <3>1, <3>2, EndServed
  <2>3. CASE ~(rtcb[t].state = wait /\ ~rtcb[t].nodiswai)
    <3>. DEFINE new == [rtcb[t] EXCEPT !.mask = {wait}]
    <3>1. rtcb' = [rtcb EXCEPT ![t] = new]
      BY <1>1, <1>3, <2>3 DEF DisWaiRdv
    <3>2. /\ new.state = rtcb[t].state /\ new.rdvno = rtcb[t].rdvno /\ new.wid = rtcb[t].wid
          /\ new.maxrmsz = rtcb[t].maxrmsz /\ new.buf = rtcb[t].buf
      BY <1>1 DEF TcbOK, TcbFields
    <3>. HIDE DEF new
    <3>. QED  BY <1>1, <2>1, <3>1, <3>2, EndServed
  <2>. QED  BY <2>2, <2>3
<1>4. ASSUME NEW p \in Pri, ChgPriRdv(t, p)  PROVE RdvOK'
  <2>. DEFINE new == [rtcb[t] EXCEPT !.pri = p]
  <2>1. UNCHANGED <<porcb, holds>> /\ rtcb' = [rtcb EXCEPT ![t] = new]
    BY <1>1, <1>4 DEF ChgPriRdv
  <2>2. /\ new.state = rtcb[t].state /\ new.rdvno = rtcb[t].rdvno /\ new.wid = rtcb[t].wid
        /\ new.maxrmsz = rtcb[t].maxrmsz /\ new.buf = rtcb[t].buf
    BY <1>1 DEF TcbOK, TcbFields
  <2>. HIDE DEF new
  <2>. QED  BY <1>1, <2>1, <2>2, EndServed
<1>5. ASSUME RelWai(t)  PROVE RdvOK'
  <2>1. UNCHANGED <<porcb, holds>> /\ rtcb' = [rtcb EXCEPT ![t] = Ready(rtcb[t])]
    BY <1>1, <1>5 DEF RelWai
  <2>2. Ready(rtcb[t]).state = "READY"
    BY <1>1, ReadyTcb
  <2>. QED  BY <1>1, <2>1, <2>2, EndServed
<1>6. ASSUME EnaWaiRdv(t)  PROVE RdvOK'
  <2>. DEFINE new == [rtcb[t] EXCEPT !.mask = {}]
  <2>1. UNCHANGED <<porcb, holds>> /\ rtcb' = [rtcb EXCEPT ![t] = new]
    BY <1>1, <1>6 DEF EnaWaiRdv
  <2>2. /\ new.state = rtcb[t].state /\ new.rdvno = rtcb[t].rdvno /\ new.wid = rtcb[t].wid
        /\ new.maxrmsz = rtcb[t].maxrmsz /\ new.buf = rtcb[t].buf
    BY <1>1 DEF TcbOK, TcbFields
  <2>. HIDE DEF new
  <2>. QED  BY <1>1, <2>1, <2>2, EndServed
<1>7. ASSUME RestartTsk(t)  PROVE RdvOK'
  <2>. DEFINE new == [Ready(rtcb[t]) EXCEPT !.mask = {}, !.pri = INI_PRI]
  <2>1. /\ UNCHANGED porcb /\ rtcb' = [rtcb EXCEPT ![t] = new] /\ holds' = [holds EXCEPT ![t] = {}]
    BY <1>1, <1>7 DEF RestartTsk
  <2>2. new.state = "READY"
    BY <1>1 DEF Ready, TcbOK, TcbFields
  <2>. HIDE DEF new
  <2>3. DOMAIN holds' = Tasks /\ \A u \in Tasks : holds'[u] \subseteq holds[u]
    BY <1>1, <2>1
  <2>. QED  BY <1>1, <2>1, <2>2, <2>3, EndServed
<1>. QED  BY <1>2, <1>3, <1>4, <1>5, <1>6, <1>7

\* Nobody has called at the beginning.
LEMMA RdvInitial ==
  ASSUME PorInit
  PROVE  RdvOK
<1>1. DOMAIN holds = Tasks /\ \A t \in Tasks : holds[t] = {} /\ rtcb[t].state = "READY"
  BY DEF PorInit
<1>. QED  BY <1>1 DEF RdvOK, Numbered, Served

\* Any call.
LEMMA RdvStep ==
  ASSUME PorOK, RdvOK, PorNext
  PROVE  RdvOK'
<1>1. ASSUME NEW p \in Ports, DelPor(p)  PROVE RdvOK'
  BY <1>1, DelPorServed
<1>2. ASSUME NEW p \in Ports, NEW pk \in PortKinds[p], CrePor(p, pk)  PROVE RdvOK'
  BY <1>2, CrePorServed
<1>3. ASSUME NEW p \in Ports, NEW t \in Tasks, NEW ptn \in AcpPatterns, AcpPor(t, p, ptn)  PROVE RdvOK'
  BY <1>3, AcpPorServed
<1>4. ASSUME NEW p \in Ports, NEW t \in Tasks, NEW ptn \in CalPatterns, CalPor(t, p, ptn)  PROVE RdvOK'
  BY <1>4, CalPorServed
<1>5. ASSUME NEW p \in Ports, NEW t \in Tasks, NEW ptn \in CalPatterns, NEW r \in holds[t], FwdPor(t, p, ptn, r)
      PROVE RdvOK'
  BY <1>5, FwdPorServed
<1>6. ASSUME NEW t \in Tasks,
             \/ \E r \in holds[t] : RplRdv(t, r)
             \/ \E wait \in Waits : DisWaiRdv(t, wait)
             \/ \E p \in Pri : ChgPriRdv(t, p)
             \/ RelWai(t) \/ EnaWaiRdv(t) \/ RestartTsk(t)
      PROVE  RdvOK'
  BY <1>6, OtherServed DEF PorOK
<1>. QED  BY <1>1, <1>2, <1>3, <1>4, <1>5, <1>6 DEF PorNext

-----------------------------------------------------------------------------
(* All kinds of objects.                                                   *)

\* The inductive invariant: the wait queue of every object; that one task at most
\* waits for a flag with TA_WSGL, for which its queue is not enough; that a locked
\* pool exists; the receive queue of a message buffer; the two queues of every
\* port, and what ties a caller in no queue to its server.
ObjInv == /\ GcbOK
          /\ kind = "flg" => OneWait
          /\ kind = "mpf" => LockedExists
          /\ kind = "mbf" => RecvOK
          /\ PorOK /\ RdvOK

\* Objects that nobody has created.
LEMMA ObjInitial ==
  ASSUME Init
  PROVE  ObjInv
<1>1. GcbOK
  <2>1. wait_queue = <<>> /\ objid = FALSE /\ state = [t \in Tasks |-> "DORMANT"]
        /\ waitmask = [t \in Tasks |-> FALSE] /\ priority = [t \in Tasks |-> INI_PRI]
        /\ objatr \in ObjAtr
    BY ObjectAssumption DEF Init, GcbInit
  <2>2. <<>> \in Seq(Tasks) /\ IsInjective(<<>>) /\ ToSet(<<>>) = {} /\ Sorted(<<>>, priority)
    BY DEF Sorted, IsInjective, ToSet
  <2>3. Exact(<<>>, state, waitmask, priority, objatr)
    BY <2>1, <2>2, ObjectAssumption DEF Exact
  <2>. QED  BY <2>1, <2>3 DEF GcbOK, Current
<1>2. OneWait
  BY DEF Init, GcbInit, OneWait
<1>3. LockedExists
  BY DEF Init, MpfInit, LockedExists
<1>4. RecvOK
  BY DEF Init, MbfInit, GcbInit, RecvOK, IsInjective, ToSet
<1>5. PorOK /\ RdvOK
  BY PorInitial, RdvInitial DEF Init
<1>. QED  BY <1>1, <1>2, <1>3, <1>4, <1>5 DEF ObjInv

\* What no object does to the wait queue when nothing of it changes.
LEMMA GcbQuiet ==
  ASSUME GcbOK, UNCHANGED <<gcb, tasks>>
  PROVE  GcbOK'
BY DEF GcbOK, Current, Exact, Sorted, gcb, tasks

\* Ports that no call reaches.
LEMMA PorQuiet ==
  ASSUME PorOK, RdvOK, UNCHANGED <<porcb, call_queue, accept_queue, rtcb, holds>>
  PROVE  PorOK' /\ RdvOK'
<1>1. PorOK'
  BY PorSame
<1>2. RdvOK'
  BY DEF RdvOK, Numbered, Served
<1>. QED  BY <1>1, <1>2

\* Every step.
LEMMA ObjStep ==
  ASSUME ObjInv, [Next]_vars
  PROVE  ObjInv'
<1>1. CASE UNCHANGED vars
  <2>1. UNCHANGED <<kind, gcb, tasks, porcb, call_queue, accept_queue, rtcb, holds, wmul, lock, recv_queue>>
    BY <1>1 DEF vars, hookless, hooked, por, flg, call, mbf
  <2>2. GcbOK'
    BY <2>1, GcbQuiet DEF ObjInv
  <2>3. OneWait => OneWait'
    BY <2>1 DEF OneWait, tasks
  <2>4. LockedExists => LockedExists'
    BY <2>1 DEF LockedExists, gcb
  <2>5. RecvOK => RecvOK'
    BY <2>1 DEF RecvOK, gcb, tasks
  <2>6. PorOK' /\ RdvOK'
    BY <2>1, PorQuiet DEF ObjInv
  <2>. QED  BY <2>1, <2>2, <2>3, <2>4, <2>5, <2>6 DEF ObjInv
<1>2. CASE Next
  <2>0. UNCHANGED kind
    BY <1>2 DEF Next
  <2>1. CASE kind = "flg" /\ FlgNext /\ UNCHANGED por
    BY <2>0, <2>1, FlgStep, PorQuiet DEF ObjInv, por
  <2>2. CASE kind = "mbx" /\ MbxNext /\ UNCHANGED por
    BY <2>0, <2>2, MbxStep, PorQuiet DEF ObjInv, por
  <2>3. CASE kind = "mpf" /\ MpfNext /\ UNCHANGED por
    BY <2>0, <2>3, MpfStep, PorQuiet DEF ObjInv, por
  <2>4. CASE kind = "sem" /\ SemNext /\ UNCHANGED por
    BY <2>0, <2>4, SemStep, PorQuiet DEF ObjInv, por
  <2>5. CASE kind = "mbf" /\ MbfNext /\ UNCHANGED por
    BY <2>0, <2>5, MbfStep, PorQuiet DEF ObjInv, por
  <2>6. CASE kind = "mpl" /\ MplNext /\ UNCHANGED por
    BY <2>0, <2>6, MplStep, PorQuiet DEF ObjInv, por
  <2>7. CASE kind = "por" /\ PorNext /\ UNCHANGED <<gcb, tasks>>
    <3>1. PorOK /\ RdvOK /\ GcbOK /\ Numbered
      BY <2>7 DEF ObjInv, RdvOK
    <3>2. PorOK' /\ RdvOK' /\ GcbOK'
      BY <2>7, <3>1, PorStep, RdvStep, GcbQuiet
    <3>. QED  BY <2>0, <2>7, <3>2 DEF ObjInv
  <2>. QED  BY <1>2, <2>1, <2>2, <2>3, <2>4, <2>5, <2>6, <2>7 DEF Next, HooklessNext, HookedNext
<1>. QED  BY <1>1, <1>2

\* Whatever tasks, priorities, attributes and sizes there are, the invariant holds
\* in every state of every kind of object.
THEOREM ObjectsInvariant == Spec => []ObjInv
<1>1. Init => ObjInv
  BY ObjInitial
<1>2. ObjInv /\ [Next]_vars => ObjInv'
  BY ObjStep
<1>. QED  BY <1>1, <1>2, PTL DEF Spec

\* Every wait queue holds exactly the tasks that wait in it, in the order of its
\* attributes, through every path that begins, ends or moves a wait (gcb_make_wait,
\* wait_release, gcb_change_priority, wait_delete, the hooks, the two queues of a
\* message buffer and of a port): no task is lost in a queue or out of one.
THEOREM QueuesExact == Spec => []WaitQueueExact
<1>1. ObjInv => WaitQueueExact
  <2>1. SUFFICES ASSUME ObjInv  PROVE WaitQueueExact
    OBVIOUS
  <2>2. GcbQueueExact
    BY <2>1, GcbExact DEF ObjInv
  <2>3. kind = "flg" => SingleWait
    BY <2>1, OneWaitSingle DEF ObjInv
  <2>4. kind = "mbf" => RecvQueueExact
    BY <2>1, RecvExact DEF ObjInv
  <2>5. kind = "por" => PortQueuesExact
    BY <2>1, PorExact DEF ObjInv
  <2>. QED  BY <2>2, <2>3, <2>4, <2>5 DEF WaitQueueExact
<1>. QED  BY <1>1, ObjectsInvariant, PTL

\* A caller that waits for the end of its rendezvous has one server at most, and a
\* buffer that is long enough for any reply it may get, however often the
\* rendezvous is passed on and whatever old numbers tasks still keep
\* (tk_cal_por, tk_acp_por, tk_fwd_por, tk_rpl_rdv).
THEOREM ServersExact == Spec => []RendezvousExact
<1>1. ObjInv => RendezvousExact
  BY ServedExact DEF ObjInv
<1>. QED  BY <1>1, ObjectsInvariant, PTL

-----------------------------------------------------------------------------
(* Nobody waits who could be served, and nothing is lost or given twice:   *)
(* the ports, the mailbox and the fixed-size memory pool.                  *)

\* NobodyCouldMeet, said of the tasks: no caller and no acceptor of one port
\* have patterns that meet.
NoneMeet(r) ==
    \A c, a \in Tasks : r[c].state = "CAL" /\ r[a].state = "ACP" /\ r[c].wid = r[a].wid =>
                           r[c].ptn \cap r[a].ptn = {}

\* Then it holds of the queues.
LEMMA NoneMeetQueues ==
  ASSUME PorOK, NoneMeet(rtcb)
  PROVE  NobodyCouldMeet
<1>1. \A p \in Ports : /\ ToSet(call_queue[p]) = {t \in Tasks : rtcb[t].state = "CAL" /\ rtcb[t].wid = p}
                       /\ ToSet(accept_queue[p]) = {t \in Tasks : rtcb[t].state = "ACP" /\ rtcb[t].wid = p}
  BY PorExact DEF PortQueuesExact
<1>. QED  BY <1>1 DEF NoneMeet, NobodyCouldMeet

\* Nobody in the queue matches when no partner is found.
LEMMA NoMatch ==
  ASSUME NEW q \in Seq(Tasks), NEW ptn, first_match(q, ptn) = NULL
  PROVE  \A u \in ToSet(q) : rtcb[u].ptn \cap ptn = {}
<1>. DEFINE I == {i \in 1..Len(q) : rtcb[q[i]].ptn \cap ptn # {}}
            i == SelectInSeq(q, LAMBDA u : rtcb[u].ptn \cap ptn # {})
<1>1. i = IF I # {} THEN Min(I) ELSE 0
  BY DEF SelectInSeq
<1>2. first_match(q, ptn) = IF i = 0 THEN NULL ELSE q[i]
  BY DEF first_match
<1>. HIDE DEF i
<1>3. I = {}
  <2>. SUFFICES ASSUME I # {}  PROVE FALSE
    OBVIOUS
  <2>1. I \in SUBSET Nat
    OBVIOUS
  <2>2. i \in I
    <3>. HIDE DEF I
    <3>. QED  BY <1>1, <2>1, MinPosition
  <2>3. i # 0 /\ q[i] \in Tasks
    BY <2>2, ElementOfSeq
  <2>. QED  BY <1>2, <2>3, ObjectAssumption
<1>. QED  BY <1>3, MemberPosition

\* The tasks that wait afterwards waited before with the same patterns at the
\* same ports, or nobody who waits there matches them.
Joins(t, r, s) ==
    \A u \in Tasks \ {t} : s[u].state \in {"CAL", "ACP"} =>
                              s[u].state = r[u].state /\ s[u].wid = r[u].wid /\ s[u].ptn = r[u].ptn

Unmatched(t, s, other) ==
    \A u \in Tasks : s[u].state = other /\ s[u].wid = s[t].wid => s[u].ptn \cap s[t].ptn = {}

\* That keeps it.
LEMMA JoinStep ==
  ASSUME NEW r, NEW s, NEW t, NoneMeet(r), Joins(t, r, s),
         s[t].state = "CAL" => Unmatched(t, s, "ACP"),
         s[t].state = "ACP" => Unmatched(t, s, "CAL")
  PROVE  NoneMeet(s)
<1>. SUFFICES ASSUME NEW c \in Tasks, NEW a \in Tasks,
                     s[c].state = "CAL", s[a].state = "ACP", s[c].wid = s[a].wid
              PROVE  s[c].ptn \cap s[a].ptn = {}
  BY DEF NoneMeet
<1>1. CASE c = t
  BY <1>1 DEF Unmatched
<1>2. CASE a = t
  <2>1. s[c].ptn \cap s[a].ptn = s[a].ptn \cap s[c].ptn
    OBVIOUS
  <2>. QED  BY <1>2, <2>1 DEF Unmatched
<1>3. CASE c # t /\ a # t
  BY <1>3 DEF Joins, NoneMeet
<1>. QED  BY <1>1, <1>2, <1>3

\* Nobody comes to wait.
LEMMA LeaveMeet ==
  ASSUME NEW r, NEW s, NoneMeet(r),
         \A u \in Tasks : s[u].state \in {"CAL", "ACP"} =>
                             s[u].state = r[u].state /\ s[u].wid = r[u].wid /\ s[u].ptn = r[u].ptn
  PROVE  NoneMeet(s)
BY DEF NoneMeet

\* A caller meets an acceptor, and both leave their queues.
LEMMA MeetMeet ==
  ASSUME PorOK, NoneMeet(rtcb), NEW t \in Tasks, NEW p \in Ports, porcb[p].exists,
         NEW a \in Tasks, NEW buf \in Nat, meet(t, a, p, buf)
  PROVE  NoneMeet(rtcb)'
<1>1. rtcb' = [rtcb EXCEPT ![a] = Ready(@),
                           ![t] = IF port_diswai(p, t, "RDV") THEN Ready(@) ELSE rdv_wait(t, p, buf)]
  BY DEF meet
<1>2. DOMAIN rtcb = Tasks /\ \A u \in Tasks : TcbOK(rtcb[u])
  BY DEF PorOK, PorTypes
<1>3. \A u \in Tasks : Ready(rtcb[u]).state = "READY" /\ Ready(Ready(rtcb[u])).state = "READY"
  BY <1>2, ReadyTcb
<1>4. rdv_wait(t, p, buf).state = "RDV"
  BY RdvTcb DEF PorOK
<1>. HIDE DEF Ready
<1>5. \A u \in Tasks : u # t /\ u # a => rtcb'[u] = rtcb[u]
  BY <1>1, <1>2
<1>6. rtcb'[t].state \notin {"CAL", "ACP"} /\ rtcb'[a].state \notin {"CAL", "ACP"}
  BY <1>1, <1>2, <1>3, <1>4
<1>. QED  BY <1>5, <1>6, LeaveMeet

\* Whoever waits for a partner at the port of the record new does not match it.
Partnerless(new) ==
    \A u \in Tasks : <<rtcb[u].state, new.state>> \in {<<"CAL", "ACP">>, <<"ACP", "CAL">>} /\ rtcb[u].wid = new.wid =>
                        rtcb[u].ptn \cap new.ptn = {}

\* A task comes to wait for a partner whom it does not find in the other queue.
LEMMA WaitMeet ==
  ASSUME NoneMeet(rtcb), DOMAIN rtcb = Tasks, NEW t \in Tasks, NEW new, Partnerless(new),
         rtcb[t].state \notin {"CAL", "ACP"}
  PROVE  NoneMeet([rtcb EXCEPT ![t] = new])
<1>. DEFINE s == [rtcb EXCEPT ![t] = new]
<1>1. s[t] = new /\ \A u \in Tasks : u # t => s[u] = rtcb[u]
  OBVIOUS
<1>. HIDE DEF s
<1>2. Joins(t, rtcb, s)
  BY <1>1 DEF Joins
<1>3. /\ s[t].state = "CAL" => Unmatched(t, s, "ACP")
      /\ s[t].state = "ACP" => Unmatched(t, s, "CAL")
  BY <1>1 DEF Unmatched, Partnerless
<1>4. NoneMeet(s)
  BY <1>2, <1>3, JoinStep
<1>. QED  BY <1>4 DEF s

\* Every call of the ports.
LEMMA PorMeet ==
  ASSUME PorOK, Numbered, NoneMeet(rtcb), PorNext
  PROVE  NoneMeet(rtcb)'
<1>0. /\ DOMAIN rtcb = Tasks /\ \A u \in Tasks : TcbOK(rtcb[u])
      /\ \A u \in Tasks : Ready(rtcb[u]).state = "READY"
  BY ReadyTcb DEF PorOK, PorTypes
<1>q. \A x \in Ports :
        /\ call_queue[x] \in Seq(Tasks) /\ accept_queue[x] \in Seq(Tasks)
        /\ ToSet(call_queue[x]) = {u \in Tasks : rtcb[u].state = "CAL" /\ rtcb[u].wid = x}
        /\ ToSet(accept_queue[x]) = {u \in Tasks : rtcb[u].state = "ACP" /\ rtcb[u].wid = x}
  BY DEF PorOK, PorQueues, Holds, Callers, Acceptors
<1>1. ASSUME NEW p \in Ports, DelPor(p)
      PROVE  NoneMeet(rtcb)'
  <2>. HIDE DEF Ready
  <2>1. \A t \in Tasks : rtcb'[t] = IF rtcb[t].state \in {"CAL", "ACP"} /\ rtcb[t].wid = p
                                      THEN Ready(rtcb[t]) ELSE rtcb[t]
    BY <1>1 DEF DelPor
  <2>. QED  BY <1>0, <2>1, LeaveMeet
<1>2. ASSUME NEW p \in Ports, NEW pk_cpor \in PortKinds[p], CrePor(p, pk_cpor)
      PROVE  NoneMeet(rtcb)'
  BY <1>2 DEF CrePor, NoneMeet
<1>3. ASSUME NEW p \in Ports, NEW t \in Tasks, NEW ptn \in AcpPatterns, AcpPor(t, p, ptn)
      PROVE  NoneMeet(rtcb)'
  <2>. DEFINE c == first_match(call_queue[p], ptn)
  <2>1. rtcb[t].state = "READY" /\ porcb[p].exists
    BY <1>3 DEF AcpPor
  <2>2. CASE c # NULL
    <3>1. c \in Tasks
      BY <1>q, <2>2, MatchFound
    <3>2. rtcb' = [rtcb EXCEPT ![c] = IF port_diswai(p, c, "RDV") THEN Ready(@) ELSE rdv_wait(c, p, rtcb[c].buf)]
      BY <1>3, <2>2 DEF AcpPor
    <3>. HIDE DEF c
    <3>3. rdv_wait(c, p, rtcb[c].buf).state = "RDV"
      BY <1>0, <2>1, <3>1, RdvTcb DEF PorOK, TcbOK
    <3>. HIDE DEF Ready
    <3>4. rtcb'[c].state \notin {"CAL", "ACP"} /\ \A u \in Tasks : u # c => rtcb'[u] = rtcb[u]
      BY <1>0, <3>1, <3>2, <3>3
    <3>. QED  BY <3>4, LeaveMeet
  <2>3. CASE c = NULL
    <3>. DEFINE new == [rtcb[t] EXCEPT !.state = "ACP", !.wid = p, !.ptn = ptn, !.nodiswai = porcb[p].atr.nodiswai]
    <3>1. rtcb' = [rtcb EXCEPT ![t].state = "ACP", ![t].wid = p, ![t].ptn = ptn,
                               ![t].nodiswai = porcb[p].atr.nodiswai]
      BY <1>3, <2>3 DEF AcpPor
    <3>2. rtcb' = [rtcb EXCEPT ![t] = new]
      BY <1>0, <3>1
    <3>3. new.state = "ACP" /\ new.wid = p /\ new.ptn = ptn
      BY <1>0 DEF TcbOK, TcbFields
    <3>4. \A u \in Tasks : rtcb[u].state = "CAL" /\ rtcb[u].wid = p => rtcb[u].ptn \cap ptn = {}
      BY <1>q, <2>1, <2>3, NoMatch
    <3>. HIDE DEF new, c
    <3>5. Partnerless(new)
      BY <3>3, <3>4 DEF Partnerless
    <3>6. NoneMeet([rtcb EXCEPT ![t] = new])
      BY <1>0, <2>1, <3>5, WaitMeet
    <3>. QED  BY <3>2, <3>6
  <2>. QED  BY <2>2, <2>3
<1>4. ASSUME NEW p \in Ports, NEW t \in Tasks, NEW ptn \in CalPatterns, CalPor(t, p, ptn)
      PROVE  NoneMeet(rtcb)'
  <2>. DEFINE a == first_match(accept_queue[p], ptn)
  <2>1. rtcb[t].state = "READY" /\ porcb[p].exists /\ porcb[p].maxrmsz \in Nat
    BY <1>4 DEF CalPor, PorOK, PorTypes, PortOK
  <2>2. CASE a # NULL
    <3>1. a \in Tasks
      BY <1>q, <2>2, MatchFound
    <3>2. meet(t, a, p, porcb[p].maxrmsz)
      BY <1>4, <2>2 DEF CalPor
    <3>. HIDE DEF a
    <3>. QED  BY <2>1, <3>1, <3>2, MeetMeet
  <2>3. CASE a = NULL
    <3>. DEFINE new == cal_wait(t, p, ptn, porcb[p].maxrmsz)
    <3>1. rtcb' = [rtcb EXCEPT ![t] = new]
      BY <1>4, <2>3 DEF CalPor
    <3>2. new.state = "CAL" /\ new.wid = p /\ new.ptn = ptn
      BY <1>0 DEF cal_wait, Ready, TcbOK, TcbFields
    <3>4. \A u \in Tasks : rtcb[u].state = "ACP" /\ rtcb[u].wid = p => rtcb[u].ptn \cap ptn = {}
      BY <1>q, <2>1, <2>3, NoMatch
    <3>. HIDE DEF new, a
    <3>5. Partnerless(new)
      BY <3>2, <3>4 DEF Partnerless
    <3>6. NoneMeet([rtcb EXCEPT ![t] = new])
      BY <1>0, <2>1, <3>5, WaitMeet
    <3>. QED  BY <3>1, <3>6
  <2>. QED  BY <2>2, <2>3
<1>5. ASSUME NEW p \in Ports, NEW t \in Tasks, NEW ptn \in CalPatterns, NEW r \in holds[t], FwdPor(t, p, ptn, r)
      PROVE  NoneMeet(rtcb)'
  <2>. DEFINE a == first_match(accept_queue[p], ptn)
  <2>0. PICK c \in Tasks : c = r[1]
    BY DEF Numbered
  <2>1. rtcb[c].state = "RDV" /\ porcb[p].exists /\ rtcb[c].buf \in Nat
    BY <1>0, <1>5, <2>0 DEF FwdPor, may_forward, good, TcbOK
  <2>2. CASE port_diswai(p, c, "CAL")
    <3>1. rtcb' = [rtcb EXCEPT ![c] = Ready(@)]
      BY <1>5, <2>0, <2>2 DEF FwdPor
    <3>. HIDE DEF Ready
    <3>2. rtcb'[c].state = "READY" /\ \A u \in Tasks : u # c => rtcb'[u] = rtcb[u]
      BY <1>0, <3>1
    <3>. QED  BY <3>2, LeaveMeet
  <2>3. CASE ~port_diswai(p, c, "CAL") /\ a # NULL
    <3>1. a \in Tasks
      BY <1>q, <2>3, MatchFound
    <3>2. meet(c, a, p, rtcb[c].buf)
      BY <1>5, <2>0, <2>3 DEF FwdPor
    <3>. HIDE DEF a
    <3>. QED  BY <2>1, <3>1, <3>2, MeetMeet
  <2>4. CASE ~port_diswai(p, c, "CAL") /\ a = NULL
    <3>. DEFINE new == cal_wait(c, p, ptn, rtcb[c].buf)
    <3>1. rtcb' = [rtcb EXCEPT ![c] = new]
      BY <1>5, <2>0, <2>4 DEF FwdPor
    <3>2. new.state = "CAL" /\ new.wid = p /\ new.ptn = ptn
      BY <1>0 DEF cal_wait, Ready, TcbOK, TcbFields
    <3>4. \A u \in Tasks : rtcb[u].state = "ACP" /\ rtcb[u].wid = p => rtcb[u].ptn \cap ptn = {}
      BY <1>q, <2>1, <2>4, NoMatch
    <3>. HIDE DEF new, a
    <3>5. Partnerless(new)
      BY <3>2, <3>4 DEF Partnerless
    <3>6. NoneMeet([rtcb EXCEPT ![c] = new])
      BY <1>0, <2>1, <3>5, WaitMeet
    <3>. QED  BY <3>1, <3>6
  <2>. QED  BY <2>2, <2>3, <2>4
<1>6. ASSUME NEW t \in Tasks, NEW r \in holds[t], RplRdv(t, r)
      PROVE  NoneMeet(rtcb)'
  <2>0. PICK c \in Tasks : c = r[1]
    BY DEF Numbered
  <2>1. rtcb' = [rtcb EXCEPT ![c] = Ready(@)] \/ rtcb' = rtcb
    BY <1>6, <2>0 DEF RplRdv
  <2>. HIDE DEF Ready
  <2>2. \A u \in Tasks : rtcb'[u] = rtcb[u] \/ rtcb'[u].state = "READY"
    BY <1>0, <2>1
  <2>. QED  BY <2>2, LeaveMeet
<1>7. ASSUME NEW t \in Tasks, RelWai(t)
      PROVE  NoneMeet(rtcb)'
  <2>1. rtcb' = [rtcb EXCEPT ![t] = Ready(@)]
    BY <1>7 DEF RelWai
  <2>. HIDE DEF Ready
  <2>2. \A u \in Tasks : rtcb'[u] = rtcb[u] \/ rtcb'[u].state = "READY"
    BY <1>0, <2>1
  <2>. QED  BY <2>2, LeaveMeet
<1>8. ASSUME NEW t \in Tasks, NEW wait \in Waits, DisWaiRdv(t, wait)
      PROVE  NoneMeet(rtcb)'
  <2>1. \/ rtcb' = [rtcb EXCEPT ![t] = [Ready(@) EXCEPT !.mask = {wait}]]
        \/ rtcb' = [rtcb EXCEPT ![t].mask = {wait}]
    BY <1>8 DEF DisWaiRdv
  <2>2. [Ready(rtcb[t]) EXCEPT !.mask = {wait}].state = "READY"
    BY <1>0 DEF Ready, TcbOK, TcbFields
  <2>. HIDE DEF Ready
  <2>3. \A u \in Tasks : u # t => rtcb'[u] = rtcb[u]
    BY <1>0, <2>1
  <2>4. \/ rtcb'[t].state = "READY"
        \/ rtcb'[t].state = rtcb[t].state /\ rtcb'[t].wid = rtcb[t].wid /\ rtcb'[t].ptn = rtcb[t].ptn
    BY <1>0, <2>1, <2>2 DEF TcbOK, TcbFields
  <2>. QED  BY <2>3, <2>4, LeaveMeet
<1>9. ASSUME NEW t \in Tasks, EnaWaiRdv(t) \/ \E p \in Pri : ChgPriRdv(t, p)
      PROVE  NoneMeet(rtcb)'
  <2>1. rtcb' = [rtcb EXCEPT ![t].mask = {}] \/ \E p \in Pri : rtcb' = [rtcb EXCEPT ![t].pri = p]
    BY <1>9 DEF EnaWaiRdv, ChgPriRdv
  <2>2. \A u \in Tasks : rtcb'[u].state = rtcb[u].state /\ rtcb'[u].wid = rtcb[u].wid /\ rtcb'[u].ptn = rtcb[u].ptn
    BY <1>0, <2>1 DEF TcbOK, TcbFields
  <2>. QED  BY <2>2, LeaveMeet
<1>10. ASSUME NEW t \in Tasks, RestartTsk(t)
       PROVE  NoneMeet(rtcb)'
  <2>1. rtcb' = [rtcb EXCEPT ![t] = [Ready(@) EXCEPT !.mask = {}, !.pri = INI_PRI]]
    BY <1>10 DEF RestartTsk
  <2>2. [Ready(rtcb[t]) EXCEPT !.mask = {}, !.pri = INI_PRI].state = "READY"
    BY <1>0 DEF Ready, TcbOK, TcbFields
  <2>. HIDE DEF Ready
  <2>3. \A u \in Tasks : rtcb'[u] = rtcb[u] \/ rtcb'[u].state = "READY"
    BY <1>0, <2>1, <2>2
  <2>. QED  BY <2>3, LeaveMeet
<1>. QED  BY <1>1, <1>2, <1>3, <1>4, <1>5, <1>6, <1>7, <1>8, <1>9, <1>10 DEF PorNext

\* A call on a task brings nobody into the queue.
LEMMA CallQueue ==
  ASSUME GcbOK, GcbOK', NEW t \in Tasks, WaitCall(t) \/ TerTsk(t)
  PROVE  /\ ToSet(wait_queue') \subseteq ToSet(wait_queue)
         /\ wait_queue = <<>> => wait_queue' = <<>>
         /\ UNCHANGED gcb
<1>1. \A u \in Tasks : state'[u] = "WAIT" => state[u] = "WAIT"
  BY CallWaits
<1>2. /\ \A u \in Tasks : u \in ToSet(wait_queue) <=> state[u] = "WAIT"
      /\ \A u \in Tasks : u \in ToSet(wait_queue') <=> state'[u] = "WAIT"
      /\ wait_queue' \in Seq(Tasks)
  BY DEF GcbOK, Current, Exact
<1>3. ToSet(wait_queue') \subseteq Tasks
  BY <1>2, MemberPosition
<1>4. wait_queue = <<>> => wait_queue' = <<>>
  <2>1. wait_queue = <<>> => ToSet(wait_queue') = {}
    <3>1. ToSet(<<>>) = {}
      BY DEF ToSet
    <3>. QED  BY <1>1, <1>2, <1>3, <3>1
  <2>2. wait_queue' # <<>> => Head(wait_queue') \in ToSet(wait_queue')
    BY <1>2, MemberPosition
  <2>. QED  BY <2>1, <2>2
<1>5. UNCHANGED gcb
  BY DEF WaitCall, WaitReleaseNg, DisWai, EnaWai, StaTsk, ChgPri, TerTsk, gcb
<1>. QED  BY <1>1, <1>2, <1>3, <1>4, <1>5

\* Every call of the mailbox.
LEMMA MbxServed ==
  ASSUME GcbOK, GcbOK', NobodyWaitsForMessage, MbxNext
  PROVE  NobodyWaitsForMessage'
<1>1. ASSUME NEW atr \in Attributes, NEW mp \in BOOLEAN, CreMbx(atr, mp)
      PROVE  NobodyWaitsForMessage'
  BY <1>1 DEF CreMbx, NobodyWaitsForMessage
<1>2. CASE DelMbx
  BY <1>2 DEF DelMbx, wait_delete, GcbOK, NobodyWaitsForMessage
<1>3. ASSUME NEW m \in Msgs, SndMbx(m)
      PROVE  NobodyWaitsForMessage'
  BY <1>3 DEF SndMbx, isQueEmpty, mbx, NobodyWaitsForMessage
<1>4. ASSUME NEW t \in Tasks, RcvMbx(t)
      PROVE  NobodyWaitsForMessage'
  BY <1>4 DEF RcvMbx, has_message, tasks, mbx, NobodyWaitsForMessage
<1>5. ASSUME NEW t \in Tasks, MbxTaskCall(t)
      PROVE  NobodyWaitsForMessage'
  BY <1>5, CallQueue DEF MbxTaskCall, mbx, NobodyWaitsForMessage
<1>. QED  BY <1>1, <1>2, <1>3, <1>4, <1>5 DEF MbxNext

\* The fixed-size pool: its blocks, and what holds while a call has let interrupts
\* in between its two steps.  A call that will wait has found no block, and none
\* comes back before it waits; a call that puts a block back has found nobody
\* waiting, and nobody begins to wait before the block is back.
MpfOK ==
    /\ MpfTypeOK /\ PoolExact /\ NobodyWaitsForBlock
    /\ lock # NULL /\ blf = NULL => frbcnt = 0
    /\ blf # NULL => lock # NULL /\ wait_queue = <<>>

\* Every call of the fixed-size pool, step by step.
LEMMA MpfServed ==
  ASSUME GcbOK, GcbOK', LockedExists, MpfOK, MpfNext
  PROVE  MpfOK'
<1>0. /\ mpfcnt \in 0..MaxBlocks /\ frbcnt \in 0..mpfcnt /\ unused \in 0..mpfcnt /\ MaxBlocks \in Nat \ {0}
      /\ freelist \in Seq(0..MaxBlocks - 1) /\ held \subseteq 0..MaxBlocks - 1
      /\ blf \in (0..MaxBlocks - 1) \cup {NULL} /\ NULL \notin Nat /\ NULL \notin Tasks
      /\ lock \in Tasks \cup {NULL}
  BY ObjectAssumption, PoolAssumption DEF MpfOK, MpfTypeOK
<1>e. ToSet(<<>>) = {} /\ IsInjective(<<>>)
  BY DEF ToSet, IsInjective
<1>x. ASSUME objid
      PROVE  /\ IsInjective(freelist) /\ frbcnt = Len(freelist) + mpfcnt - unused
             /\ ToSet(freelist) \cap held = {} /\ blf \notin ToSet(freelist) \cup held
             /\ ToSet(freelist) \cup held \cup ({blf} \ {NULL}) = 0..unused - 1
  BY <1>x DEF MpfOK, PoolExact
<1>1. ASSUME NEW atr \in Attributes, NEW cnt \in 1..MaxBlocks, CreMpf(atr, cnt)
      PROVE  MpfOK'
  <2>1. /\ lock = NULL /\ objid' = TRUE /\ wait_queue' = wait_queue /\ wait_queue = <<>>
        /\ mpfcnt' = cnt /\ frbcnt' = cnt /\ unused' = 0 /\ freelist' = <<>> /\ held' = {}
        /\ lock' = lock /\ blf' = blf
    BY <1>1 DEF CreMpf, create, tasks, call, GcbOK
  <2>2. blf = NULL
    BY <2>1 DEF MpfOK
  <2>3. MpfTypeOK'
    BY <1>0, <2>1 DEF MpfTypeOK
  <2>4. PoolExact'
    BY <1>0, <1>e, <2>1, <2>2 DEF PoolExact
  <2>. QED  BY <2>1, <2>2, <2>3, <2>4 DEF MpfOK, NobodyWaitsForBlock
<1>2. ASSUME NEW t \in Tasks, DelMpf(t)
      PROVE  MpfOK'
  <2>1. /\ lock = NULL /\ objid' = FALSE /\ UNCHANGED <<mpfcnt, frbcnt, unused, freelist, held, lock, blf>>
    BY <1>2 DEF DelMpf, LockOBJ, wait_delete, mpf, call
  <2>2. wait_queue' = <<>> /\ blf = NULL
    BY <2>1 DEF GcbOK, MpfOK
  <2>. QED  BY <2>1, <2>2 DEF MpfOK, MpfTypeOK, PoolExact, NobodyWaitsForBlock
<1>3. ASSUME NEW t \in Tasks, GetMpf(t)
      PROVE  MpfOK'
  <2>1. lock = NULL /\ blf = NULL /\ objid /\ UNCHANGED <<objid, wait_queue>>
    BY <1>3 DEF GetMpf, LockOBJ, MpfOK, gcb, tasks
  <2>2. CASE frbcnt > 0
    <3>1. take_block /\ frbcnt' = frbcnt - 1 /\ UNCHANGED <<mpfcnt, lock, blf>> /\ wait_queue = <<>>
      BY <1>0, <1>3, <2>2 DEF GetMpf, call, MpfOK, NobodyWaitsForBlock
    <3>2. CASE freelist # <<>>
      <4>1. freelist' = Tail(freelist) /\ held' = held \cup {Head(freelist)} /\ unused' = unused
        BY <3>1, <3>2 DEF take_block
      <4>2. /\ Tail(freelist) \in Seq(0..MaxBlocks - 1) /\ ToSet(Tail(freelist)) = ToSet(freelist) \ {Head(freelist)}
            /\ IsInjective(Tail(freelist)) /\ Head(freelist) \in ToSet(freelist) /\ Head(freelist) \in 0..MaxBlocks - 1
        BY <1>0, <1>x, <2>1, <3>2, QueRemoveNextProperties DEF QueRemoveNext
      <4>3. Len(Tail(freelist)) = Len(freelist) - 1
        BY <1>0, <3>2, HeadTailProperties
      <4>4. MpfTypeOK'
        <5>1. frbcnt' \in 0..mpfcnt /\ held' \subseteq 0..MaxBlocks - 1
          <6>1. frbcnt' \in 0..mpfcnt
            BY <1>0, <2>2, <3>1
          <6>2. held' \subseteq 0..MaxBlocks - 1
            BY <1>0, <4>1, <4>2
          <6>. QED  BY <6>1, <6>2
        <5>2. freelist' \in Seq(0..MaxBlocks - 1)
          BY <4>1, <4>2
        <5>. QED  BY <1>0, <3>1, <4>1, <5>1, <5>2 DEF MpfTypeOK
      <4>5. PoolExact'
        <5>1. frbcnt' = Len(freelist') + mpfcnt' - unused'
          <6>1. Len(freelist) \in Nat
            BY <1>0, LenProperties
          <6>. QED  BY <1>0, <1>x, <2>1, <3>1, <4>1, <4>3, <6>1
        <5>2. ToSet(freelist') \cup held' = ToSet(freelist) \cup held
          BY <4>1, <4>2
        <5>. QED  BY <1>x, <2>1, <3>1, <4>1, <4>2, <5>1, <5>2 DEF PoolExact
      <4>. QED  BY <2>1, <3>1, <4>4, <4>5 DEF MpfOK, NobodyWaitsForBlock
    <3>3. CASE freelist = <<>>
      <4>1. freelist' = freelist /\ held' = held \cup {unused} /\ unused' = unused + 1
        BY <3>1, <3>3 DEF take_block
      <4>2. unused < mpfcnt
        BY <1>0, <1>x, <2>1, <2>2, <3>3
      <4>3. MpfTypeOK'
        BY <1>0, <2>2, <3>1, <4>1, <4>2 DEF MpfTypeOK
      <4>4. PoolExact'
        <5>1. frbcnt' = Len(freelist') + mpfcnt' - unused'
          BY <1>0, <1>x, <2>1, <3>1, <3>3, <4>1
        <5>2. held = 0..unused - 1
          BY <1>e, <1>x, <2>1, <3>3
        <5>3. held' = 0..unused' - 1
          BY <1>0, <4>1, <5>2
        <5>4. blf' \notin held'
          BY <1>0, <2>1, <3>1, <5>3
        <5>. QED  BY <1>e, <2>1, <3>1, <3>3, <4>1, <5>1, <5>3, <5>4 DEF PoolExact
      <4>. QED  BY <2>1, <3>1, <4>3, <4>4 DEF MpfOK, NobodyWaitsForBlock
    <3>. QED  BY <3>2, <3>3
  <2>3. CASE frbcnt <= 0
    <3>1. lock' = t /\ blf' = NULL /\ UNCHANGED <<mpfcnt, frbcnt, unused, freelist, held>>
      BY <1>0, <1>3, <2>3 DEF GetMpf, mpf
    <3>. QED  BY <1>0, <2>1, <2>3, <3>1 DEF MpfOK, MpfTypeOK, PoolExact, NobodyWaitsForBlock
  <2>. QED  BY <1>0, <2>2, <2>3
<1>4. ASSUME NEW t \in Tasks, WaitMpf(t)
      PROVE  MpfOK'
  <2>1. /\ lock = t /\ blf = NULL /\ lock' = NULL /\ UNCHANGED <<objid, mpfcnt, frbcnt, unused, freelist, held, blf>>
    BY <1>4 DEF WaitMpf, gcb, mpf
  <2>2. frbcnt = 0
    BY <1>0, <2>1 DEF MpfOK
  <2>. QED  BY <2>1, <2>2 DEF MpfOK, MpfTypeOK, PoolExact, NobodyWaitsForBlock
<1>5. ASSUME NEW t \in Tasks, NEW b \in held, RelMpf(t, b)
      PROVE  MpfOK'
  <2>1. lock = NULL /\ blf = NULL /\ objid /\ UNCHANGED objid /\ b \in Nat /\ b \in 0..MaxBlocks - 1
    BY <1>0, <1>5 DEF RelMpf, LockOBJ, MpfOK, gcb
  <2>2. CASE wait_queue # <<>>
    <3>1. UNCHANGED <<mpfcnt, frbcnt, unused, freelist, held, lock, blf>>
      BY <1>5, <2>2 DEF RelMpf, isQueEmpty, mpf, call
    <3>. QED  BY <2>1, <2>2, <3>1 DEF MpfOK, MpfTypeOK, PoolExact, NobodyWaitsForBlock
  <2>3. CASE wait_queue = <<>>
    <3>1. /\ lock' = t /\ blf' = b /\ held' = held \ {b}
          /\ UNCHANGED <<mpfcnt, frbcnt, unused, freelist, wait_queue>>
      BY <1>5, <2>3 DEF RelMpf, isQueEmpty
    <3>2. MpfTypeOK'
      BY <1>0, <2>1, <3>1 DEF MpfTypeOK
    <3>3. PoolExact'
      <4>1. ToSet(freelist) \cup held' \cup ({blf'} \ {NULL}) = ToSet(freelist) \cup held
        BY <1>0, <2>1, <3>1
      <4>. QED  BY <1>x, <2>1, <3>1, <4>1 DEF PoolExact
    <3>. QED  BY <1>0, <2>1, <2>3, <3>1, <3>2, <3>3 DEF MpfOK, NobodyWaitsForBlock
  <2>. QED  BY <2>2, <2>3
<1>6. ASSUME NEW t \in Tasks, FreeMpf(t)
      PROVE  MpfOK'
  <2>1. /\ lock = t /\ blf # NULL /\ freelist' = <<blf>> \o freelist /\ frbcnt' = frbcnt + 1
        /\ lock' = NULL /\ blf' = NULL /\ UNCHANGED <<objid, wait_queue, mpfcnt, unused, held>>
    BY <1>6 DEF FreeMpf, gcb, tasks
  <2>2. objid /\ wait_queue = <<>> /\ blf \in 0..MaxBlocks - 1
    BY <1>0, <2>1 DEF LockedExists, MpfOK
  <2>3. /\ blf \in 0..unused - 1 /\ ToSet(freelist) \subseteq 0..unused - 1 /\ blf \notin ToSet(freelist)
        /\ blf \notin held
    BY <1>x, <2>1, <2>2
  <2>4. Len(freelist) <= unused - 1 /\ Len(freelist) \in Nat
    <3>1. freelist \in Seq(Nat) /\ unused \in Nat
      BY <1>0, ElementOfSeq, SeqDef
    <3>2. Len(freelist) \in Nat
      BY <3>1, LenProperties
    <3>. QED  BY <1>x, <2>2, <2>3, <3>1, <3>2, FreeListLength
  <2>5. /\ freelist' \in Seq(0..MaxBlocks - 1) /\ Len(freelist') = Len(freelist) + 1
        /\ ToSet(freelist') = ToSet(freelist) \cup {blf} /\ IsInjective(freelist')
    BY <1>0, <1>x, <2>1, <2>2, <2>3, QueInsertTopProperties DEF QueInsertTop
  <2>6. frbcnt' \in 0..mpfcnt' /\ frbcnt' = Len(freelist') + mpfcnt' - unused'
    <3>1. frbcnt = Len(freelist) + mpfcnt - unused
      BY <1>x, <2>2
    <3>2. mpfcnt \in Nat /\ unused \in Nat /\ frbcnt \in Nat /\ mpfcnt' = mpfcnt /\ unused' = unused
      BY <1>0, <2>1
    <3>. QED  BY <2>1, <2>4, <2>5, <3>1, <3>2
  <2>7. MpfTypeOK'
    BY <1>0, <2>1, <2>5, <2>6 DEF MpfTypeOK
  <2>8. PoolExact'
    <3>1. ToSet(freelist') \cup held' \cup ({blf'} \ {NULL}) = ToSet(freelist) \cup held \cup ({blf} \ {NULL})
      BY <2>1, <2>5
    <3>2. blf' \notin ToSet(freelist') \cup held'
      <4>1. NULL \notin 0..MaxBlocks - 1 /\ ToSet(freelist) \subseteq 0..MaxBlocks - 1
        BY <1>0, MemberPosition
      <4>. QED  BY <1>0, <2>1, <2>2, <2>5, <4>1
    <3>. QED  BY <1>x, <2>1, <2>2, <2>3, <2>5, <2>6, <3>1, <3>2 DEF PoolExact
  <2>. QED  BY <2>1, <2>2, <2>7, <2>8 DEF MpfOK, NobodyWaitsForBlock
<1>7. ASSUME NEW t \in Tasks, MpfTaskCall(t)
      PROVE  MpfOK'
  <2>1. WaitCall(t) \/ TerTsk(t)
    BY <1>7 DEF MpfTaskCall
  <2>2. UNCHANGED <<objid, mpfcnt, frbcnt, unused, freelist, held, lock, blf>> /\ (wait_queue = <<>> => wait_queue' = <<>>)
    BY <1>7, <2>1, CallQueue DEF MpfTaskCall, mpf, call, gcb
  <2>. QED  BY <2>2 DEF MpfOK, MpfTypeOK, PoolExact, NobodyWaitsForBlock
<1>. QED  BY <1>1, <1>2, <1>3, <1>4, <1>5, <1>6, <1>7 DEF MpfNext

-----------------------------------------------------------------------------
(* The event flag: the loop of tk_set_flg.                                 *)

Wants   == [waiptn : SUBSET Bits, wfmode : WfMode]
Givings == [task : Tasks, ptn : SUBSET Bits, want : Wants]
FlgRuns == [ptn : SUBSET Bits, given : Seq(Givings)]

\* One turn.
LEMMA FlgTurn ==
  ASSUME waiflg \in [Tasks -> Wants], NEW r \in FlgRuns, NEW t \in Tasks
  PROVE  flg_release(r, t) \in FlgRuns
<1>. DEFINE w == waiflg[t]
            g == [task |-> t, ptn |-> r.ptn, want |-> w]
            p == clear(r.ptn, w.waiptn, w.wfmode)
<1>1. w \in Wants /\ r.ptn \in SUBSET Bits /\ r.given \in Seq(Givings)
  BY DEF FlgRuns
<1>2. g \in Givings
  BY <1>1 DEF Givings
<1>3. p \in SUBSET Bits
  BY <1>1 DEF clear
<1>. HIDE DEF w, g, p
<1>4. Append(r.given, g) \in Seq(Givings)
  BY <1>1, <1>2, AppendProperties
<1>5. [ptn |-> p, given |-> Append(r.given, g)] \in FlgRuns
  BY <1>3, <1>4 DEF FlgRuns
<1>. QED  BY <1>5 DEF flg_release, w, g, p

\* f goes through the turns of the loop.
FlgTurns(q, k, f) == f[0] = k /\ \A n \in 1..Len(q) : f[n] = flg_release(f[n - 1], q[n])

\* The loop does.
LEMMA FlgTurnsExist ==
  ASSUME waiflg \in [Tasks -> Wants], NEW q \in Seq(Tasks), NEW k \in FlgRuns
  PROVE  \E f : FlgTurns(q, k, f) /\ Loop(q, k, flg_release) = f[Len(q)]
<1>. DEFINE N == Len(q)
            step == [p \in (1..N) \X FlgRuns |-> flg_release(p[2], q[p[1]])]
            after == CHOOSE after : after = [n \in 0..Len(q) |-> IF n = 0 THEN k
                                                                 ELSE flg_release(after[n - 1], q[n])]
<1>1. N \in Nat /\ \A n \in 1..N : q[n] \in Tasks
  BY LenProperties, ElementOfSeq
<1>2. step \in [(1..N) \X FlgRuns -> FlgRuns]
  <2>. HIDE DEF flg_release
  <2>1. \A p \in (1..N) \X FlgRuns : flg_release(p[2], q[p[1]]) \in FlgRuns
    BY <1>1, FlgTurn
  <2>. QED  BY <2>1
<1>3. Loop(q, k, flg_release) = after[Len(q)]
  BY DEF Loop
<1>. HIDE DEF N, step, flg_release, after
<1>4. PICK g : Solves(g, N, FlgRuns, k, step)
  <2>1. Recursion(N, FlgRuns, k, step)
    BY <1>1, <1>2 DEF Recursion
  <2>. QED  BY <2>1, RecursionExists
<1>5. \A n \in 1..N : g[n] = flg_release(g[n - 1], q[n])
  <2>. SUFFICES ASSUME NEW n \in 1..N  PROVE g[n] = flg_release(g[n - 1], q[n])
    OBVIOUS
  <2>1. n - 1 \in 0..N
    BY <1>1
  <2>2. g[n - 1] \in FlgRuns
    BY <1>4, <2>1 DEF Solves
  <2>3. step[<<n, g[n - 1]>>] = flg_release(g[n - 1], q[n])
    BY <2>2 DEF step
  <2>. QED  BY <1>4, <2>3 DEF Solves
<1>6. g = [n \in 0..N |-> IF n = 0 THEN k ELSE flg_release(g[n - 1], q[n])]
  <2>. DEFINE h == [n \in 0..N |-> IF n = 0 THEN k ELSE flg_release(g[n - 1], q[n])]
  <2>0. g \in [0..N -> FlgRuns]
    BY <1>4 DEF Solves
  <2>1. ASSUME NEW n \in 0..N  PROVE g[n] = h[n]
    <3>1. n = 0 \/ n \in 1..N
      BY <1>1
    <3>. QED  BY <3>1, <1>4, <1>5 DEF Solves
  <2>. QED  BY <2>0, <2>1
<1>7. after = [n \in 0..N |-> IF n = 0 THEN k ELSE flg_release(after[n - 1], q[n])]
  BY <1>6, Zenon DEF after, N
<1>8. after[0] = k /\ \A n \in 1..N : after[n] = flg_release(after[n - 1], q[n])
  <2>1. 0 \in 0..N /\ \A n \in 1..N : n \in 0..N /\ n # 0
    BY <1>1
  <2>. QED  BY <1>7, <2>1
<1>. QED  BY <1>3, <1>8 DEF FlgTurns, N

\* EachEventOnce of what the tasks were told and what is left.
Gone(w) == IF w.wfmode.clr THEN Bits ELSE IF w.wfmode.bitclr THEN w.waiptn ELSE {}

Once(gv, ptn) ==
    \A i \in DOMAIN gv : /\ eventflag_cond(gv[i].ptn, gv[i].want.waiptn, gv[i].want.wfmode)
                         /\ Gone(gv[i].want) \cap ptn = {}
                         /\ \A j \in DOMAIN gv : i < j => Gone(gv[i].want) \cap gv[j].ptn = {}

\* Who was told something.
Told(gv) == {gv[i].task : i \in DOMAIN gv}

Unmet(t, ptn) == ~eventflag_cond(ptn, waiflg[t].waiptn, waiflg[t].wfmode)

\* A pattern with fewer bits meets no condition that it did not meet before.
LEMMA UnmetShrinks ==
  ASSUME NEW t, NEW p, NEW less, less \subseteq p, Unmet(t, p)
  PROVE  Unmet(t, less)
BY DEF Unmet, eventflag_cond

\* What a satisfied wait leaves is not what it asked to be cleared.
LEMMA ClearGone ==
  ASSUME NEW p \in SUBSET Bits, NEW w \in Wants
  PROVE  /\ clear(p, w.waiptn, w.wfmode) \subseteq p
         /\ Gone(w) \cap clear(p, w.waiptn, w.wfmode) = {}
BY DEF clear, Gone, Wants

\* One turn: the pattern shrinks, and the task is told it or its condition is not met.
LEMMA FlgTurnOnce ==
  ASSUME waiflg \in [Tasks -> Wants], NEW r \in FlgRuns, NEW t \in Tasks, Once(r.given, r.ptn)
  PROVE  LET s == flg_release(r, t)
         IN  /\ s.ptn \subseteq r.ptn /\ Told(r.given) \subseteq Told(s.given)
             /\ t \in Told(s.given) \/ Unmet(t, s.ptn)
             /\ Told(s.given) \subseteq Told(r.given) \cup {t}
             /\ Once(s.given, s.ptn)
<1>. DEFINE s == flg_release(r, t)
            w == waiflg[t]
            g == [task |-> t, ptn |-> r.ptn, want |-> w]
            p == clear(r.ptn, w.waiptn, w.wfmode)
            n == Len(r.given)
<1>1. w \in Wants /\ r.ptn \in SUBSET Bits /\ r.given \in Seq(Givings)
  BY DEF FlgRuns
<1>2. CASE ~eventflag_cond(r.ptn, w.waiptn, w.wfmode)
  <2>1. s = r
    BY <1>2 DEF flg_release
  <2>2. Unmet(t, r.ptn)
    BY <1>2 DEF Unmet
  <2>. HIDE DEF s
  <2>3. /\ s.ptn \subseteq r.ptn /\ Told(r.given) \subseteq Told(s.given)
        /\ t \in Told(s.given) \/ Unmet(t, s.ptn)
        /\ Told(s.given) \subseteq Told(r.given) \cup {t}
        /\ Once(s.given, s.ptn)
    BY <2>1, <2>2
  <2>. QED  BY <2>3 DEF s
<1>3. CASE eventflag_cond(r.ptn, w.waiptn, w.wfmode)
  <2>1. s.ptn = p /\ s.given = Append(r.given, g)
    BY <1>3 DEF flg_release
  <2>2. p \subseteq r.ptn /\ Gone(w) \cap p = {}
    BY <1>1, ClearGone
  <2>3. g.task = t /\ g.ptn = r.ptn /\ g.want = w
    OBVIOUS
  <2>g. g \in Givings
    BY <1>1 DEF Givings
  <2>. HIDE DEF s, w, g, p
  <2>4. /\ n \in Nat /\ DOMAIN r.given = 1..n /\ DOMAIN s.given = 1..n + 1
        /\ \A i \in 1..n : s.given[i] = r.given[i]
        /\ s.given[n + 1] = g
    BY <1>1, <2>1, <2>g, AppendProperties, LenProperties
  <2>. HIDE DEF n
  <2>5. Told(s.given) = Told(r.given) \cup {t}
    <3>1. \A i \in 1..n + 1 : i \in 1..n \/ i = n + 1
      BY <2>4
    <3>2. \A i \in 1..n : i \in 1..n + 1
      BY <2>4
    <3>3. n + 1 \in 1..n + 1
      BY <2>4
    <3>. QED  BY <2>3, <2>4, <3>1, <3>2, <3>3 DEF Told
  <2>6. Once(s.given, s.ptn)
    <3>. SUFFICES ASSUME NEW i \in 1..n + 1
                  PROVE  /\ eventflag_cond(s.given[i].ptn, s.given[i].want.waiptn, s.given[i].want.wfmode)
                         /\ Gone(s.given[i].want) \cap s.ptn = {}
                         /\ \A j \in 1..n + 1 : i < j => Gone(s.given[i].want) \cap s.given[j].ptn = {}
      BY <2>4 DEF Once
    <3>1. CASE i = n + 1
      <4>1. \A j \in 1..n + 1 : ~(i < j)
        BY <2>4, <3>1
      <4>. QED  BY <1>3, <2>1, <2>2, <2>3, <2>4, <3>1, <4>1
    <3>2. CASE i # n + 1
      <4>1. i \in 1..n /\ s.given[i] = r.given[i]
        BY <2>4, <3>2
      <4>2. /\ eventflag_cond(r.given[i].ptn, r.given[i].want.waiptn, r.given[i].want.wfmode)
            /\ Gone(r.given[i].want) \cap r.ptn = {}
            /\ \A j \in 1..n : i < j => Gone(r.given[i].want) \cap r.given[j].ptn = {}
        BY <2>4, <4>1 DEF Once
      <4>3. Gone(r.given[i].want) \cap s.ptn = {}
        BY <2>1, <2>2, <4>2
      <4>4. ASSUME NEW j \in 1..n + 1, i < j
            PROVE  Gone(r.given[i].want) \cap s.given[j].ptn = {}
        <5>1. j \in 1..n \/ j = n + 1
          BY <2>4
        <5>. QED  BY <2>3, <2>4, <4>2, <4>4, <5>1
      <4>. QED  BY <4>1, <4>2, <4>3, <4>4
    <3>. QED  BY <3>1, <3>2
  <2>7. /\ s.ptn \subseteq r.ptn /\ Told(r.given) \subseteq Told(s.given)
        /\ t \in Told(s.given) \/ Unmet(t, s.ptn)
        /\ Told(s.given) \subseteq Told(r.given) \cup {t}
        /\ Once(s.given, s.ptn)
    BY <2>1, <2>2, <2>5, <2>6
  <2>. QED  BY <2>7 DEF s
<1>. QED  BY <1>2, <1>3

\* The whole loop: who is left waiting is not met by the pattern that is left.
LEMMA FlgLoop ==
  ASSUME waiflg \in [Tasks -> Wants], NEW q \in Seq(Tasks), NEW p0 \in SUBSET Bits
  PROVE  LET r == Loop(q, [ptn |-> p0, given |-> <<>>], flg_release)
         IN  /\ r \in FlgRuns /\ Once(r.given, r.ptn)
             /\ Told(r.given) \subseteq ToSet(q)
             /\ \A t \in ToSet(q) : t \in Told(r.given) \/ Unmet(t, r.ptn)
<1>. DEFINE k == [ptn |-> p0, given |-> <<>>]
<1>1. k \in FlgRuns /\ k.given = <<>>
  BY DEF FlgRuns
<1>. HIDE DEF k
<1>2. PICK f : FlgTurns(q, k, f) /\ Loop(q, k, flg_release) = f[Len(q)]
  BY <1>1, FlgTurnsExist
<1>. DEFINE N == Len(q)
            Good(n) == /\ f[n] \in FlgRuns /\ Once(f[n].given, f[n].ptn)
                       /\ Told(f[n].given) \subseteq ToSet(q)
                       /\ \A j \in 1..n : q[j] \in Told(f[n].given) \/ Unmet(q[j], f[n].ptn)
            P == {n \in Nat : n <= N => Good(n)}
<1>3. N \in Nat /\ \A i \in 1..N : q[i] \in ToSet(q) /\ q[i] \in Tasks
  BY MemberPosition
<1>4. f[0] = k /\ \A n \in 1..N : f[n] = flg_release(f[n - 1], q[n])
  BY <1>2 DEF FlgTurns
<1>5. 0 \in P
  <2>1. Once(<<>>, k.ptn) /\ Told(<<>>) = {}
    BY DEF Once, Told
  <2>2. Good(0)
    BY <1>1, <1>4, <2>1
  <2>. QED  BY <2>2
<1>6. ASSUME NEW n \in Nat, n \in P  PROVE n + 1 \in P
  <2>. SUFFICES ASSUME n + 1 <= N  PROVE Good(n + 1)
    OBVIOUS
  <2>1. Good(n) /\ n + 1 \in 1..N /\ (n + 1) - 1 = n
    BY <1>3, <1>6
  <2>. DEFINE r == f[n]
              s == f[n + 1]
              t == q[n + 1]
  <2>2. s = flg_release(r, t) /\ t \in Tasks /\ t \in ToSet(q)
    BY <1>3, <1>4, <2>1
  <2>3. r \in FlgRuns /\ Once(r.given, r.ptn) /\ Told(r.given) \subseteq ToSet(q)
        /\ \A j \in 1..n : q[j] \in Told(r.given) \/ Unmet(q[j], r.ptn)
    BY <2>1
  <2>. HIDE DEF r, s, t
  <2>4. /\ s \in FlgRuns
        /\ s.ptn \subseteq r.ptn /\ Told(r.given) \subseteq Told(s.given)
        /\ t \in Told(s.given) \/ Unmet(t, s.ptn)
        /\ Told(s.given) \subseteq Told(r.given) \cup {t}
        /\ Once(s.given, s.ptn)
    BY <2>2, <2>3, FlgTurn, FlgTurnOnce
  <2>5. ASSUME NEW j \in 1..n + 1  PROVE q[j] \in Told(s.given) \/ Unmet(q[j], s.ptn)
    <3>1. CASE j = n + 1
      BY <2>4, <3>1 DEF t
    <3>2. CASE j # n + 1
      <4>1. j \in 1..n
        BY <3>2
      <4>. QED  BY <2>3, <2>4, <4>1, UnmetShrinks
    <3>. QED  BY <3>1, <3>2
  <2>6. Told(s.given) \subseteq ToSet(q)
    BY <2>2, <2>3, <2>4
  <2>. QED  BY <2>4, <2>5, <2>6 DEF s
<1>. HIDE DEF P
<1>7. Nat \subseteq P
  BY <1>5, <1>6, SetInduction
<1>8. Good(N)
  BY <1>3, <1>7 DEF P
<1>9. \A t \in ToSet(q) : t \in Told(f[N].given) \/ Unmet(t, f[N].ptn)
  BY <1>8, MemberPosition
<1>. QED  BY <1>2, <1>8, <1>9 DEF k

\* The event flag: the types, and what the model asks for.
FlgOK ==
    /\ FlgTypeOK /\ Once(given, flgptn)
    /\ \A t \in ToSet(wait_queue) : Unmet(t, flgptn)

\* It says what the runs check.
LEMMA FlgExact ==
  ASSUME FlgOK
  PROVE  NobodyMet /\ EachEventOnce
BY DEF FlgOK, NobodyMet, EachEventOnce, Unmet, Once, Gone

\* The tasks of the queue waited before, with the same conditions, and the pattern
\* has no new bits.
LEMMA FlgKept ==
  ASSUME FlgOK, GcbOK, GcbOK', Waiting(waiflg), flgptn' \subseteq flgptn,
         \A u \in Tasks : state'[u] = "WAIT" => state[u] = "WAIT"
  PROVE  /\ waiflg' \in [Tasks -> Wants]
         /\ \A t \in ToSet(wait_queue') : Unmet(t, flgptn)'
<1>1. /\ \A u \in Tasks : u \in ToSet(wait_queue) <=> state[u] = "WAIT"
      /\ \A u \in Tasks : u \in ToSet(wait_queue') <=> state'[u] = "WAIT"
      /\ ToSet(wait_queue') \subseteq Tasks
  BY MemberPosition DEF GcbOK, Current, Exact
<1>2. waiflg' = [t \in Tasks |-> IF state'[t] = "WAIT" THEN waiflg[t] ELSE NoWait]
  BY DEF Waiting
<1>3. NoWait \in Wants /\ waiflg \in [Tasks -> Wants]
  BY DEF NoWait, Wants, WfMode, FlgOK, FlgTypeOK
<1>4. ASSUME NEW t \in ToSet(wait_queue')
      PROVE  ~eventflag_cond(flgptn', waiflg'[t].waiptn, waiflg'[t].wfmode)
  <2>1. t \in Tasks /\ t \in ToSet(wait_queue) /\ waiflg'[t] = waiflg[t]
    BY <1>1, <1>2, <1>4
  <2>2. Unmet(t, flgptn)
    BY <2>1 DEF FlgOK
  <2>3. Unmet(t, flgptn')
    BY <2>2, UnmetShrinks
  <2>. QED  BY <2>1, <2>3 DEF Unmet
<1>5. waiflg' \in [Tasks -> Wants]
  BY <1>2, <1>3
<1>. QED  BY <1>4, <1>5 DEF Unmet

\* Every call of the event flag.
LEMMA FlgServed ==
  ASSUME FlgOK, GcbOK, GcbOK', FlgNext
  PROVE  FlgOK'
<1>0. /\ \A u \in Tasks : u \in ToSet(wait_queue) <=> state[u] = "WAIT"
      /\ \A u \in Tasks : u \in ToSet(wait_queue') <=> state'[u] = "WAIT"
      /\ ToSet(wait_queue) \subseteq Tasks /\ ToSet(wait_queue') \subseteq Tasks
      /\ wait_queue \in Seq(Tasks) /\ state \in [Tasks -> {"READY", "WAIT", "RECV", "DORMANT"}]
  BY MemberPosition DEF GcbOK, Current, Exact
<1>t. flgptn \in SUBSET Bits /\ wmul \in BOOLEAN /\ waiflg \in [Tasks -> Wants]
  BY DEF FlgOK, FlgTypeOK, Wants
<1>n. \A x : Once(<<>>, x)
  BY DEF Once
<1>1. ASSUME NEW atr \in Attributes, NEW mul \in BOOLEAN, NEW ptn \in SUBSET Bits, CreFlg(atr, mul, ptn)
      PROVE  FlgOK'
  <2>1. wait_queue' = <<>> /\ wmul' = mul /\ flgptn' = ptn /\ given' = <<>> /\ waiflg' = waiflg
    BY <1>1 DEF CreFlg, create, tasks, GcbOK
  <2>2. ToSet(<<>>) = {}
    BY DEF ToSet
  <2>. QED  BY <1>t, <1>n, <2>1, <2>2 DEF FlgOK, FlgTypeOK, Wants
<1>2. CASE DelFlg
  <2>1. /\ wait_delete /\ Waiting(waiflg) /\ given' = <<>> /\ flgptn' = flgptn /\ wmul' = wmul
    BY <1>2 DEF DelFlg
  <2>2. \A u \in Tasks : state'[u] = "WAIT" => state[u] = "WAIT"
    BY <1>0, <2>1 DEF wait_delete, wait_release_ok
  <2>3. waiflg' \in [Tasks -> Wants] /\ \A t \in ToSet(wait_queue') : Unmet(t, flgptn)'
    BY <2>1, <2>2, FlgKept
  <2>4. Once(given', flgptn')
    BY <1>n, <2>1
  <2>. QED  BY <1>t, <2>1, <2>3, <2>4 DEF FlgOK, FlgTypeOK, Wants
<1>3. ASSUME NEW setptn \in SUBSET Bits, SetFlg(setptn)
      PROVE  FlgOK'
  <2>. DEFINE k == Loop(wait_queue, [ptn |-> flgptn \cup setptn, given |-> <<>>], flg_release)
  <2>1. /\ flgptn' = k.ptn /\ given' = k.given /\ Waiting(waiflg) /\ wmul' = wmul
        /\ wait_release_ok(Told(k.given))
    BY <1>3 DEF SetFlg, Told
  <2>2. /\ k \in FlgRuns /\ Once(k.given, k.ptn)
        /\ \A t \in ToSet(wait_queue) : t \in Told(k.given) \/ Unmet(t, k.ptn)
    <3>1. flgptn \cup setptn \in SUBSET Bits
      BY <1>t
    <3>. QED  BY <1>0, <1>t, <3>1, FlgLoop
  <2>. HIDE DEF k
  <2>3. \A u \in Tasks : state'[u] = "WAIT" => state[u] = "WAIT" /\ u \notin Told(k.given)
    BY <1>0, <2>1 DEF wait_release_ok
  <2>4. waiflg' = [t \in Tasks |-> IF state'[t] = "WAIT" THEN waiflg[t] ELSE NoWait]
    BY <2>1 DEF Waiting
  <2>5. NoWait \in Wants
    BY DEF NoWait, Wants, WfMode
  <2>6. flgptn' \in SUBSET Bits /\ waiflg' \in [Tasks -> Wants]
    BY <1>t, <2>1, <2>2, <2>4, <2>5 DEF FlgRuns
  <2>7. ASSUME NEW t \in ToSet(wait_queue')
        PROVE  ~eventflag_cond(flgptn', waiflg'[t].waiptn, waiflg'[t].wfmode)
    <3>1. t \in ToSet(wait_queue) /\ t \notin Told(k.given) /\ waiflg'[t] = waiflg[t]
      BY <1>0, <2>3, <2>4, <2>7
    <3>. QED  BY <2>1, <2>2, <3>1 DEF Unmet
  <2>8. Once(given', flgptn')
    BY <2>1, <2>2
  <2>. QED  BY <1>t, <2>1, <2>6, <2>7, <2>8 DEF FlgOK, FlgTypeOK, Wants, Unmet
<1>4. ASSUME NEW clrptn \in SUBSET Bits, ClrFlg(clrptn)
      PROVE  FlgOK'
  <2>1. flgptn' = flgptn \cap clrptn /\ given' = <<>> /\ UNCHANGED <<wait_queue, wmul, waiflg>>
    BY <1>4 DEF ClrFlg, tasks
  <2>2. \A t \in ToSet(wait_queue) : Unmet(t, flgptn')
    BY <2>1, UnmetShrinks DEF FlgOK
  <2>3. Once(given', flgptn')
    BY <1>n, <2>1
  <2>. QED  BY <1>t, <2>1, <2>2, <2>3 DEF FlgOK, FlgTypeOK, Wants, Unmet
<1>5. ASSUME NEW t \in Tasks, FlgTaskCall(t)
      PROVE  FlgOK'
  <2>1. /\ WaitCall(t) \/ TerTsk(t)
        /\ Waiting(waiflg) /\ given' = <<>> /\ flgptn' = flgptn /\ wmul' = wmul
    BY <1>5 DEF FlgTaskCall
  <2>2. waiflg' \in [Tasks -> Wants] /\ \A u \in ToSet(wait_queue') : Unmet(u, flgptn)'
    BY <2>1, CallWaits, FlgKept
  <2>3. Once(given', flgptn')
    BY <1>n, <2>1
  <2>. QED  BY <1>t, <2>1, <2>2, <2>3 DEF FlgOK, FlgTypeOK, Wants
<1>6. ASSUME NEW t \in Tasks, NEW waiptn \in SUBSET Bits, NEW wfmode \in Modes, WaiFlg(t, waiptn, wfmode)
      PROVE  FlgOK'
  <2>. DEFINE want == [waiptn |-> waiptn, wfmode |-> wfmode]
  <2>1. want \in Wants /\ want.waiptn = waiptn /\ want.wfmode = wfmode
    BY FlagAssumption DEF Wants
  <2>2. state[t] = "READY" /\ ~is_diswai(t) /\ wmul' = wmul
    BY <1>6 DEF WaiFlg, wai_allowed
  <2>3. CASE eventflag_cond(flgptn, waiptn, wfmode)
    <3>1. /\ flgptn' = clear(flgptn, waiptn, wfmode)
          /\ given' = <<[task |-> t, ptn |-> flgptn, want |-> want]>>
          /\ UNCHANGED <<wait_queue, waiflg>>
      BY <1>6, <2>3 DEF WaiFlg, tasks
    <3>2. flgptn' \subseteq flgptn /\ Gone(want) \cap flgptn' = {}
      BY <1>t, <2>1, <3>1, ClearGone
    <3>3. \A u \in ToSet(wait_queue) : Unmet(u, flgptn')
      BY <3>2, UnmetShrinks DEF FlgOK
    <3>. HIDE DEF want
    <3>4. Once(given', flgptn')
      <4>1. DOMAIN given' = {1} /\ given'[1].ptn = flgptn /\ given'[1].want = want
        BY <3>1
      <4>2. \A i, j \in DOMAIN given' : ~(i < j)
        BY <4>1
      <4>. QED  BY <2>1, <2>3, <3>2, <4>1, <4>2 DEF Once
    <3>. QED  BY <1>t, <2>2, <3>1, <3>2, <3>3, <3>4 DEF FlgOK, FlgTypeOK, Wants, Unmet
  <2>4. CASE ~eventflag_cond(flgptn, waiptn, wfmode)
    <3>1. /\ make_wait_with_diswai(t) /\ Waiting([waiflg EXCEPT ![t] = want])
          /\ given' = <<>> /\ flgptn' = flgptn
      BY <1>6, <2>4 DEF WaiFlg
    <3>2. state' = [state EXCEPT ![t] = "WAIT"]
      BY <2>2, <3>1 DEF make_wait_with_diswai
    <3>. HIDE DEF want
    <3>3. waiflg' = [u \in Tasks |-> IF state'[u] = "WAIT" THEN [waiflg EXCEPT ![t] = want][u] ELSE NoWait]
      BY <3>1 DEF Waiting
    <3>4. NoWait \in Wants
      BY DEF NoWait, Wants, WfMode
    <3>5. waiflg' \in [Tasks -> Wants]
      BY <1>t, <2>1, <3>3, <3>4
    <3>6. ASSUME NEW u \in ToSet(wait_queue')
          PROVE  ~eventflag_cond(flgptn', waiflg'[u].waiptn, waiflg'[u].wfmode)
      <4>1. CASE u = t
        <5>1. waiflg'[u] = want
          BY <1>0, <1>t, <3>2, <3>3, <4>1
        <5>. QED  BY <2>1, <2>4, <3>1, <5>1
      <4>2. CASE u # t
        <5>1. u \in Tasks /\ u \in ToSet(wait_queue) /\ waiflg'[u] = waiflg[u]
          BY <1>0, <1>t, <3>2, <3>3, <3>6, <4>2
        <5>2. Unmet(u, flgptn)
          BY <5>1 DEF FlgOK
        <5>. QED  BY <3>1, <5>1, <5>2 DEF Unmet
      <4>. QED  BY <4>1, <4>2
    <3>7. Once(given', flgptn')
      BY <1>n, <3>1
    <3>. QED  BY <1>t, <2>2, <3>1, <3>5, <3>6, <3>7 DEF FlgOK, FlgTypeOK, Wants, Unmet
  <2>. QED  BY <2>3, <2>4
<1>. QED  BY <1>1, <1>2, <1>3, <1>4, <1>5, <1>6 DEF FlgNext

-----------------------------------------------------------------------------
(* The counts of the tasks of a set, added up (TotalOf).                   *)

\* TotalOf is such a sum.
LEMMA TotalSums ==
  ASSUME NEW D, IsFiniteSet(D), \A t \in D : winfo[t] \in Int
  PROVE  \E h : Sums(winfo, D, h) /\ TotalOf(D) = h[D]
<1>. DEFINE iter == CHOOSE iter : iter = [s \in SUBSET D |-> IF s = {} THEN 0
                         ELSE winfo[CHOOSE x \in s : TRUE] + iter[s \ {CHOOSE x \in s : TRUE}]]
<1>1. TotalOf(D) = iter[D]
  BY DEF TotalOf, MapThenSumSet, MapThenFoldSet
<1>2. PICK h : Sums(winfo, D, h)
  BY SumsExist
<1>3. h = [s \in SUBSET D |-> SumStep(winfo, h, s)]
  BY <1>2 DEF Sums
<1>4. h = [s \in SUBSET D |-> IF s = {} THEN 0
                         ELSE winfo[CHOOSE x \in s : TRUE] + h[s \ {CHOOSE x \in s : TRUE}]]
  BY <1>3, Zenon DEF SumStep, PickOf
<1>5. iter = [s \in SUBSET D |-> IF s = {} THEN 0
                         ELSE winfo[CHOOSE x \in s : TRUE] + iter[s \ {CHOOSE x \in s : TRUE}]]
  BY <1>4, Zenon
<1>. HIDE DEF iter
<1>6. iter = [s \in SUBSET D |-> SumStep(winfo, iter, s)]
  BY <1>5, Zenon DEF SumStep, PickOf
<1>7. Sums(winfo, D, iter)
  <2>1. \A s \in SUBSET D : iter[s] = SumStep(winfo, iter, s)
    BY <1>6, Zenon
  <2>. DEFINE P == {n \in Nat : \A s \in SUBSET D : Cardinality(s) <= n => iter[s] \in Int}
  <2>0. \A s \in SUBSET D : IsFiniteSet(s) /\ Cardinality(s) \in Nat /\ Cardinality(s) <= Cardinality(D)
    BY FS_Subset, FS_CardinalityType
  <2>2. 0 \in P
    <3>1. \A s \in SUBSET D : Cardinality(s) <= 0 => s = {}
      BY <2>0, FS_EmptySet
    <3>2. iter[{}] = 0
      BY <2>1 DEF SumStep
    <3>. QED  BY <3>1, <3>2
  <2>3. ASSUME NEW n \in Nat, n \in P  PROVE n + 1 \in P
    <3>. SUFFICES ASSUME NEW s \in SUBSET D, Cardinality(s) <= n + 1, s # {}
                  PROVE  iter[s] \in Int
      BY <2>1 DEF SumStep
    <3>1. PICK y \in s : y = PickOf(s)
      BY <2>0, PickSmaller
    <3>2. s \ {y} \in SUBSET D /\ Cardinality(s \ {y}) <= n
      BY <2>0, PickSmaller
    <3>3. iter[s \ {y}] \in Int /\ winfo[y] \in Int
      BY <2>3, <3>2
    <3>. QED  BY <2>1, <3>1, <3>3 DEF SumStep
  <2>. HIDE DEF P
  <2>4. Nat \subseteq P
    BY <2>2, <2>3, SetInduction
  <2>5. Cardinality(D) \in P
    BY <2>4, FS_CardinalityType
  <2>6. \A s \in SUBSET D : iter[s] \in Int
    BY <2>0, <2>5 DEF P
  <2>7. iter \in [SUBSET D -> Int]
    BY <1>6, <2>1, <2>6
  <2>. QED  BY <2>1, <2>7 DEF Sums
<1>. QED  BY <1>1, <1>7

\* One more member.
LEMMA TotalAdd ==
  ASSUME NEW D, IsFiniteSet(D), NEW t, t \notin D, \A u \in D \cup {t} : winfo[u] \in Int
  PROVE  /\ TotalOf(D) \in Int
         /\ TotalOf(D \cup {t}) = TotalOf(D) + winfo[t]
<1>. DEFINE E == D \cup {t}
<1>1. IsFiniteSet(E) /\ t \in E /\ E \ {t} = D /\ D \in SUBSET E
  BY FS_AddElement
<1>2. PICK g : Sums(winfo, D, g) /\ TotalOf(D) = g[D]
  BY TotalSums
<1>. HIDE DEF E
<1>3. PICK h : Sums(winfo, E, h) /\ TotalOf(E) = h[E]
  BY <1>1, TotalSums DEF E
<1>4. h[E] = winfo[t] + h[D]
  BY <1>1, <1>3, SumsExchange DEF E
<1>5. h[D] = g[D]
  BY <1>1, <1>2, <1>3, SumsAgree
<1>6. g[D] \in Int /\ winfo[t] \in Int
  BY <1>2 DEF Sums
<1>. QED  BY <1>2, <1>3, <1>4, <1>5, <1>6 DEF E

\* The sum over nobody.
LEMMA TotalEmpty == TotalOf({}) = 0
<1>1. IsFiniteSet({})
  BY FS_EmptySet
<1>2. PICK h : Sums(winfo, {}, h) /\ TotalOf({}) = h[{}]
  BY <1>1, TotalSums
<1>. QED  BY <1>2 DEF Sums, SumStep

-----------------------------------------------------------------------------
(* The semaphore: the loop of tk_sig_sem and of the hook.                  *)

\* gcb_top_of_wait_queue tells the truth: it is the first of the queue once t
\* is in it.
LEMMA TopIsHead ==
  ASSUME NEW q \in Seq(Tasks), NEW key \in [Tasks -> Pri], NEW t \in Tasks, NEW tpri \in BOOLEAN
  PROVE  Head(gcb_make_wait(q, t, key, tpri)) = gcb_top_of_wait_queue(q, t, key, tpri)
<1>1. queue_insert_tpri(q, t, key) = PutAt(q, Place(q, key, t), t)
  BY DEF queue_insert_tpri, PutAt, Place, SelectInSeq
<1>2. tpri \in {TRUE, FALSE} /\ key \in [Tasks -> Int]
  BY PriNumbers
<1>3. Head(QueInsert(q, t)) = IF q = <<>> THEN t ELSE Head(q)
  BY QueInsertProperties
<1>4. CASE ~tpri
  BY <1>3, <1>4 DEF gcb_make_wait, gcb_top_of_wait_queue, isQueEmpty, QueNext
<1>5. CASE tpri
  <2>. DEFINE I == {i \in 1..Len(q) : key[q[i]] > key[t]}
  <2>0. Len(q) \in Nat /\ I \in SUBSET Nat
    BY LenProperties
  <2>1. CASE I = {}
    <3>1. gcb_make_wait(q, t, key, tpri) = QueInsert(q, t)
      BY <1>1, <1>5, <2>1 DEF gcb_make_wait, PutAt, Place, QueInsert
    <3>2. q # <<>> => ~(key[t] < key[Head(q)])
      <4>1. q # <<>> => 1 \in 1..Len(q) /\ Head(q) = q[1] /\ q[1] \in Tasks
        BY MemberPosition, ElementOfSeq, <2>0
      <4>2. 1 \notin I
        BY <2>1
      <4>. QED  BY <1>2, <4>1, <4>2
    <3>. QED  BY <1>3, <3>1, <3>2 DEF gcb_top_of_wait_queue, isQueEmpty, QueNext
  <2>2. CASE I # {}
    <3>. DEFINE k == Min(I)
    <3>1. k \in I /\ \A j \in I : k <= j
      BY <2>0, <2>2, MinPosition
    <3>2. gcb_make_wait(q, t, key, tpri) = InsertAt(q, k, t)
      <4>1. k # 0
        BY <2>0, <3>1
      <4>. QED  BY <1>1, <1>5, <2>2, <4>1 DEF gcb_make_wait, PutAt, Place
    <3>. HIDE DEF k
    <3>3. k \in 1..Len(q)
      BY <3>1
    <3>4. /\ InsertAt(q, k, t) \in Seq(Tasks) /\ Len(InsertAt(q, k, t)) = Len(q) + 1
          /\ InsertAt(q, k, t)[1] = IF 1 < k THEN q[1] ELSE t
      <4>1. 1 \in 1..Len(q)+1
        BY <2>0
      <4>2. InsertAt(q, k, t)[1] = IF 1 < k THEN q[1] ELSE IF 1 = k THEN t ELSE q[1 - 1]
        BY <3>3, <4>1, InsertAtProperties
      <4>. QED  BY <2>0, <3>3, <4>2, InsertAtProperties
    <3>5. Head(InsertAt(q, k, t)) = InsertAt(q, k, t)[1]
      BY <2>0, <3>4, MemberPosition
    <3>6. q # <<>> /\ Head(q) = q[1] /\ 1 \in 1..Len(q) /\ q[1] \in Tasks
      BY <2>0, <3>3, MemberPosition, ElementOfSeq
    <3>7. key[t] < key[q[1]] <=> k = 1
      <4>1. key[t] < key[q[1]] <=> 1 \in I
        BY <1>2, <3>6
      <4>. QED  BY <2>0, <3>1, <3>3, <4>1
    <3>8. 1 < k <=> k # 1
      BY <2>0, <3>3
    <3>. QED  BY <1>5, <3>2, <3>4, <3>5, <3>6, <3>7, <3>8 DEF gcb_top_of_wait_queue, isQueEmpty, QueNext
  <2>. QED  BY <2>1, <2>2
<1>. QED  BY <1>2, <1>4, <1>5

\* What the loop keeps: the counts left, who was released, whether it is over.
RelRuns == [cnt : Nat, freed : SUBSET Tasks, stop : BOOLEAN]

\* winfo of the tasks of q: each of them waits for counts.
Asking(q) == \A i \in 1..Len(q) : q[i] \in Tasks /\ winfo[q[i]] \in Nat \ {0}

\* One turn.
LEMMA RelTurn ==
  ASSUME NEW r \in RelRuns, NEW t \in Tasks, winfo[t] \in Nat, ta_cnt \in BOOLEAN
  PROVE  release(r, t) \in RelRuns
<1>1. r.cnt \in Nat /\ r.freed \in SUBSET Tasks /\ r.stop \in BOOLEAN
  BY DEF RelRuns
<1>2. CASE r.stop
  BY <1>2 DEF release
<1>3. CASE ~r.stop /\ r.cnt < winfo[t]
  BY <1>1, <1>3 DEF release, RelRuns
<1>4. CASE ~r.stop /\ ~(r.cnt < winfo[t])
  <2>1. r.cnt - winfo[t] \in Nat /\ (r.cnt - winfo[t] <= 0) \in BOOLEAN
    BY <1>1, <1>4
  <2>2. r.freed \cup {t} \in SUBSET Tasks
    BY <1>1
  <2>. QED  BY <1>4, <2>1, <2>2 DEF release, RelRuns
<1>. QED  BY <1>2, <1>3, <1>4

\* f goes through the turns of the loop.
RelTurns(q, k, f) == f[0] = k /\ \A n \in 1..Len(q) : f[n] = release(f[n - 1], q[n])

\* The loop does.
LEMMA RelTurnsExist ==
  ASSUME NEW q \in Seq(Tasks), Asking(q), ta_cnt \in BOOLEAN, NEW k \in RelRuns
  PROVE  \E f : RelTurns(q, k, f) /\ Loop(q, k, release) = f[Len(q)]
<1>. DEFINE N == Len(q)
            step == [p \in (1..N) \X RelRuns |-> release(p[2], q[p[1]])]
            after == CHOOSE after : after = [n \in 0..Len(q) |-> IF n = 0 THEN k
                                                                 ELSE release(after[n - 1], q[n])]
<1>1. N \in Nat /\ \A n \in 1..N : q[n] \in Tasks /\ winfo[q[n]] \in Nat
  BY LenProperties DEF Asking
<1>2. step \in [(1..N) \X RelRuns -> RelRuns]
  <2>. HIDE DEF release
  <2>1. \A p \in (1..N) \X RelRuns : release(p[2], q[p[1]]) \in RelRuns
    BY <1>1, RelTurn
  <2>. QED  BY <2>1
<1>3. Loop(q, k, release) = after[Len(q)]
  BY DEF Loop
<1>. HIDE DEF N, step, release, after
<1>4. PICK g : Solves(g, N, RelRuns, k, step)
  <2>1. Recursion(N, RelRuns, k, step)
    BY <1>1, <1>2 DEF Recursion
  <2>. QED  BY <2>1, RecursionExists
<1>5. \A n \in 1..N : g[n] = release(g[n - 1], q[n])
  <2>. SUFFICES ASSUME NEW n \in 1..N  PROVE g[n] = release(g[n - 1], q[n])
    OBVIOUS
  <2>1. n - 1 \in 0..N
    BY <1>1
  <2>2. g[n - 1] \in RelRuns
    BY <1>4, <2>1 DEF Solves
  <2>3. step[<<n, g[n - 1]>>] = release(g[n - 1], q[n])
    BY <2>2 DEF step
  <2>. QED  BY <1>4, <2>3 DEF Solves
<1>6. g = [n \in 0..N |-> IF n = 0 THEN k ELSE release(g[n - 1], q[n])]
  <2>. DEFINE h == [n \in 0..N |-> IF n = 0 THEN k ELSE release(g[n - 1], q[n])]
  <2>0. g \in [0..N -> RelRuns]
    BY <1>4 DEF Solves
  <2>1. ASSUME NEW n \in 0..N  PROVE g[n] = h[n]
    <3>1. n = 0 \/ n \in 1..N
      BY <1>1
    <3>. QED  BY <3>1, <1>4, <1>5 DEF Solves
  <2>. QED  BY <2>0, <2>1
<1>7. after = [n \in 0..N |-> IF n = 0 THEN k ELSE release(after[n - 1], q[n])]
  BY <1>6, Zenon DEF after, N
<1>8. after[0] = k /\ \A n \in 1..N : after[n] = release(after[n - 1], q[n])
  <2>1. 0 \in 0..N /\ \A n \in 1..N : n \in 0..N /\ n # 0
    BY <1>1
  <2>. QED  BY <1>7, <2>1
<1>. QED  BY <1>3, <1>8 DEF RelTurns, N

\* Where the loop stands after n members of q, if it began with c counts: what is
\* left and what it gave add up to c; it stopped for want of counts, at the first
\* member it leaves, or it has gone through and served whom it could.
Released(q, c, n, r) ==
    /\ r \in RelRuns
    /\ r.freed \subseteq {q[i] : i \in 1..n}
    /\ TotalOf(r.freed) \in Int /\ r.cnt + TotalOf(r.freed) = c
    /\ r.cnt <= c
    /\ r.stop /\ r.cnt # 0 =>
         ~ta_cnt /\ \E j \in 1..n : /\ q[j] \notin r.freed /\ winfo[q[j]] > r.cnt
                                    /\ \A i \in 1..n : i < j => q[i] \in r.freed
    /\ ~r.stop => \A j \in 1..n : q[j] \in r.freed \/ (ta_cnt /\ winfo[q[j]] > r.cnt)

\* One more turn.
LEMMA RelTurnKeeps ==
  ASSUME NEW q \in Seq(Tasks), IsInjective(q), Asking(q), ta_cnt \in BOOLEAN, NEW c \in Nat,
         NEW n \in Nat, n + 1 <= Len(q), NEW r, Released(q, c, n, r)
  PROVE  Released(q, c, n + 1, release(r, q[n + 1]))
<1>. DEFINE t == q[n + 1]
            w == winfo[t]
            s == release(r, t)
<1>0. Len(q) \in Nat /\ n + 1 \in 1..Len(q) /\ 1..n \subseteq 1..n + 1 /\ 1..n + 1 \subseteq 1..Len(q)
  BY LenProperties
<1>1. /\ r \in RelRuns /\ r.cnt \in Nat /\ r.freed \in SUBSET Tasks /\ r.stop \in BOOLEAN
      /\ r.freed \subseteq {q[i] : i \in 1..n}
      /\ TotalOf(r.freed) \in Int /\ r.cnt + TotalOf(r.freed) = c /\ r.cnt <= c
  BY DEF Released, RelRuns
<1>2. t \in Tasks /\ w \in Nat /\ w # 0
  BY <1>0 DEF Asking
<1>3. s \in RelRuns
  BY <1>1, <1>2, RelTurn
<1>4. t \notin r.freed
  <2>1. \A i \in 1..n : q[i] # t
    BY <1>0, InjectivePositions
  <2>. QED  BY <1>1, <2>1
<1>5. {q[i] : i \in 1..n} \subseteq {q[i] : i \in 1..n + 1} /\ t \in {q[i] : i \in 1..n + 1}
  BY <1>0
<1>6. \A j \in 1..n + 1 : j \in 1..n \/ j = n + 1
  OBVIOUS
<1>7. CASE r.stop
  <2>1. s = r
    BY <1>7 DEF release
  <2>2. r.cnt # 0 =>
         ~ta_cnt /\ \E j \in 1..n + 1 : /\ q[j] \notin r.freed /\ winfo[q[j]] > r.cnt
                                        /\ \A i \in 1..n + 1 : i < j => q[i] \in r.freed
    <3>. SUFFICES ASSUME r.cnt # 0
                  PROVE  ~ta_cnt /\ \E j \in 1..n + 1 : /\ q[j] \notin r.freed /\ winfo[q[j]] > r.cnt
                                                        /\ \A i \in 1..n + 1 : i < j => q[i] \in r.freed
      OBVIOUS
    <3>1. ~ta_cnt /\ \E j \in 1..n : /\ q[j] \notin r.freed /\ winfo[q[j]] > r.cnt
                                     /\ \A i \in 1..n : i < j => q[i] \in r.freed
      BY <1>7 DEF Released
    <3>2. PICK j \in 1..n : /\ q[j] \notin r.freed /\ winfo[q[j]] > r.cnt
                            /\ \A i \in 1..n : i < j => q[i] \in r.freed
      BY <3>1
    <3>3. \A i \in 1..n + 1 : i < j => i \in 1..n
      OBVIOUS
    <3>. QED  BY <1>0, <3>1, <3>2, <3>3
  <2>. QED  BY <1>1, <1>5, <1>7, <2>1, <2>2 DEF Released
<1>8. CASE ~r.stop /\ r.cnt < w
  <2>1. s = [r EXCEPT !.stop = ~ta_cnt]
    BY <1>8 DEF release
  <2>2. s.cnt = r.cnt /\ s.freed = r.freed /\ s.stop = ~ta_cnt
    BY <1>1, <2>1 DEF RelRuns
  <2>3. \A j \in 1..n : q[j] \in r.freed \/ (ta_cnt /\ winfo[q[j]] > r.cnt)
    BY <1>8 DEF Released
  <2>. HIDE DEF s
  <2>4. s.stop => ~ta_cnt /\ \E j \in 1..n + 1 : /\ q[j] \notin r.freed /\ winfo[q[j]] > r.cnt
                                                 /\ \A i \in 1..n + 1 : i < j => q[i] \in r.freed
    <3>. SUFFICES ASSUME s.stop
                  PROVE  ~ta_cnt /\ \E j \in 1..n + 1 : /\ q[j] \notin r.freed /\ winfo[q[j]] > r.cnt
                                                        /\ \A i \in 1..n + 1 : i < j => q[i] \in r.freed
      OBVIOUS
    <3>1. ~ta_cnt
      BY <2>2
    <3>2. \A i \in 1..n + 1 : i < n + 1 => q[i] \in r.freed
      BY <1>6, <2>3, <3>1
    <3>3. n + 1 \in 1..n + 1 /\ w > r.cnt
      BY <1>1, <1>2, <1>8
    <3>. QED  BY <1>4, <3>1, <3>2, <3>3
  <2>5. ~s.stop => \A j \in 1..n + 1 : q[j] \in r.freed \/ (ta_cnt /\ winfo[q[j]] > r.cnt)
    <3>1. w > r.cnt
      BY <1>1, <1>2, <1>8
    <3>. QED  BY <1>6, <2>2, <2>3, <3>1
  <2>. QED  BY <1>1, <1>3, <1>5, <2>2, <2>4, <2>5 DEF Released, s
<1>9. CASE ~r.stop /\ ~(r.cnt < w)
  <2>1. s = [cnt |-> r.cnt - w, freed |-> r.freed \cup {t}, stop |-> r.cnt - w <= 0]
    BY <1>9 DEF release
  <2>2. s.cnt = r.cnt - w /\ s.freed = r.freed \cup {t} /\ s.stop = (r.cnt - w <= 0)
    BY <2>1
  <2>3. TotalOf(r.freed \cup {t}) = TotalOf(r.freed) + w
    <3>1. IsFiniteSet(r.freed)
      BY <1>1, ObjectAssumption, FS_Subset
    <3>2. \A u \in r.freed \cup {t} : winfo[u] \in Int
      BY <1>0, <1>1, <1>2 DEF Asking
    <3>. QED  BY <1>4, <3>1, <3>2, TotalAdd
  <2>. HIDE DEF s
  <2>4. /\ TotalOf(s.freed) \in Int /\ s.cnt + TotalOf(s.freed) = c /\ s.cnt <= c /\ s.cnt < r.cnt
        /\ s.stop => s.cnt = 0
    <3>1. TotalOf(s.freed) = TotalOf(r.freed) + w
      BY <2>2, <2>3
    <3>2. /\ TotalOf(r.freed) + w \in Int /\ (r.cnt - w) + (TotalOf(r.freed) + w) = c
          /\ r.cnt - w <= c /\ r.cnt - w < r.cnt /\ (r.cnt - w <= 0 => r.cnt - w = 0)
      BY <1>1, <1>2, <1>9
    <3>. QED  BY <2>2, <3>1, <3>2
  <2>5. \A j \in 1..n + 1 : q[j] \in s.freed \/ (ta_cnt /\ winfo[q[j]] > s.cnt)
    <3>1. \A j \in 1..n : q[j] \in r.freed \/ (ta_cnt /\ winfo[q[j]] > r.cnt)
      BY <1>9 DEF Released
    <3>2. ASSUME NEW j \in 1..n + 1  PROVE q[j] \in s.freed \/ (ta_cnt /\ winfo[q[j]] > s.cnt)
      <4>1. CASE j = n + 1
        BY <2>2, <4>1
      <4>2. CASE j \in 1..n
        <5>1. winfo[q[j]] \in Nat /\ s.cnt \in Nat
          BY <1>0, <1>3, <4>2 DEF Asking, RelRuns
        <5>. QED  BY <1>1, <2>2, <2>4, <3>1, <4>2, <5>1
      <4>. QED  BY <1>6, <4>1, <4>2
    <3>. QED  BY <3>2
  <2>6. s.freed \subseteq {q[i] : i \in 1..n + 1}
    BY <1>1, <1>5, <2>2
  <2>. QED  BY <1>3, <2>4, <2>5, <2>6 DEF Released, s
<1>. QED  BY <1>1, <1>7, <1>8, <1>9 DEF s, t, w

\* The whole loop.
LEMMA RelLoop ==
  ASSUME NEW q \in Seq(Tasks), IsInjective(q), Asking(q), ta_cnt \in BOOLEAN, NEW c \in Nat
  PROVE  Released(q, c, Len(q), release_loop(q, c))
<1>. DEFINE k == [cnt |-> c, freed |-> {}, stop |-> FALSE]
<1>1. k \in RelRuns /\ k.cnt = c /\ k.freed = {} /\ k.stop = FALSE
  BY DEF RelRuns
<1>. HIDE DEF k
<1>2. PICK f : RelTurns(q, k, f) /\ Loop(q, k, release) = f[Len(q)]
  BY <1>1, RelTurnsExist
<1>. DEFINE P == {n \in Nat : n <= Len(q) => Released(q, c, n, f[n])}
<1>3. Len(q) \in Nat
  BY LenProperties
<1>4. 0 \in P
  <2>1. TotalOf(k.freed) = 0
    BY <1>1, TotalEmpty
  <2>2. f[0] = k
    BY <1>2 DEF RelTurns
  <2>3. Released(q, c, 0, k)
    BY <1>1, <2>1 DEF Released
  <2>. QED  BY <2>2, <2>3
<1>5. ASSUME NEW n \in Nat, n \in P  PROVE n + 1 \in P
  <2>. SUFFICES ASSUME n + 1 <= Len(q)  PROVE Released(q, c, n + 1, f[n + 1])
    OBVIOUS
  <2>1. Released(q, c, n, f[n]) /\ n + 1 \in 1..Len(q) /\ (n + 1) - 1 = n
    BY <1>3, <1>5
  <2>2. f[n + 1] = release(f[n], q[n + 1])
    BY <1>2, <2>1 DEF RelTurns
  <2>. QED  BY <2>1, <2>2, RelTurnKeeps
<1>. HIDE DEF P
<1>6. Nat \subseteq P
  BY <1>4, <1>5, SetInduction
<1>7. Released(q, c, Len(q), f[Len(q)])
  BY <1>3, <1>6 DEF P
<1>. QED  BY <1>2, <1>7 DEF release_loop, k

\* Nobody of q could be served with the counts c: the first, or with TA_CNT any.
Unserved(q, w, c) == /\ q # <<>> => w[Head(q)] > c
                     /\ ta_cnt => \A t \in ToSet(q) : w[t] > c

\* So the loop leaves nobody who could be served, and loses no count.
LEMMA RelOutcome ==
  ASSUME NEW q \in Seq(Tasks), IsInjective(q), Asking(q), ta_cnt \in BOOLEAN, NEW c \in Nat
  PROVE  LET r == release_loop(q, c)
         IN  /\ r.cnt \in Nat /\ r.cnt <= c
             /\ TotalOf(r.freed) \in Int /\ r.cnt + TotalOf(r.freed) = c
             /\ Unserved(Without(q, r.freed), winfo, r.cnt)
<1>. DEFINE r == release_loop(q, c)
            N == Len(q)
            p == Without(q, r.freed)
<1>1. Released(q, c, N, r)
  BY RelLoop
<1>2. /\ p \in Seq(Tasks) /\ ToSet(p) = ToSet(q) \ r.freed
  BY WithoutProperties
<1>3. p # <<>> => Head(p) \in ToSet(p)
  BY <1>2, MemberPosition
<1>4. \A t \in ToSet(p) : t \notin r.freed /\ \E j \in 1..N : q[j] = t
  BY <1>2, MemberPosition
<1>. HIDE DEF r, p
<1>5. /\ r.cnt \in Nat /\ r.cnt <= c /\ r.stop \in BOOLEAN
      /\ TotalOf(r.freed) \in Int /\ r.cnt + TotalOf(r.freed) = c
  BY <1>1 DEF Released, RelRuns
<1>6. CASE r.cnt = 0
  <2>1. \A t \in ToSet(p) : winfo[t] > r.cnt
    BY <1>4, <1>6 DEF Asking
  <2>. QED  BY <1>3, <1>5, <2>1 DEF Unserved, p, r
<1>7. CASE r.cnt # 0 /\ r.stop
  <2>1. ~ta_cnt
    BY <1>1, <1>7 DEF Released
  <2>2. PICK j \in 1..N : /\ q[j] \notin r.freed /\ winfo[q[j]] > r.cnt
                          /\ \A i \in 1..N : i < j => q[i] \in r.freed
    BY <1>1, <1>7 DEF Released
  <2>3. Head(p) = q[j]
    BY <2>2, WithoutHead DEF p
  <2>. QED  BY <1>5, <2>1, <2>2, <2>3 DEF Unserved, p, r
<1>8. CASE ~r.stop
  <2>1. \A j \in 1..N : q[j] \in r.freed \/ (ta_cnt /\ winfo[q[j]] > r.cnt)
    BY <1>1, <1>8 DEF Released
  <2>2. \A t \in ToSet(p) : winfo[t] > r.cnt
    BY <1>4, <2>1
  <2>. QED  BY <1>3, <1>5, <2>2 DEF Unserved, p, r
<1>. QED  BY <1>5, <1>6, <1>7, <1>8

\* The semaphore: the types, what the model asks for, and that who waits asked
\* for something.
SemOK ==
    /\ SemTypeOK /\ out \in Int /\ CountsConserved
    /\ Unserved(wait_queue, winfo, semcnt)
    /\ \A t \in ToSet(wait_queue) : winfo[t] \in Nat \ {0}

\* It says what the runs check.
LEMMA SemExact ==
  ASSUME SemOK, GcbOK
  PROVE  NobodyWaitsForCounts /\ CountsConserved
<1>1. wait_queue \in Seq(Tasks)
  BY DEF GcbOK, Current, Exact
<1>2. \A i \in 1..Len(wait_queue) : /\ wait_queue[i] \in ToSet(wait_queue)
                                    /\ i = 1 => wait_queue # <<>> /\ Head(wait_queue) = wait_queue[i]
  BY <1>1, MemberPosition
<1>3. NobodyWaitsForCounts
  BY <1>2 DEF NobodyWaitsForCounts, SemOK, Unserved
<1>. QED  BY <1>3 DEF SemOK

\* After d counts were signalled the loop goes over q, members of the queue.
LEMMA SemFreed ==
  ASSUME SemOK, GcbOK, GcbOK', NEW q \in Seq(Tasks), IsInjective(q),
         \A u \in ToSet(q) : u \in ToSet(wait_queue),
         NEW d \in Nat, objid, semcnt + d <= maxsem,
         Freed(q, release_loop(q, semcnt + d), d),
         winfo' \in [Tasks -> (0..MaxSem) \cup {NULL}],
         \A u \in ToSet(q) : u \notin gets' => winfo'[u] = winfo[u]
  PROVE  SemOK'
<1>. DEFINE c == semcnt + d
            r == release_loop(q, c)
            p == Without(q, r.freed)
<1>1. /\ ta_cnt \in BOOLEAN /\ maxsem \in 0..MaxSem /\ semcnt \in 0..maxsem /\ out \in Int
      /\ semcnt + out = 0 /\ MaxSem \in Nat /\ maxsem \in Nat /\ semcnt \in Nat
      /\ \A t \in ToSet(wait_queue) : winfo[t] \in Nat \ {0}
  BY SemaphoreAssumption DEF SemOK, SemTypeOK, CountsConserved
<1>2. c \in Nat /\ c <= maxsem
  BY <1>1
<1>3. Asking(q)
  BY <1>1, MemberPosition DEF Asking
<1>4. /\ semcnt' = r.cnt /\ wait_queue' = p /\ gets' = r.freed /\ UNCHANGED <<ta_cnt, maxsem>>
      /\ out' = out - d + TotalOf(r.freed)
  BY DEF Freed
<1>. HIDE DEF c
<1>5. /\ r.cnt \in Nat /\ r.cnt <= c /\ TotalOf(r.freed) \in Int /\ r.cnt + TotalOf(r.freed) = c
      /\ Unserved(p, winfo, r.cnt)
  BY <1>1, <1>2, <1>3, RelOutcome
<1>6. p \in Seq(Tasks) /\ ToSet(p) = ToSet(q) \ r.freed /\ (p # <<>> => Head(p) \in ToSet(p))
  BY WithoutProperties, MemberPosition
<1>. HIDE DEF r, p
<1>7. \A t \in ToSet(p) : winfo'[t] = winfo[t] /\ t \in ToSet(wait_queue)
  BY <1>4, <1>6
<1>8. out' \in Int /\ semcnt' + out' = 0 /\ semcnt' \in 0..maxsem
  <2>1. \A x, y \in Int : x + y = semcnt + d => (out - d + y) \in Int /\ x + (out - d + y) = 0
    BY <1>1
  <2>. QED  BY <1>1, <1>2, <1>4, <1>5, <2>1 DEF c
<1>9. /\ p # <<>> => winfo'[Head(p)] > semcnt'
      /\ ta_cnt => \A t \in ToSet(p) : winfo'[t] > semcnt'
  BY <1>4, <1>5, <1>6, <1>7 DEF Unserved
<1>10. \A t \in ToSet(p) : winfo'[t] \in Nat \ {0}
  BY <1>1, <1>7
<1>. QED  BY <1>1, <1>4, <1>8, <1>9, <1>10 DEF SemOK, SemTypeOK, CountsConserved, Unserved

\* The queue loses members at most and keeps its head, unless TA_CNT is set: the
\* counts stay, and so does the rest.
LEMMA SemKept ==
  ASSUME SemOK, GcbOK, GcbOK', UNCHANGED sem, objid' = objid,
         winfo' \in [Tasks -> (0..MaxSem) \cup {NULL}],
         \A u \in ToSet(wait_queue') : u \in ToSet(wait_queue) /\ winfo'[u] = winfo[u],
         ta_cnt \/ wait_queue' = <<>> \/ (wait_queue # <<>> /\ Head(wait_queue') = Head(wait_queue))
  PROVE  SemOK'
<1>1. UNCHANGED <<ta_cnt, semcnt, maxsem, out>>
  BY DEF sem
<1>2. wait_queue' # <<>> => Head(wait_queue') \in ToSet(wait_queue')
  BY MemberPosition DEF GcbOK, Current, Exact
<1>3. /\ wait_queue # <<>> => winfo[Head(wait_queue)] > semcnt
      /\ ta_cnt => \A t \in ToSet(wait_queue) : winfo[t] > semcnt
      /\ \A t \in ToSet(wait_queue) : winfo[t] \in Nat \ {0}
  BY DEF SemOK, Unserved
<1>4. /\ wait_queue' # <<>> => winfo'[Head(wait_queue')] > semcnt
      /\ ta_cnt => \A t \in ToSet(wait_queue') : winfo'[t] > semcnt
      /\ \A t \in ToSet(wait_queue') : winfo'[t] \in Nat \ {0}
  BY <1>2, <1>3
<1>. QED  BY <1>1, <1>4 DEF SemOK, SemTypeOK, CountsConserved, Unserved

\* The hook, when the queue became q.
LEMMA SemHook ==
  ASSUME SemOK, GcbOK, GcbOK', objid, objid' = objid, NEW q \in Seq(Tasks), IsInjective(q),
         \A u \in ToSet(q) : u \in ToSet(wait_queue), sem_chg_pri(q),
         winfo' \in [Tasks -> (0..MaxSem) \cup {NULL}],
         \A u \in ToSet(q) : u \notin gets' => winfo'[u] = winfo[u]
  PROVE  SemOK'
<1>1. CASE ta_cnt
  <2>1. wait_queue' = q /\ gets' = {} /\ UNCHANGED sem
    BY <1>1 DEF sem_chg_pri
  <2>. QED  BY <1>1, <2>1, SemKept
<1>2. CASE ~ta_cnt
  <2>1. semcnt \in Nat /\ maxsem \in Nat /\ semcnt <= maxsem
    BY SemaphoreAssumption DEF SemOK, SemTypeOK
  <2>2. Freed(q, release_loop(q, semcnt), 0)
    BY <1>2 DEF sem_chg_pri
  <2>3. semcnt + 0 = semcnt
    BY <2>1
  <2>4. Freed(q, release_loop(q, semcnt + 0), 0)
    BY <2>2, <2>3
  <2>5. semcnt + 0 <= maxsem /\ 0 \in Nat
    BY <2>1, <2>3
  <2>. HIDE DEF Freed, release_loop
  <2>. QED  BY <2>4, <2>5, SemFreed
<1>. QED  BY <1>1, <1>2

\* wake leaves the others what they asked for.
LEMMA SemWake ==
  ASSUME winfo \in [Tasks -> (0..MaxSem) \cup {NULL}], NEW t, NEW s, wake(t, s)
  PROVE  /\ winfo' \in [Tasks -> (0..MaxSem) \cup {NULL}]
         /\ \A u \in Tasks : u # t /\ u \notin gets' => winfo'[u] = winfo[u]
BY DEF wake

\* A wait ends without success, or a task moves in the queue.
LEMMA SemLeave ==
  ASSUME SemOK, GcbOK, GcbOK', NEW t \in Tasks, HookedLeave(t, sem_chg_pri)
  PROVE  SemOK'
<1>0. /\ wait_queue \in Seq(Tasks) /\ IsInjective(wait_queue) /\ ToSet(wait_queue) \subseteq Tasks
      /\ \A u \in Tasks : u \in ToSet(wait_queue) <=> state[u] = "WAIT"
      /\ priority \in [Tasks -> Pri] /\ Current
  BY MemberPosition DEF GcbOK, Current, Exact
<1>1. /\ state[t] = "WAIT" /\ objid' = objid /\ objatr' = objatr
      /\ \/ \E s \in {"READY", "DORMANT"} : leave(t, s, sem_chg_pri)
         \/ /\ objatr.tpri /\ wake(NULL, "READY")
            /\ \E p \in Pri : /\ priority' = [priority EXCEPT ![t] = p]
                              /\ sem_chg_pri(gcb_change_priority(wait_queue, t, priority'))
  <2>. HIDE DEF sem_chg_pri
  <2>. QED  BY DEF HookedLeave, gcb, leave
<1>2. t \in ToSet(wait_queue) /\ objid
  BY <1>0, <1>1 DEF GcbOK, ToSet
<1>3. winfo \in [Tasks -> (0..MaxSem) \cup {NULL}]
  BY DEF SemOK, SemTypeOK
<1>4. ASSUME NEW s \in {"READY", "DORMANT"}, leave(t, s, sem_chg_pri)
      PROVE  SemOK'
  <2>1. PICK q : q = QueRemove(wait_queue, t)
    OBVIOUS
  <2>2. q \in Seq(Tasks) /\ ToSet(q) = ToSet(wait_queue) \ {t} /\ IsInjective(q)
    BY <1>0, <2>1, QueRemoveProperties
  <2>3. sem_chg_pri(q) /\ wake(t, s)
    <3>. HIDE DEF sem_chg_pri
    <3>. QED  BY <1>4, <2>1 DEF leave
  <2>4. /\ winfo' \in [Tasks -> (0..MaxSem) \cup {NULL}]
        /\ \A u \in Tasks : u # t /\ u \notin gets' => winfo'[u] = winfo[u]
    BY <1>3, <2>3, SemWake
  <2>5. \A u \in ToSet(q) : u \in ToSet(wait_queue) /\ (u \notin gets' => winfo'[u] = winfo[u])
    BY <1>0, <2>2, <2>4
  <2>. HIDE DEF sem_chg_pri
  <2>. QED  BY <1>1, <1>2, <2>2, <2>3, <2>4, <2>5, SemHook
<1>5. ASSUME objatr.tpri, wake(NULL, "READY"), NEW p \in Pri,
             priority' = [priority EXCEPT ![t] = p],
             sem_chg_pri(gcb_change_priority(wait_queue, t, priority'))
      PROVE  SemOK'
  <2>1. PICK q : q = gcb_change_priority(wait_queue, t, priority')
    OBVIOUS
  <2>2. priority' \in [Tasks -> Pri] /\ \A u \in Tasks : u # t => priority'[u] = priority[u]
    BY <1>0, <1>5
  <2>3. Exact(q, state, waitmask, priority', objatr)
    BY <1>0, <1>2, <1>5, <2>1, <2>2, ExactMoved DEF Current
  <2>4. /\ q \in Seq(Tasks) /\ IsInjective(q) /\ ToSet(q) \subseteq Tasks
        /\ \A u \in Tasks : u \in ToSet(q) <=> state[u] = "WAIT"
    BY <2>3, MemberPosition DEF Exact
  <2>5. sem_chg_pri(q)
    <3>. HIDE DEF sem_chg_pri
    <3>. QED  BY <1>5, <2>1
  <2>6. /\ winfo' \in [Tasks -> (0..MaxSem) \cup {NULL}]
        /\ \A u \in Tasks : u # NULL /\ u \notin gets' => winfo'[u] = winfo[u]
    BY <1>3, <1>5, SemWake
  <2>7. \A u \in ToSet(q) : u \in ToSet(wait_queue) /\ (u \notin gets' => winfo'[u] = winfo[u])
    BY <1>0, <2>4, <2>6, ObjectAssumption
  <2>. HIDE DEF sem_chg_pri
  <2>. QED  BY <1>1, <1>2, <2>4, <2>5, <2>6, <2>7, SemHook
<1>. HIDE DEF sem_chg_pri
<1>. QED  BY <1>1, <1>4, <1>5

\* The calls that reach no hook leave the queue as it is.
LEMMA SemQuiet ==
  ASSUME SemOK, GcbOK, GcbOK', NEW t \in Tasks, HookedQuiet(t), UNCHANGED sem
  PROVE  SemOK'
<1>0. /\ wait_queue \in Seq(Tasks) /\ ToSet(wait_queue) \subseteq Tasks
      /\ \A u \in Tasks : u \in ToSet(wait_queue) <=> state[u] = "WAIT"
  BY MemberPosition DEF GcbOK, Current, Exact
<1>1. /\ UNCHANGED <<objid, objatr>> /\ winfo' = winfo
      /\ \/ wait_queue' = wait_queue
         \/ \E S \in {{t}, {}} : /\ wait_queue' = Without(wait_queue, S)
                                 /\ S = {t} => state[t] # "WAIT"
  BY DEF HookedQuiet, DisWai, TerTsk, EnaWai, StaTsk, ChgPri, chg_pri_hook, wait_release_ok, gcb
<1>2. CASE wait_queue' = wait_queue
  <2>1. wait_queue = <<>> \/ wait_queue # <<>>
    OBVIOUS
  <2>. QED  BY <1>1, <1>2, <2>1, SemKept DEF SemOK, SemTypeOK
<1>3. ASSUME NEW S \in {{t}, {}}, wait_queue' = Without(wait_queue, S), S = {t} => state[t] # "WAIT"
      PROVE  SemOK'
  <2>1. \A u \in ToSet(wait_queue) : u \notin S
    BY <1>0, <1>3
  <2>2. ToSet(wait_queue') = ToSet(wait_queue)
    <3>1. ToSet(Without(wait_queue, S)) = ToSet(wait_queue) \ S
      BY <1>0, WithoutProperties
    <3>2. ToSet(wait_queue) \ S = ToSet(wait_queue)
      BY <2>1
    <3>. QED  BY <1>3, <3>1, <3>2
  <2>3. wait_queue' = <<>> \/ (wait_queue # <<>> /\ Head(wait_queue') = Head(wait_queue))
    <3>1. wait_queue' \in Seq(Tasks)
      BY <1>0, <1>3, WithoutProperties
    <3>2. wait_queue' # <<>> => wait_queue # <<>>
      BY <1>0, <2>2, <3>1, MemberPosition
    <3>3. ASSUME wait_queue # <<>>  PROVE Head(wait_queue') = Head(wait_queue)
      <4>1. Len(wait_queue) \in Nat /\ Len(wait_queue) >= 1 /\ Head(wait_queue) = wait_queue[1]
            /\ Head(wait_queue) \in ToSet(wait_queue)
        BY <1>0, <3>3, MemberPosition, LenProperties
      <4>2. 1 \in 1..Len(wait_queue) /\ \A i \in 1..Len(wait_queue) : ~(i < 1)
        BY <4>1
      <4>. QED  BY <1>0, <1>3, <2>1, <4>1, <4>2, WithoutHead
    <3>. QED  BY <3>2, <3>3
  <2>. QED  BY <1>1, <2>2, <2>3, SemKept DEF SemOK, SemTypeOK
<1>. QED  BY <1>1, <1>2, <1>3

\* Every call of the semaphore.
LEMMA SemServed ==
  ASSUME SemOK, GcbOK, GcbOK', SemNext
  PROVE  SemOK'
<1>0. /\ wait_queue \in Seq(Tasks) /\ ToSet(wait_queue) \subseteq Tasks /\ IsInjective(wait_queue)
      /\ \A u \in Tasks : u \in ToSet(wait_queue) <=> state[u] = "WAIT"
      /\ ToSet(wait_queue') \subseteq Tasks /\ wait_queue' \in Seq(Tasks)
      /\ \A u \in Tasks : u \in ToSet(wait_queue') <=> state'[u] = "WAIT"
      /\ priority \in [Tasks -> Pri] /\ objatr.tpri \in BOOLEAN
      /\ state \in [Tasks -> {"READY", "WAIT", "RECV", "DORMANT"}]
  BY MemberPosition DEF GcbOK, Current, Exact, ObjAtr
<1>t. /\ ta_cnt \in BOOLEAN /\ maxsem \in 0..MaxSem /\ semcnt \in 0..maxsem /\ out \in Int
      /\ MaxSem \in Nat /\ maxsem \in Nat /\ semcnt \in Nat
      /\ winfo \in [Tasks -> (0..MaxSem) \cup {NULL}]
  BY SemaphoreAssumption DEF SemOK, SemTypeOK
<1>e. ToSet(<<>>) = {}
  BY DEF ToSet
<1>1. ASSUME NEW atr \in Attributes, NEW cnt \in BOOLEAN, NEW max \in 1..MaxSem, NEW icnt \in 0..MaxSem,
             CreSem(atr, cnt, icnt, max)
      PROVE  SemOK'
  <2>1. /\ wait_queue' = <<>> /\ ta_cnt' = cnt /\ semcnt' = icnt /\ maxsem' = max /\ out' = -icnt
        /\ winfo' = winfo /\ icnt <= max
    BY <1>1 DEF CreSem, create, tasks, GcbOK
  <2>2. -icnt \in Int /\ icnt + (-icnt) = 0 /\ max \in 0..MaxSem /\ icnt \in 0..max
    BY <1>t, <2>1
  <2>. QED  BY <1>t, <1>e, <2>1, <2>2 DEF SemOK, SemTypeOK, CountsConserved, Unserved
<1>2. CASE DelSem
  <2>1. /\ objid' = FALSE /\ UNCHANGED <<ta_cnt, semcnt, maxsem, out>>
        /\ winfo' = [t \in Tasks |-> NULL]
    BY <1>2 DEF DelSem, HookedDelete, wait_delete, sem
  <2>2. wait_queue' = <<>>
    BY <2>1 DEF GcbOK
  <2>. QED  BY <1>t, <1>e, <2>1, <2>2 DEF SemOK, SemTypeOK, CountsConserved, Unserved
<1>3. ASSUME NEW cnt \in 1..MaxSem, SigSem(cnt)
      PROVE  SemOK'
  <2>1. PICK q : q = wait_queue
    OBVIOUS
  <2>2. /\ objid /\ cnt \in Nat /\ semcnt + cnt <= maxsem
        /\ Freed(q, release_loop(q, semcnt + cnt), cnt) /\ wake(NULL, "READY")
    <3>1. objid /\ cnt <= maxsem - semcnt /\ wake(NULL, "READY")
          /\ Freed(wait_queue, release_loop(wait_queue, semcnt + cnt), cnt)
      BY <1>3 DEF SigSem, sig_allowed
    <3>. HIDE DEF Freed, release_loop
    <3>. QED  BY <1>t, <2>1, <3>1
  <2>3. /\ winfo' \in [Tasks -> (0..MaxSem) \cup {NULL}]
        /\ \A u \in Tasks : u # NULL /\ u \notin gets' => winfo'[u] = winfo[u]
    BY <1>t, <2>2, SemWake
  <2>4. \A u \in ToSet(q) : u \in ToSet(wait_queue) /\ (u \notin gets' => winfo'[u] = winfo[u])
    BY <1>0, <2>1, <2>3, ObjectAssumption
  <2>5. q \in Seq(Tasks) /\ IsInjective(q)
    BY <1>0, <2>1
  <2>. HIDE DEF Freed, release_loop
  <2>. QED  BY <2>2, <2>3, <2>4, <2>5, SemFreed
<1>4. ASSUME NEW t \in Tasks, NEW cnt \in 1..MaxSem, WaiSem(t, cnt)
      PROVE  SemOK'
  <2>1. /\ state[t] = "READY" /\ objid /\ ~is_diswai(t) /\ UNCHANGED <<objid, ta_cnt, maxsem>>
        /\ cnt \in Nat \ {0}
    BY <1>4 DEF WaiSem, gcb
  <2>2. semcnt + out = 0
    BY <2>1 DEF SemOK, CountsConserved
  <2>3. CASE may_take(t, cnt)
    <3>1. /\ semcnt' = semcnt - cnt /\ out' = out + cnt /\ UNCHANGED <<wait_queue, winfo>> /\ semcnt >= cnt
      BY <1>4, <2>3 DEF WaiSem, may_take
    <3>2. semcnt' \in 0..maxsem /\ out' \in Int /\ semcnt' + out' = 0 /\ semcnt' \in Nat /\ semcnt' < semcnt
      BY <1>t, <2>1, <2>2, <3>1
    <3>3. wait_queue # <<>> => Head(wait_queue) \in ToSet(wait_queue)
      BY <1>0, MemberPosition
    <3>4. \A u \in ToSet(wait_queue) : winfo[u] > semcnt => winfo[u] > semcnt'
      BY <1>t, <3>2 DEF SemOK
    <3>5. /\ wait_queue # <<>> => winfo[Head(wait_queue)] > semcnt'
          /\ ta_cnt => \A u \in ToSet(wait_queue) : winfo[u] > semcnt'
      BY <3>3, <3>4 DEF SemOK, Unserved
    <3>6. \A u \in ToSet(wait_queue) : winfo[u] \in Nat \ {0}
      BY DEF SemOK
    <3>. QED  BY <1>t, <2>1, <3>1, <3>2, <3>5, <3>6 DEF SemOK, SemTypeOK, CountsConserved, Unserved
  <2>4. CASE ~may_take(t, cnt)
    <3>1. /\ make_wait_with_diswai(t) /\ winfo' = [winfo EXCEPT ![t] = cnt] /\ UNCHANGED <<semcnt, out>>
      BY <1>4, <2>4 DEF WaiSem, hook_make_wait
    <3>2. /\ wait_queue' = gcb_make_wait(wait_queue, t, priority, objatr.tpri)
          /\ state' = [state EXCEPT ![t] = "WAIT"]
      BY <2>1, <3>1 DEF make_wait_with_diswai
    <3>3. Head(wait_queue') = gcb_top_of_wait_queue(wait_queue, t, priority, objatr.tpri)
      BY <1>0, <3>2, TopIsHead
    <3>4. t \notin ToSet(wait_queue) /\ winfo'[t] = cnt
      BY <1>0, <1>t, <2>1, <3>1
    <3>5. \A u \in ToSet(wait_queue') : u = t \/ (u \in ToSet(wait_queue) /\ winfo'[u] = winfo[u])
      BY <1>0, <1>t, <3>1, <3>2
    <3>6. \A u \in ToSet(wait_queue') : winfo'[u] \in Nat \ {0}
      BY <2>1, <3>4, <3>5 DEF SemOK
    <3>7. winfo' \in [Tasks -> (0..MaxSem) \cup {NULL}]
      BY <1>t, <3>1
    <3>8. ta_cnt => \A u \in ToSet(wait_queue') : winfo'[u] > semcnt
      <4>1. ta_cnt => cnt > semcnt
        BY <1>t, <2>1, <2>4 DEF may_take
      <4>. QED  BY <3>4, <3>5, <4>1 DEF SemOK, Unserved
    <3>9. winfo'[Head(wait_queue')] > semcnt
      <4>1. CASE Head(wait_queue') = t
        <5>1. cnt > semcnt
          BY <1>t, <2>1, <2>4, <3>3, <4>1 DEF may_take
        <5>. QED  BY <3>4, <4>1, <5>1
      <4>2. CASE Head(wait_queue') # t
        <5>1. wait_queue # <<>> /\ Head(wait_queue') = Head(wait_queue)
          BY <3>3, <4>2 DEF gcb_top_of_wait_queue, isQueEmpty, QueNext
        <5>2. Head(wait_queue) \in Tasks
          BY <1>0, <5>1, MemberPosition
        <5>3. winfo'[Head(wait_queue)] = winfo[Head(wait_queue)]
          BY <1>t, <3>1, <4>2, <5>1, <5>2
        <5>. QED  BY <5>1, <5>3 DEF SemOK, Unserved
      <4>. QED  BY <4>1, <4>2
    <3>. QED  BY <1>t, <2>1, <2>2, <3>1, <3>6, <3>7, <3>8, <3>9 DEF SemOK, SemTypeOK, CountsConserved, Unserved
  <2>. QED  BY <2>3, <2>4
<1>5. ASSUME NEW t \in Tasks, HookedLeave(t, sem_chg_pri)
      PROVE  SemOK'
  <2>. HIDE DEF sem_chg_pri
  <2>. QED  BY <1>5, SemLeave
<1>6. ASSUME NEW t \in Tasks, HookedQuiet(t), UNCHANGED sem
      PROVE  SemOK'
  BY <1>6, SemQuiet
<1>. QED  BY <1>1, <1>2, <1>3, <1>4, <1>5, <1>6 DEF SemNext

-----------------------------------------------------------------------------
(* Nobody is served before a task that stands in front of it.              *)

\* The members in front of q are served, and q is in the order that counts.
LEMMA TurnsKept ==
  ASSUME NEW q \in Seq(Tasks), FirstServed(q, gets'), wait_queue' = Without(q, gets'),
         priority' \in [Tasks -> Pri],
         objatr.tpri => Sorted(q, priority'), ~objatr.tpri => InOrderOf(q, wait_queue)
  PROVE  InOrder
<1>1. ToSet(wait_queue') = ToSet(q) \ gets' /\ priority' \in [Tasks -> Int]
  BY WithoutProperties, PriNumbers
<1>. SUFFICES ASSUME NEW t \in gets', NEW u \in ToSet(wait_queue) \cap ToSet(wait_queue')
              PROVE  IF objatr.tpri THEN ~(priority'[u] < priority'[t])
                     ELSE t \in ToSet(wait_queue) /\ PositionOf(wait_queue, t) < PositionOf(wait_queue, u)
  BY DEF InOrder
<1>2. t \in ToSet(q) /\ u \in ToSet(q) /\ u \notin gets'
  BY <1>1 DEF FirstServed
<1>3. PICK i \in 1..Len(q) : q[i] = t
  BY <1>2, MemberPosition
<1>4. PICK j \in 1..Len(q) : q[j] = u
  BY <1>2, MemberPosition
<1>5. i < j
  BY <1>2, <1>3, <1>4 DEF FirstServed
<1>6. CASE objatr.tpri
  <2>1. priority'[t] <= priority'[u]
    BY <1>3, <1>4, <1>5, <1>6, LenProperties DEF Sorted
  <2>2. priority'[t] \in Int /\ priority'[u] \in Int
    BY <1>1, <1>3, <1>4, ElementOfSeq
  <2>. QED  BY <1>6, <2>1, <2>2
<1>7. CASE ~objatr.tpri
  BY <1>2, <1>3, <1>4, <1>5, <1>7 DEF InOrderOf
<1>. QED  BY <1>6, <1>7

\* HookedLeave of a hook that serves those in front.
LeavesInTurn(t) ==
    /\ t \in ToSet(wait_queue) /\ UNCHANGED gcb
    /\ \E p \in Pri : priority' = [priority EXCEPT ![t] = p]
    /\ \/ /\ FirstServed(QueRemove(wait_queue, t), gets')
          /\ wait_queue' = Without(QueRemove(wait_queue, t), gets')
       \/ /\ objatr.tpri
          /\ FirstServed(gcb_change_priority(wait_queue, t, priority'), gets')
          /\ wait_queue' = Without(gcb_change_priority(wait_queue, t, priority'), gets')

\* Nobody overtakes then.
LEMMA LeaveInTurn ==
  ASSUME GcbOK, NEW t \in Tasks, LeavesInTurn(t)
  PROVE  InOrder
<1>0. /\ Current /\ wait_queue \in Seq(Tasks) /\ IsInjective(wait_queue) /\ priority \in [Tasks -> Pri]
      /\ objatr.tpri => Sorted(wait_queue, priority)
  BY DEF GcbOK, Current, Exact
<1>1. priority' \in [Tasks -> Pri] /\ \A u \in Tasks : u # t => priority'[u] = priority[u]
  BY <1>0 DEF LeavesInTurn
<1>2. CASE FirstServed(QueRemove(wait_queue, t), gets') /\ wait_queue' = Without(QueRemove(wait_queue, t), gets')
  <2>1. PICK q : q = QueRemove(wait_queue, t)
    OBVIOUS
  <2>2. /\ q \in Seq(Tasks) /\ ToSet(q) = ToSet(wait_queue) \ {t} /\ InOrderOf(q, wait_queue)
        /\ objatr.tpri => Sorted(q, priority)
    BY <1>0, <2>1, QueRemoveProperties, QueRemoveSorted, RemoveInOrder
  <2>3. objatr.tpri => Sorted(q, priority')
    <3>1. ToSet(q) \subseteq Tasks
      BY <2>2, MemberPosition
    <3>2. \A x, y \in ToSet(q) : priority[x] <= priority[y] => priority'[x] <= priority'[y]
      BY <1>1, <2>2, <3>1
    <3>3. Sorted(q, priority) => Sorted(q, priority')
      BY <2>2, <3>2, SortedSameOrder
    <3>. QED  BY <2>2, <3>3
  <2>4. FirstServed(q, gets') /\ wait_queue' = Without(q, gets')
    BY <1>2, <2>1
  <2>. QED  BY <1>1, <2>2, <2>3, <2>4, TurnsKept
<1>3. CASE /\ objatr.tpri
           /\ FirstServed(gcb_change_priority(wait_queue, t, priority'), gets')
           /\ wait_queue' = Without(gcb_change_priority(wait_queue, t, priority'), gets')
  <2>1. PICK q : q = gcb_change_priority(wait_queue, t, priority')
    OBVIOUS
  <2>2. Exact(q, state, waitmask, priority', objatr)
    BY <1>0, <1>1, <1>3, <2>1, ExactMoved DEF Current, LeavesInTurn
  <2>3. q \in Seq(Tasks) /\ Sorted(q, priority')
    BY <1>3, <2>2 DEF Exact
  <2>4. FirstServed(q, gets') /\ wait_queue' = Without(q, gets')
    BY <1>3, <2>1
  <2>. QED  BY <1>1, <1>3, <2>3, <2>4, TurnsKept
<1>. QED  BY <1>2, <1>3 DEF LeavesInTurn

\* The members in front of the queue itself are served.
LEMMA ServedInTurn ==
  ASSUME GcbOK, FirstServed(wait_queue, gets'), wait_queue' = Without(wait_queue, gets'),
         UNCHANGED priority
  PROVE  InOrder
<1>1. PICK q : q = wait_queue
  OBVIOUS
<1>2. q \in Seq(Tasks) /\ IsInjective(q) /\ priority \in [Tasks -> Pri] /\ (objatr.tpri => Sorted(q, priority))
  BY <1>1 DEF GcbOK, Current, Exact
<1>3. InOrderOf(q, wait_queue)
  BY <1>1, <1>2, RemoveInOrder
<1>4. FirstServed(q, gets') /\ wait_queue' = Without(q, gets') /\ priority' \in [Tasks -> Pri]
      /\ (objatr.tpri => Sorted(q, priority'))
  BY <1>1, <1>2
<1>. QED  BY <1>2, <1>3, <1>4, TurnsKept

\* A task that would be the first gets it at once.
LEMMA TopInTurn ==
  ASSUME GcbOK, NEW t \in Tasks, gets' = {t}, UNCHANGED <<wait_queue, priority>>,
         gcb_top_of_wait_queue(wait_queue, t, priority, objatr.tpri) = t, t \notin ToSet(wait_queue)
  PROVE  InOrder
<1>0. /\ wait_queue \in Seq(Tasks) /\ priority \in [Tasks -> Int] /\ ToSet(wait_queue) \subseteq Tasks
      /\ objatr.tpri => Sorted(wait_queue, priority)
  BY PriNumbers, MemberPosition DEF GcbOK, Current, Exact
<1>. SUFFICES ASSUME NEW u \in ToSet(wait_queue)
              PROVE  IF objatr.tpri THEN ~(priority[u] < priority[t])
                     ELSE t \in ToSet(wait_queue) /\ PositionOf(wait_queue, t) < PositionOf(wait_queue, u)
  BY DEF InOrder
<1>1. wait_queue # <<>> /\ Head(wait_queue) \in ToSet(wait_queue)
  BY <1>0, MemberPosition
<1>2. objatr.tpri /\ priority[t] < priority[Head(wait_queue)]
  BY <1>1 DEF gcb_top_of_wait_queue, isQueEmpty, QueNext
<1>3. priority[Head(wait_queue)] <= priority[u]
  BY <1>0, <1>1, <1>2, SortedHead
<1>4. priority[Head(wait_queue)] \in Int /\ priority[u] \in Int /\ priority[t] \in Int
  BY <1>0, <1>1
<1>. QED  BY <1>2, <1>3, <1>4

\* Nobody is served.
LEMMA NobodyInTurn ==
  ASSUME gets' = {} \/ ~objid \/ ~objid'
  PROVE  InOrder
BY DEF InOrder

\* The loop of the semaphore serves those in front, without TA_CNT.
LEMMA RelInTurn ==
  ASSUME NEW q \in Seq(Tasks), IsInjective(q), Asking(q), ~ta_cnt, ta_cnt \in BOOLEAN, NEW c \in Nat
  PROVE  FirstServed(q, release_loop(q, c).freed)
<1>. DEFINE k == [cnt |-> c, freed |-> {}, stop |-> FALSE]
<1>1. k \in RelRuns /\ k.freed = {} /\ ~k.stop
  BY DEF RelRuns
<1>. HIDE DEF k
<1>2. PICK f : RelTurns(q, k, f) /\ Loop(q, k, release) = f[Len(q)]
  BY <1>1, RelTurnsExist
<1>3. Len(q) \in Nat /\ f[0] = k /\ \A n \in 1..Len(q) : f[n] = release(f[n - 1], q[n])
  BY <1>2, LenProperties DEF RelTurns
<1>. DEFINE P == {n \in Nat : n <= Len(q) => f[n] \in RelRuns}
<1>4. 0 \in P
  BY <1>1, <1>3
<1>5. ASSUME NEW n \in Nat, n \in P  PROVE n + 1 \in P
  <2>. SUFFICES ASSUME n + 1 <= Len(q)  PROVE f[n + 1] \in RelRuns
    OBVIOUS
  <2>1. f[n] \in RelRuns /\ n + 1 \in 1..Len(q) /\ (n + 1) - 1 = n
    BY <1>3, <1>5
  <2>2. q[n + 1] \in Tasks /\ winfo[q[n + 1]] \in Nat
    BY <2>1 DEF Asking
  <2>3. f[n + 1] = release(f[n], q[n + 1])
    BY <1>3, <2>1
  <2>. QED  BY <2>1, <2>2, <2>3, RelTurn
<1>. HIDE DEF P
<1>6. Nat \subseteq P
  BY <1>4, <1>5, SetInduction
<1>7. ASSUME NEW n \in 1..Len(q)
      PROVE  \/ f[n].freed = f[n - 1].freed /\ f[n].stop
             \/ ~f[n - 1].stop /\ f[n].freed = f[n - 1].freed \cup {q[n]}
  <2>. DEFINE r == f[n - 1]
              s == f[n]
              t == q[n]
  <2>1. r \in RelRuns /\ s = release(r, t)
    <3>1. n - 1 \in Nat /\ n - 1 <= Len(q)
      BY <1>3
    <3>. QED  BY <1>3, <1>6, <3>1 DEF P
  <2>. HIDE DEF r, s, t
  <2>2. CASE r.stop
    BY <2>1, <2>2 DEF release, r, s
  <2>3. CASE ~r.stop /\ r.cnt < winfo[t]
    <3>1. s = [r EXCEPT !.stop = ~ta_cnt]
      BY <2>1, <2>3 DEF release
    <3>2. s.freed = r.freed /\ s.stop = ~ta_cnt
      BY <2>1, <3>1 DEF RelRuns
    <3>. QED  BY <3>2 DEF r, s
  <2>4. CASE ~r.stop /\ ~(r.cnt < winfo[t])
    <3>1. s.freed = r.freed \cup {t}
      BY <2>1, <2>4 DEF release
    <3>. QED  BY <2>4, <3>1 DEF r, s, t
  <2>. QED  BY <2>2, <2>3, <2>4
<1>8. FirstServed(q, f[Len(q)].freed)
  BY <1>1, <1>3, <1>7, ServesInTurn
<1>. QED  BY <1>2, <1>8 DEF release_loop, k

\* The semaphore: without TA_CNT nobody overtakes.
LEMMA SemInTurn ==
  ASSUME SemOK, GcbOK, SemNext
  PROVE  CountsInOrder
<1>. SUFFICES ASSUME ~ta_cnt  PROVE InOrder
  BY DEF CountsInOrder
<1>0. /\ wait_queue \in Seq(Tasks) /\ ToSet(wait_queue) \subseteq Tasks /\ IsInjective(wait_queue)
      /\ \A u \in Tasks : u \in ToSet(wait_queue) <=> state[u] = "WAIT"
      /\ priority \in [Tasks -> Pri] /\ Current
  BY MemberPosition DEF GcbOK, Current, Exact
<1>t. /\ ta_cnt \in BOOLEAN /\ semcnt \in Nat /\ \A t \in ToSet(wait_queue) : winfo[t] \in Nat \ {0}
  BY SemaphoreAssumption DEF SemOK, SemTypeOK
<1>l. ASSUME NEW q \in Seq(Tasks), IsInjective(q), \A u \in ToSet(q) : u \in ToSet(wait_queue), NEW c \in Nat
      PROVE  FirstServed(q, release_loop(q, c).freed)
  <2>1. Asking(q)
    BY <1>t, <1>l, MemberPosition DEF Asking
  <2>. QED  BY <1>t, <1>l, <2>1, RelInTurn
<1>1. ASSUME NEW atr \in Attributes, NEW cnt \in BOOLEAN, NEW max \in 1..MaxSem, NEW icnt \in 0..MaxSem,
             CreSem(atr, cnt, icnt, max)
      PROVE  InOrder
  BY <1>1, NobodyInTurn DEF CreSem
<1>2. CASE DelSem
  BY <1>2, NobodyInTurn DEF DelSem, HookedDelete
<1>3. ASSUME NEW cnt \in 1..MaxSem, SigSem(cnt)
      PROVE  InOrder
  <2>1. PICK c : c = semcnt + cnt
    OBVIOUS
  <2>2. /\ wait_queue' = Without(wait_queue, gets') /\ gets' = release_loop(wait_queue, c).freed
        /\ UNCHANGED priority /\ c \in Nat
    BY <1>3, <1>t, <2>1 DEF SigSem, Freed
  <2>. HIDE DEF release_loop
  <2>3. FirstServed(wait_queue, gets')
    BY <1>0, <1>l, <2>2
  <2>. QED  BY <2>2, <2>3, ServedInTurn
<1>4. ASSUME NEW t \in Tasks, NEW cnt \in 1..MaxSem, WaiSem(t, cnt)
      PROVE  InOrder
  <2>1. CASE may_take(t, cnt)
    <3>1. /\ gets' = {t} /\ UNCHANGED <<wait_queue, priority>> /\ state[t] = "READY"
          /\ gcb_top_of_wait_queue(wait_queue, t, priority, objatr.tpri) = t
      BY <1>4, <2>1 DEF WaiSem, may_take
    <3>2. t \notin ToSet(wait_queue)
      BY <1>0, <3>1
    <3>. QED  BY <3>1, <3>2, TopInTurn
  <2>2. CASE ~may_take(t, cnt)
    BY <1>4, <2>2, NobodyInTurn DEF WaiSem, hook_make_wait
  <2>. QED  BY <2>1, <2>2
<1>5. ASSUME NEW t \in Tasks, HookedLeave(t, sem_chg_pri)
      PROVE  InOrder
  <2>1. /\ state[t] = "WAIT" /\ UNCHANGED gcb
        /\ \/ /\ sem_chg_pri(QueRemove(wait_queue, t))
              /\ \E p \in {priority[t], INI_PRI} : priority' = [priority EXCEPT ![t] = p]
           \/ /\ objatr.tpri
              /\ \E p \in Pri : priority' = [priority EXCEPT ![t] = p]
              /\ sem_chg_pri(gcb_change_priority(wait_queue, t, priority'))
    <3>1. priority = [priority EXCEPT ![t] = priority[t]]
      BY <1>0
    <3>. HIDE DEF sem_chg_pri
    <3>. QED  BY <1>5, <3>1 DEF HookedLeave, leave
  <2>2. t \in ToSet(wait_queue) /\ priority[t] \in Pri /\ INI_PRI \in Pri
    BY <1>0, <2>1, ObjectAssumption
  <2>3. ASSUME NEW q \in Seq(Tasks), IsInjective(q), \A u \in ToSet(q) : u \in ToSet(wait_queue), sem_chg_pri(q)
        PROVE  FirstServed(q, gets') /\ wait_queue' = Without(q, gets')
    BY <1>l, <1>t, <2>3 DEF sem_chg_pri, Freed
  <2>4. CASE sem_chg_pri(QueRemove(wait_queue, t)) /\ \E p \in Pri : priority' = [priority EXCEPT ![t] = p]
    <3>1. PICK q : q = QueRemove(wait_queue, t)
      OBVIOUS
    <3>. HIDE DEF sem_chg_pri
    <3>2. q \in Seq(Tasks) /\ IsInjective(q) /\ \A u \in ToSet(q) : u \in ToSet(wait_queue)
      BY <1>0, <3>1, QueRemoveProperties
    <3>3. FirstServed(q, gets') /\ wait_queue' = Without(q, gets')
      BY <2>3, <2>4, <3>1, <3>2
    <3>4. LeavesInTurn(t)
      BY <2>1, <2>2, <2>4, <3>1, <3>3 DEF LeavesInTurn
    <3>. QED  BY <3>4, LeaveInTurn
  <2>5. CASE /\ objatr.tpri
             /\ \E p \in Pri : priority' = [priority EXCEPT ![t] = p]
             /\ sem_chg_pri(gcb_change_priority(wait_queue, t, priority'))
    <3>1. PICK q : q = gcb_change_priority(wait_queue, t, priority')
      OBVIOUS
    <3>. HIDE DEF sem_chg_pri
    <3>2. priority' \in [Tasks -> Pri] /\ \A u \in Tasks : u # t => priority'[u] = priority[u]
      BY <1>0, <2>5
    <3>3. Exact(q, state, waitmask, priority', objatr)
      BY <1>0, <2>2, <2>5, <3>1, <3>2, ExactMoved DEF Current
    <3>4. q \in Seq(Tasks) /\ IsInjective(q) /\ \A u \in ToSet(q) : u \in ToSet(wait_queue)
      BY <1>0, <3>3, MemberPosition DEF Exact
    <3>5. FirstServed(q, gets') /\ wait_queue' = Without(q, gets')
      BY <2>3, <2>5, <3>1, <3>4
    <3>6. LeavesInTurn(t)
      BY <2>1, <2>2, <2>5, <3>1, <3>5 DEF LeavesInTurn
    <3>. QED  BY <3>6, LeaveInTurn
  <2>. HIDE DEF sem_chg_pri
  <2>. QED  BY <2>1, <2>2, <2>4, <2>5
<1>6. ASSUME NEW t \in Tasks, HookedQuiet(t)
      PROVE  InOrder
  BY <1>6, NobodyInTurn DEF HookedQuiet
<1>. HIDE DEF sem_chg_pri
<1>. QED  BY <1>1, <1>2, <1>3, <1>4, <1>5, <1>6 DEF SemNext

\* f goes through the turns of mpl_wakeup.
Handings(q, k, f) ==
    f = [n \in 0..Len(q) |-> IF n = 0 THEN k ELSE wakeup_task(f[n - 1], q[n])]

\* The loop is one of them.
LEMMA HandingsExist ==
  ASSUME NEW q \in Seq(Tasks), NEW k
  PROVE  \E f : Handings(q, k, f) /\ Loop(q, k, wakeup_task) = f[Len(q)]
<1>. DEFINE N == Len(q)
            Upto(n, f) == f = [m \in 0..n |-> IF m = 0 THEN k ELSE wakeup_task(f[m - 1], q[m])]
            P == {n \in Nat : n <= N => \E f : Upto(n, f)}
<1>1. N \in Nat
  OBVIOUS
<1>. HIDE DEF wakeup_task
<1>2. 0 \in P
  <2>1. [m \in 0..0 |-> k] = [m \in 0..0 |-> IF m = 0 THEN k ELSE wakeup_task([l \in 0..0 |-> k][m - 1], q[m])]
    OBVIOUS
  <2>. QED  BY <2>1
<1>3. ASSUME NEW n \in Nat, n \in P  PROVE n + 1 \in P
  <2>. HIDE DEF Upto
  <2>. SUFFICES ASSUME n + 1 <= N  PROVE \E f : Upto(n + 1, f)
    OBVIOUS
  <2>0. PICK g : Upto(n, g)
    BY <1>1, <1>3
  <2>1. g = [m \in 0..n |-> IF m = 0 THEN k ELSE wakeup_task(g[m - 1], q[m])]
    BY <2>0 DEF Upto
  <2>. DEFINE h == [m \in 0..(n + 1) |-> IF m = n + 1 THEN wakeup_task(g[n], q[n + 1]) ELSE g[m]]
  <2>2. ASSUME NEW m \in 0..(n + 1)
        PROVE  h[m] = IF m = 0 THEN k ELSE wakeup_task(h[m - 1], q[m])
    <3>1. CASE m = n + 1
      <4>1. h[m] = wakeup_task(g[n], q[n + 1]) /\ m - 1 = n /\ n \in 0..(n + 1) /\ n # n + 1 /\ m # 0
        BY <3>1
      <4>2. h[m - 1] = g[n]
        BY <4>1
      <4>. QED  BY <3>1, <4>1, <4>2
    <3>2. CASE m # n + 1 /\ m # 0
      <4>1. m \in 0..n /\ m - 1 \in 0..(n + 1) /\ m - 1 # n + 1
        BY <3>2
      <4>2. h[m] = g[m] /\ h[m - 1] = g[m - 1]
        BY <3>2, <4>1
      <4>3. g[m] = wakeup_task(g[m - 1], q[m])
        BY <2>1, <3>2, <4>1
      <4>. QED  BY <3>2, <4>2, <4>3
    <3>3. CASE m = 0
      <4>1. m \in 0..n /\ m # n + 1
        BY <3>3
      <4>. QED  BY <2>1, <3>3, <4>1
    <3>. QED  BY <3>1, <3>2, <3>3
  <2>3. h = [m \in 0..(n + 1) |-> IF m = 0 THEN k ELSE wakeup_task(h[m - 1], q[m])]
    <3>1. h = [m \in 0..(n + 1) |-> h[m]]
      OBVIOUS
    <3>. HIDE DEF h
    <3>. QED  BY <2>2, <3>1
  <2>4. Upto(n + 1, h)
    BY <2>3 DEF Upto
  <2>. QED  BY <2>4
<1>. HIDE DEF P
<1>4. Nat \subseteq P
  BY <1>2, <1>3, SetInduction
<1>5. \E f : Handings(q, k, f)
  <2>1. PICK f : Upto(N, f)
    <3>. HIDE DEF Upto, N
    <3>. QED  BY <1>1, <1>4 DEF P
  <2>. QED  BY <2>1 DEF Handings, N
<1>. DEFINE after == CHOOSE after : after = [n \in 0..Len(q) |-> IF n = 0 THEN k ELSE wakeup_task(after[n - 1], q[n])]
<1>6. Loop(q, k, wakeup_task) = after[Len(q)]
  BY DEF Loop
<1>7. Handings(q, k, after)
  <2>1. \E f : f = [n \in 0..Len(q) |-> IF n = 0 THEN k ELSE wakeup_task(f[n - 1], q[n])]
    BY <1>5 DEF Handings
  <2>2. after = [n \in 0..Len(q) |-> IF n = 0 THEN k ELSE wakeup_task(after[n - 1], q[n])]
    BY <2>1, Zenon
  <2>. QED  BY <2>2, Zenon DEF Handings
<1>. HIDE DEF after
<1>. QED  BY <1>6, <1>7

PoolFields == {"area", "use", "free", "blocks", "freed", "stop"}

\* get_blk and rel_blk do not look at who was served.
LEMMA PoolServed ==
  ASSUME NEW k, DOMAIN k = PoolFields, NEW x
  PROVE  /\ DOMAIN get_blk(k, x) = PoolFields /\ get_blk(k, x).freed = k.freed /\ get_blk(k, x).stop = k.stop
         /\ DOMAIN rel_blk(k, x) = PoolFields /\ rel_blk(k, x).freed = k.freed /\ rel_blk(k, x).stop = k.stop
<1>. DEFINE Same(r) == DOMAIN r = PoolFields /\ r.freed = k.freed /\ r.stop = k.stop
<1>1. Same(k)
  OBVIOUS
<1>2. ASSUME NEW r, Same(r), NEW a, NEW b
      PROVE  /\ Same(appendFreeArea(r, a)) /\ Same(removeFreeQue(r, a))
             /\ Same(insertAreaQue(r, a, b)) /\ Same(removeAreaQue(r, a))
             /\ Same([r EXCEPT !.use = a, !.blocks = b])
  BY <1>2 DEF appendFreeArea, removeFreeQue, insertAreaQue, removeAreaQue, PoolFields
<1>3. Same(get_blk(k, x))
  <2>. DEFINE a == k.free[searchFreeArea(k, x)]
              r == removeFreeQue(k, a)
              rest == a + 1 + x
              s == IF AreaSize(k, a) - x >= MinFragment + 1
                     THEN appendFreeArea(insertAreaQue(r, a, rest), rest) ELSE r
  <2>1. get_blk(k, x) = [s EXCEPT !.use = @ \cup {a}, !.blocks = @ \cup {a}]
    BY DEF get_blk
  <2>. HIDE DEF a, rest
  <2>2. Same(r)
    BY <1>1, <1>2
  <2>. HIDE DEF r, Same
  <2>3. Same(s)
    BY <1>2, <2>2
  <2>. HIDE DEF s
  <2>. QED  BY <2>1, <2>3 DEF Same, PoolFields
<1>4. Same(rel_blk(k, x))
  <2>. DEFINE z == [k EXCEPT !.use = @ \ {x}, !.blocks = @ \ {x}]
              r == merge_next(z, x)
              i == PositionOf(r.area, x)
              p == r.area[i - 1]
  <2>1. rel_blk(k, x) = IF i = 1 \/ p \in r.use THEN appendFreeArea(r, x)
                        ELSE appendFreeArea(removeAreaQue(removeFreeQue(r, p), x), p)
    BY DEF rel_blk
  <2>2. z = [k EXCEPT !.use = k.use \ {x}, !.blocks = k.blocks \ {x}]
    OBVIOUS
  <2>3. Same(z)
    <3>. HIDE DEF Same, z
    <3>. QED  BY <1>1, <1>2, <2>2
  <2>. HIDE DEF z, Same, i, p
  <2>4. Same(r)
    BY <1>2, <2>3 DEF merge_next
  <2>. HIDE DEF r
  <2>. QED  BY <1>2, <2>1, <2>4
<1>. QED  BY <1>3, <1>4

\* mpl_wakeup serves those in front.
LEMMA MplServesInTurn ==
  ASSUME NEW q \in Seq(Tasks), IsInjective(q), NEW k, DOMAIN k = PoolFields, k.freed = {}, ~k.stop
  PROVE  FirstServed(q, Loop(q, k, wakeup_task).freed)
<1>1. PICK f : Handings(q, k, f) /\ Loop(q, k, wakeup_task) = f[Len(q)]
  BY HandingsExist
<1>. DEFINE N == Len(q)
            P == {n \in Nat : n <= N => DOMAIN f[n] = PoolFields}
<1>2. N \in Nat
  BY LenProperties
<1>3. f[0] = k /\ \A n \in 1..N : f[n] = wakeup_task(f[n - 1], q[n])
  <2>1. 0 \in 0..N /\ \A n \in 1..N : n \in 0..N /\ n # 0
    BY <1>2
  <2>. HIDE DEF wakeup_task
  <2>. QED  BY <1>1, <2>1 DEF Handings
<1>4. ASSUME NEW r, DOMAIN r = PoolFields, NEW t
      PROVE  /\ DOMAIN wakeup_task(r, t) = PoolFields
             /\ \/ wakeup_task(r, t).freed = r.freed /\ wakeup_task(r, t).stop
                \/ ~r.stop /\ wakeup_task(r, t).freed = r.freed \cup {t}
  <2>1. CASE r.stop \/ winfo[t] > MaxFreeSize(r)
    <3>1. wakeup_task(r, t) = [r EXCEPT !.stop = TRUE]
      BY <2>1 DEF wakeup_task
    <3>. QED  BY <1>4, <3>1 DEF PoolFields
  <2>2. CASE ~(r.stop \/ winfo[t] > MaxFreeSize(r))
    <3>. DEFINE u == get_blk(r, winfo[t])
    <3>1. wakeup_task(r, t) = [u EXCEPT !.freed = @ \cup {t}]
      BY <2>2 DEF wakeup_task
    <3>2. DOMAIN u = PoolFields /\ u.freed = r.freed
      BY <1>4, PoolServed
    <3>. HIDE DEF u
    <3>. QED  BY <2>2, <3>1, <3>2 DEF PoolFields
  <2>. QED  BY <2>1, <2>2
<1>. HIDE DEF wakeup_task
<1>5. 0 \in P
  BY <1>3
<1>6. ASSUME NEW n \in Nat, n \in P  PROVE n + 1 \in P
  <2>. SUFFICES ASSUME n + 1 <= N  PROVE DOMAIN f[n + 1] = PoolFields
    OBVIOUS
  <2>1. DOMAIN f[n] = PoolFields /\ n + 1 \in 1..N /\ (n + 1) - 1 = n
    BY <1>2, <1>6
  <2>2. f[n + 1] = wakeup_task(f[n], q[n + 1])
    BY <1>3, <2>1
  <2>. QED  BY <1>4, <2>1, <2>2
<1>. HIDE DEF P
<1>7. Nat \subseteq P
  BY <1>5, <1>6, SetInduction
<1>8. ASSUME NEW n \in 1..N
      PROVE  \/ f[n].freed = f[n - 1].freed /\ f[n].stop
             \/ ~f[n - 1].stop /\ f[n].freed = f[n - 1].freed \cup {q[n]}
  <2>1. n - 1 \in Nat /\ n - 1 <= N
    BY <1>2
  <2>2. DOMAIN f[n - 1] = PoolFields /\ f[n] = wakeup_task(f[n - 1], q[n])
    BY <1>3, <1>7, <2>1 DEF P
  <2>. QED  BY <1>4, <2>2
<1>9. FirstServed(q, f[N].freed)
  BY <1>3, <1>8, ServesInTurn
<1>. QED  BY <1>1, <1>9

\* The variable-size pool: nobody overtakes.
LEMMA MplInTurn ==
  ASSUME GcbOK, MplNext
  PROVE  InOrder
<1>0. /\ wait_queue \in Seq(Tasks) /\ ToSet(wait_queue) \subseteq Tasks /\ IsInjective(wait_queue)
      /\ \A u \in Tasks : u \in ToSet(wait_queue) <=> state[u] = "WAIT"
      /\ priority \in [Tasks -> Pri] /\ Current
  BY MemberPosition DEF GcbOK, Current, Exact
<1>p. DOMAIN Pool = PoolFields /\ Pool.freed = {} /\ ~Pool.stop
  BY DEF Pool, PoolFields
<1>l. ASSUME NEW q \in Seq(Tasks), IsInjective(q), NEW k, DOMAIN k = PoolFields, k.freed = {}, ~k.stop,
             mpl_wakeup(q, k)
      PROVE  FirstServed(q, gets') /\ wait_queue' = Without(q, gets')
  <2>1. wait_queue' = Without(q, gets') /\ gets' = Loop(q, k, wakeup_task).freed
    BY <1>l DEF mpl_wakeup
  <2>. QED  BY <1>l, <2>1, MplServesInTurn
<1>1. ASSUME NEW atr \in Attributes, NEW sz \in MplSizes, CreMpl(atr, sz)
      PROVE  InOrder
  BY <1>1, NobodyInTurn DEF CreMpl
<1>2. CASE DelMpl
  BY <1>2, NobodyInTurn DEF DelMpl, HookedDelete
<1>3. ASSUME NEW a \in blocks, RelMpl(a)
      PROVE  InOrder
  <2>1. PICK q : q = wait_queue
    OBVIOUS
  <2>2. PICK k : k = rel_blk(Pool, a)
    OBVIOUS
  <2>3. DOMAIN k = PoolFields /\ k.freed = {} /\ ~k.stop
    BY <1>p, <2>2, PoolServed
  <2>4. mpl_wakeup(q, k) /\ UNCHANGED priority
    <3>. HIDE DEF mpl_wakeup
    <3>. QED  BY <1>3, <2>1, <2>2 DEF RelMpl
  <2>5. FirstServed(q, gets') /\ wait_queue' = Without(q, gets')
    <3>. HIDE DEF mpl_wakeup
    <3>. QED  BY <1>0, <1>l, <2>1, <2>3, <2>4
  <2>. QED  BY <2>1, <2>4, <2>5, ServedInTurn
<1>4. ASSUME NEW t \in Tasks, NEW blksz \in BlkSizes, GetMpl(t, blksz)
      PROVE  InOrder
  <2>1. state[t] = "READY" /\ UNCHANGED priority
    BY <1>4 DEF GetMpl
  <2>2. \/ gets' = {t} /\ UNCHANGED wait_queue /\ may_get(t)
        \/ gets' = {}
    BY <1>4 DEF GetMpl, hook_make_wait
  <2>3. t \notin ToSet(wait_queue)
    BY <1>0, <2>1
  <2>4. CASE gets' = {t} /\ UNCHANGED wait_queue /\ may_get(t)
    BY <2>1, <2>3, <2>4, TopInTurn DEF may_get
  <2>. QED  BY <2>2, <2>4, NobodyInTurn
<1>5. ASSUME NEW t \in Tasks, HookedLeave(t, mpl_chg_pri)
      PROVE  InOrder
  <2>1. /\ state[t] = "WAIT" /\ UNCHANGED gcb
        /\ \/ /\ mpl_chg_pri(QueRemove(wait_queue, t))
              /\ \E p \in {priority[t], INI_PRI} : priority' = [priority EXCEPT ![t] = p]
           \/ /\ objatr.tpri
              /\ \E p \in Pri : priority' = [priority EXCEPT ![t] = p]
              /\ mpl_chg_pri(gcb_change_priority(wait_queue, t, priority'))
    <3>1. priority = [priority EXCEPT ![t] = priority[t]]
      BY <1>0
    <3>. HIDE DEF mpl_chg_pri
    <3>. QED  BY <1>5, <3>1 DEF HookedLeave, leave
  <2>2. t \in ToSet(wait_queue) /\ priority[t] \in Pri /\ INI_PRI \in Pri
    BY <1>0, <2>1, ObjectAssumption
  <2>3. ASSUME NEW q \in Seq(Tasks), IsInjective(q), mpl_chg_pri(q)
        PROVE  FirstServed(q, gets') /\ wait_queue' = Without(q, gets')
    <3>1. PICK k : k = Pool
      OBVIOUS
    <3>2. mpl_wakeup(q, k)
      <4>. HIDE DEF mpl_wakeup
      <4>. QED  BY <2>3, <3>1 DEF mpl_chg_pri
    <3>. HIDE DEF mpl_wakeup
    <3>. QED  BY <1>l, <1>p, <2>3, <3>1, <3>2
  <2>4. CASE mpl_chg_pri(QueRemove(wait_queue, t)) /\ \E p \in Pri : priority' = [priority EXCEPT ![t] = p]
    <3>1. PICK q : q = QueRemove(wait_queue, t)
      OBVIOUS
    <3>. HIDE DEF mpl_chg_pri
    <3>2. q \in Seq(Tasks) /\ IsInjective(q)
      BY <1>0, <3>1, QueRemoveProperties
    <3>3. FirstServed(q, gets') /\ wait_queue' = Without(q, gets')
      BY <2>3, <2>4, <3>1, <3>2
    <3>4. LeavesInTurn(t)
      BY <2>1, <2>2, <2>4, <3>1, <3>3 DEF LeavesInTurn
    <3>. QED  BY <3>4, LeaveInTurn
  <2>5. CASE /\ objatr.tpri
             /\ \E p \in Pri : priority' = [priority EXCEPT ![t] = p]
             /\ mpl_chg_pri(gcb_change_priority(wait_queue, t, priority'))
    <3>1. PICK q : q = gcb_change_priority(wait_queue, t, priority')
      OBVIOUS
    <3>. HIDE DEF mpl_chg_pri
    <3>2. priority' \in [Tasks -> Pri] /\ \A u \in Tasks : u # t => priority'[u] = priority[u]
      BY <1>0, <2>5
    <3>3. Exact(q, state, waitmask, priority', objatr)
      BY <1>0, <2>2, <2>5, <3>1, <3>2, ExactMoved DEF Current
    <3>4. q \in Seq(Tasks) /\ IsInjective(q)
      BY <3>3 DEF Exact
    <3>5. FirstServed(q, gets') /\ wait_queue' = Without(q, gets')
      BY <2>3, <2>5, <3>1, <3>4
    <3>6. LeavesInTurn(t)
      BY <2>1, <2>2, <2>5, <3>1, <3>5 DEF LeavesInTurn
    <3>. QED  BY <3>6, LeaveInTurn
  <2>. HIDE DEF mpl_chg_pri
  <2>. QED  BY <2>1, <2>2, <2>4, <2>5
<1>6. ASSUME NEW t \in Tasks, HookedQuiet(t)
      PROVE  InOrder
  BY <1>6, NobodyInTurn DEF HookedQuiet
<1>. HIDE DEF mpl_chg_pri
<1>. QED  BY <1>1, <1>2, <1>3, <1>4, <1>5, <1>6 DEF MplNext

-----------------------------------------------------------------------------
(* The variable-size memory pool: its pieces tile the area.                *)

-----------------------------------------------------------------------------
\* The pieces cover the area of the end mark e, none too small to stand alone.
Tiled(A, e) == /\ 0 \in A /\ e \in A /\ A \subseteq Nat
               /\ \A a \in A : a <= e
               /\ \A a, b \in A : a < b => b - a > MinFragment

Areas(k, e) == Rising(k.area) /\ Tiled(ToSet(k.area), e)

\* The free queue holds X, in the order of sizes.
Free(k, X) == /\ k.free \in Seq(X) /\ ToSet(k.free) = X /\ IsInjective(k.free)
              /\ Sorted(k.free, [x \in X |-> AreaSize(k, x)])

\* A pool of the end mark e.
PoolOK(k, e) ==
    /\ DOMAIN k = PoolFields /\ Areas(k, e)
    /\ e \in k.use /\ k.use \subseteq ToSet(k.area) /\ k.blocks = k.use \ {e}
    /\ Free(k, ToSet(k.area) \ k.use)
    /\ \A a, b : Adjacent(ToSet(k.area), a, b) => a \in k.use \/ b \in k.use

\* Every piece has a next one, and its size is the distance.
LEMMA NextArea ==
  ASSUME NEW k, NEW e, Areas(k, e), NEW a \in ToSet(k.area), a # e
  PROVE  /\ Adjacent(ToSet(k.area), a, next_area(k, a))
         /\ next_area(k, a) \in Nat /\ a \in Nat
         /\ AreaSize(k, a) = next_area(k, a) - a - 1
         /\ AreaSize(k, a) \in Nat
         /\ \A b : Adjacent(ToSet(k.area), a, b) => b = next_area(k, a)
<1>. DEFINE A == ToSet(k.area)
            n == next_area(k, a)
<1>1. A \subseteq Nat /\ e \in A /\ a <= e /\ \A x, y \in A : x < y => y - x > MinFragment
  BY DEF Areas, Tiled
<1>2. a < e
  BY <1>1
<1>3. Adjacent(A, a, n)
  BY <1>1, <1>2, Neighbours DEF Areas, next_area
<1>. HIDE DEF n
<1>4. n \in Nat /\ a \in Nat /\ n \in A /\ a < n /\ n - a > MinFragment
  BY <1>1, <1>3 DEF Adjacent
<1>5. n - a - 1 \in Nat
  BY <1>4, MplAssumption
<1>6. \A b : Adjacent(A, a, b) => b = n
  <2>. SUFFICES ASSUME NEW b, Adjacent(A, a, b)  PROVE b = n
    OBVIOUS
  <2>1. b \in Nat /\ a < b /\ ~(b < n) /\ ~(n < b)
    BY <1>1, <1>3, <1>4 DEF Adjacent
  <2>. QED  BY <1>4, <2>1
<1>7. AreaSize(k, a) = n - a - 1
  BY DEF AreaSize, n
<1>. QED  BY <1>3, <1>4, <1>5, <1>6, <1>7 DEF n

\* The size depends on the next piece only.
LEMMA SameSize ==
  ASSUME NEW k, NEW m, NEW e, Areas(k, e), Areas(m, e), NEW a, a # e,
         Adjacent(ToSet(m.area), a, next_area(k, a)), a \in ToSet(k.area)
  PROVE  AreaSize(m, a) = AreaSize(k, a)
<1>1. a \in ToSet(m.area)
  BY DEF Adjacent
<1>2. PICK n : n = next_area(k, a)
  OBVIOUS
<1>3. Adjacent(ToSet(m.area), a, n)
  BY <1>2
<1>4. n = next_area(m, a)
  BY <1>1, <1>3, NextArea
<1>. QED  BY <1>2, <1>4 DEF AreaSize

\* A change of the pieces that leaves the free ones their sizes.
LEMMA FreeSame ==
  ASSUME NEW k, NEW m, NEW X, Free(k, X), m.free = k.free, \A x \in X : AreaSize(m, x) = AreaSize(k, x)
  PROVE  Free(m, X)
<1>1. [x \in X |-> AreaSize(m, x)] = [x \in X |-> AreaSize(k, x)]
  OBVIOUS
<1>. HIDE DEF AreaSize
<1>. QED  BY <1>1 DEF Free

\* appendFreeArea
LEMMA AppendFree ==
  ASSUME NEW k, DOMAIN k = PoolFields, NEW X, Free(k, X), NEW a, a \notin X,
         \A x \in X \cup {a} : AreaSize(k, x) \in Int
  PROVE  LET m == appendFreeArea(k, a)
         IN  /\ DOMAIN m = PoolFields /\ m.area = k.area /\ m.use = k.use \ {a} /\ m.blocks = k.blocks
             /\ Free(m, X \cup {a})
<1>. DEFINE Y == X \cup {a}
            key == [x \in Y |-> AreaSize(k, x)]
            old == [x \in X |-> AreaSize(k, x)]
            m == appendFreeArea(k, a)
            q == k.free
<1>1. /\ DOMAIN m = PoolFields /\ m.area = k.area /\ m.use = k.use \ {a} /\ m.blocks = k.blocks
      /\ m.free = LET i == SelectInSeq(k.free, LAMBDA b : AreaSize(k, b) > AreaSize(k, a))
                  IN  IF i = 0 THEN Append(k.free, a) ELSE InsertAt(k.free, i, a)
  BY DEF appendFreeArea, PoolFields
<1>2. q \in Seq(X) /\ ToSet(q) = X /\ IsInjective(q) /\ Sorted(q, old)
  BY DEF Free
<1>3. Len(q) \in Nat /\ \A i \in 1..Len(q) : q[i] \in X
  BY <1>2, LenProperties, ElementOfSeq
<1>4. q \in Seq(Y)
  BY <1>2
<1>. HIDE DEF AreaSize
<1>5. key \in [Y -> Int]
  OBVIOUS
<1>6. Sorted(q, key)
  <2>1. \A x, y \in ToSet(q) : old[x] <= old[y] => key[x] <= key[y]
    BY <1>2
  <2>. HIDE DEF key, old
  <2>. QED  BY <1>2, <2>1, SortedSameOrder
<1>7. m.free = PutAt(q, Place(q, key, a), a)
  <2>1. {i \in 1..Len(q) : AreaSize(k, q[i]) > AreaSize(k, a)} = {i \in 1..Len(q) : key[q[i]] > key[a]}
    BY <1>3
  <2>. HIDE DEF m, key
  <2>2. SelectInSeq(q, LAMBDA b : AreaSize(k, b) > AreaSize(k, a)) = Place(q, key, a)
    BY <2>1 DEF SelectInSeq, Place
  <2>. QED  BY <1>1, <2>2 DEF PutAt
<1>8. a \in Y
  OBVIOUS
<1>. HIDE DEF key, m, Y
<1>9. m.free \in Seq(Y) /\ ToSet(m.free) = X \cup {a} /\ IsInjective(m.free) /\ Sorted(m.free, key)
  BY <1>2, <1>4, <1>5, <1>6, <1>7, <1>8, SortedInsert
<1>10. \A x : AreaSize(m, x) = AreaSize(k, x)
  BY <1>1 DEF AreaSize, next_area
<1>11. [x \in X \cup {a} |-> AreaSize(m, x)] = key
  BY <1>10 DEF key, Y
<1>12. Free(m, X \cup {a})
  BY <1>9, <1>11 DEF Free, Y
<1>. QED  BY <1>1, <1>12 DEF m

\* removeFreeQue
LEMMA RemoveFree ==
  ASSUME NEW k, DOMAIN k = PoolFields, NEW X, Free(k, X), NEW a
  PROVE  LET m == removeFreeQue(k, a)
         IN  /\ DOMAIN m = PoolFields /\ m.area = k.area /\ m.use = k.use /\ m.blocks = k.blocks
             /\ Free(m, X \ {a})
<1>. DEFINE m == removeFreeQue(k, a)
            Y == X \ {a}
            old == [x \in X |-> AreaSize(k, x)]
            key == [x \in Y |-> AreaSize(m, x)]
<1>1. /\ DOMAIN m = PoolFields /\ m.area = k.area /\ m.use = k.use /\ m.blocks = k.blocks
      /\ m.free = QueRemove(k.free, a)
  BY DEF removeFreeQue, PoolFields
<1>2. k.free \in Seq(X) /\ ToSet(k.free) = X /\ IsInjective(k.free) /\ Sorted(k.free, old)
  BY DEF Free
<1>. HIDE DEF m, old
<1>3. m.free \in Seq(X) /\ ToSet(m.free) = Y /\ IsInjective(m.free) /\ Sorted(m.free, old)
  BY <1>1, <1>2, QueRemoveProperties, QueRemoveSorted
<1>4. \A x : AreaSize(m, x) = AreaSize(k, x)
  BY <1>1 DEF AreaSize, next_area
<1>. HIDE DEF AreaSize
<1>5. Len(m.free) \in Nat /\ \A i \in 1..Len(m.free) : m.free[i] \in Y
  BY <1>3, LenProperties, MemberPosition
<1>6. m.free \in Seq(Y)
  BY <1>3, <1>5
<1>7. Sorted(m.free, key)
  <2>1. \A x, y \in ToSet(m.free) : old[x] <= old[y] => key[x] <= key[y]
    BY <1>3, <1>4 DEF old
  <2>. HIDE DEF key
  <2>. QED  BY <1>3, <2>1, SortedSameOrder
<1>. QED  BY <1>1, <1>3, <1>6, <1>7 DEF Free, m

\* searchFreeArea finds a piece when there is one that is large enough.
LEMMA Search ==
  ASSUME NEW k, NEW X, Free(k, X), \A x \in X : AreaSize(k, x) \in Nat, NEW w \in Nat
  PROVE  /\ can_get(k, w) <=> \E x \in X : AreaSize(k, x) >= w
         /\ can_get(k, w) => /\ k.free[searchFreeArea(k, w)] \in X
                             /\ AreaSize(k, k.free[searchFreeArea(k, w)]) >= w
<1>. DEFINE N == Len(k.free)
            I == {i \in 1..N : AreaSize(k, k.free[i]) >= w}
            i == SelectInSeq(k.free, LAMBDA a : AreaSize(k, a) >= w)
<1>1. /\ k.free \in Seq(X) /\ N \in Nat /\ \A j \in 1..N : k.free[j] \in X
      /\ \A x \in X : \E j \in 1..N : k.free[j] = x
  BY MemberPosition, LenProperties, ElementOfSeq DEF Free
<1>. HIDE DEF AreaSize
<1>2. CASE I = {}
  <2>1. i = 0
    BY <1>2 DEF SelectInSeq
  <2>. HIDE DEF i
  <2>2. searchFreeArea(k, w) = N + 1
    BY <2>1 DEF searchFreeArea, i
  <2>3. ~can_get(k, w)
    BY <1>1, <2>2 DEF can_get
  <2>4. \A j \in 1..N : ~(AreaSize(k, k.free[j]) >= w)
    BY <1>2
  <2>. QED  BY <1>1, <2>3, <2>4
<1>3. CASE I # {}
  <2>1. i = Min(I)
    BY <1>3 DEF SelectInSeq
  <2>0. I \in SUBSET Nat
    BY <1>1
  <2>2. Min(I) \in I
    <3>. HIDE DEF I
    <3>. QED  BY <1>3, <2>0, MinPosition
  <2>. HIDE DEF i
  <2>3. i \in 1..N /\ AreaSize(k, k.free[i]) >= w /\ i # 0
    BY <2>1, <2>2
  <2>4. searchFreeArea(k, w) = i
    BY <2>3 DEF searchFreeArea, i
  <2>5. can_get(k, w) /\ k.free[i] \in X
    BY <1>1, <2>3, <2>4 DEF can_get
  <2>. QED  BY <2>3, <2>4, <2>5
<1>. QED  BY <1>2, <1>3

\* MaxFreeSize tells whether there is one.
LEMMA LargestFree ==
  ASSUME NEW k, NEW X, Free(k, X), \A x \in X : AreaSize(k, x) \in Nat, NEW w \in Nat \ {0}
  PROVE  w > MaxFreeSize(k) <=> ~can_get(k, w)
<1>. DEFINE N == Len(k.free)
<1>1. /\ k.free \in Seq(X) /\ N \in Nat /\ \A j \in 1..N : k.free[j] \in X
      /\ \A x \in X : \E j \in 1..N : k.free[j] = x
  BY MemberPosition, LenProperties, ElementOfSeq DEF Free
<1>2. can_get(k, w) <=> \E x \in X : AreaSize(k, x) >= w
  BY Search
<1>. HIDE DEF AreaSize
<1>3. CASE k.free = <<>>
  <2>1. N = 0 /\ MaxFreeSize(k) = 0
    BY <1>3 DEF MaxFreeSize, isQueEmpty
  <2>2. X = {}
    BY <1>1, <2>1
  <2>. QED  BY <1>2, <2>1, <2>2
<1>4. CASE k.free # <<>>
  <2>1. N \in 1..N /\ MaxFreeSize(k) = AreaSize(k, k.free[N])
    <3>1. N # 0
      BY <1>1, <1>4
    <3>2. MaxFreeSize(k) = AreaSize(k, Last(k.free)) /\ Last(k.free) = k.free[N]
      BY <1>4 DEF MaxFreeSize, isQueEmpty, Last
    <3>. QED  BY <1>1, <3>1, <3>2
  <2>2. ASSUME NEW x \in X  PROVE AreaSize(k, x) <= AreaSize(k, k.free[N])
    <3>1. PICK j \in 1..N : k.free[j] = x
      BY <1>1
    <3>2. j < N => [y \in X |-> AreaSize(k, y)][k.free[j]] <= [y \in X |-> AreaSize(k, y)][k.free[N]]
      BY <2>1, <3>1 DEF Free, Sorted
    <3>3. j < N => AreaSize(k, k.free[j]) <= AreaSize(k, k.free[N])
      BY <1>1, <2>1, <3>2
    <3>4. AreaSize(k, x) \in Nat /\ (j = N \/ j < N)
      BY <1>1
    <3>. QED  BY <3>1, <3>3, <3>4
  <2>3. k.free[N] \in X /\ AreaSize(k, k.free[N]) \in Nat
    BY <1>1, <2>1
  <2>4. \A x \in X : AreaSize(k, x) >= w => AreaSize(k, k.free[N]) >= w
    BY <2>2, <2>3
  <2>. QED  BY <1>2, <2>1, <2>3, <2>4
<1>. QED  BY <1>3, <1>4

\* The pieces and their sizes in a pool.
LEMMA PoolSizes ==
  ASSUME NEW k, NEW e, PoolOK(k, e)
  PROVE  /\ Areas(k, e) /\ ToSet(k.area) \subseteq Nat /\ e \in ToSet(k.area)
         /\ Free(k, ToSet(k.area) \ k.use) /\ e \notin ToSet(k.area) \ k.use
         /\ \A x \in ToSet(k.area) \ k.use : AreaSize(k, x) \in Nat
<1>1. Areas(k, e) /\ e \in k.use /\ Free(k, ToSet(k.area) \ k.use)
  BY DEF PoolOK
<1>2. ToSet(k.area) \subseteq Nat /\ e \in ToSet(k.area)
  BY <1>1 DEF Areas, Tiled
<1>3. \A x \in ToSet(k.area) \ k.use : AreaSize(k, x) \in Nat
  BY <1>1, NextArea
<1>. QED  BY <1>1, <1>2, <1>3

\* get_blk keeps the pool, and makes no room.
LEMMA GetBlk ==
  ASSUME NEW k, NEW e, PoolOK(k, e), NEW w \in Nat, w >= MinFragment, can_get(k, w)
  PROVE  /\ PoolOK(get_blk(k, w), e)
         /\ \A v \in Nat : can_get(get_blk(k, w), v) => can_get(k, v)
         /\ ToSet(k.area) \subseteq ToSet(get_blk(k, w).area)
<1>. DEFINE A == ToSet(k.area)
            X == A \ k.use
            a == k.free[searchFreeArea(k, w)]
            r == removeFreeQue(k, a)
            b == next_area(k, a)
            rest == a + 1 + w
            Divides == AreaSize(k, a) - w >= MinFragment + 1
            t == insertAreaQue(r, a, rest)
            s == IF Divides THEN appendFreeArea(t, rest) ELSE r
            g == get_blk(k, w)
<1>1. /\ Areas(k, e) /\ A \subseteq Nat /\ e \in A /\ Free(k, X) /\ e \notin X
      /\ \A x \in X : AreaSize(k, x) \in Nat
      /\ MinFragment \in Nat \ {0}
  BY PoolSizes, MplAssumption
<1>2. /\ DOMAIN k = PoolFields /\ e \in k.use /\ k.use \subseteq A /\ k.blocks = k.use \ {e}
      /\ \A c, d : Adjacent(A, c, d) => c \in k.use \/ d \in k.use
  BY DEF PoolOK
<1>3. a \in X /\ AreaSize(k, a) >= w
  BY <1>1, Search
<1>4. g = [s EXCEPT !.use = @ \cup {a}, !.blocks = @ \cup {a}]
  BY DEF get_blk
<1>. HIDE DEF a
<1>5. /\ DOMAIN r = PoolFields /\ r.area = k.area /\ r.use = k.use /\ r.blocks = k.blocks /\ Free(r, X \ {a})
  BY <1>1, <1>2, RemoveFree
<1>6. Adjacent(A, a, b) /\ b \in Nat /\ a \in Nat /\ AreaSize(k, a) = b - a - 1 /\ a # e /\ b \in A /\ a \in A
  BY <1>1, <1>3, NextArea DEF Adjacent
<1>7. b \in k.use
  BY <1>2, <1>3, <1>6
<1>. HIDE DEF r, b, g
<1>8. CASE ~Divides
  <2>1. s = r
    BY <1>8
  <2>2. DOMAIN g = PoolFields /\ g.area = k.area /\ g.use = k.use \cup {a} /\ g.blocks = k.blocks \cup {a} /\ g.free = r.free
    BY <1>4, <1>5, <2>1 DEF PoolFields
  <2>3. \A x : AreaSize(g, x) = AreaSize(k, x) /\ AreaSize(r, x) = AreaSize(k, x)
    BY <1>5, <2>2 DEF AreaSize, next_area
  <2>4. Free(g, X \ {a})
    BY <1>5, <2>2, <2>3, FreeSame
  <2>5. X \ {a} = ToSet(g.area) \ g.use
    BY <2>2
  <2>6. PoolOK(g, e)
    <3>1. Areas(g, e)
      BY <1>1, <2>2 DEF Areas
    <3>2. g.blocks = g.use \ {e} /\ g.use \subseteq ToSet(g.area) /\ e \in g.use
      BY <1>2, <1>6, <2>2
    <3>. QED  BY <1>2, <2>2, <2>4, <2>5, <3>1, <3>2 DEF PoolOK
  <2>7. \A v \in Nat : can_get(g, v) => can_get(k, v)
    <3>1. \A x \in X \ {a} : AreaSize(g, x) \in Nat
      BY <1>1, <2>3
    <3>2. \A v \in Nat : can_get(g, v) => \E x \in X \ {a} : AreaSize(g, x) >= v
      BY <2>4, <3>1, Search
    <3>3. \A v \in Nat : (\E x \in X : AreaSize(k, x) >= v) => can_get(k, v)
      BY <1>1, Search
    <3>. HIDE DEF AreaSize, can_get
    <3>. QED  BY <2>3, <3>2, <3>3
  <2>. QED  BY <2>2, <2>6, <2>7 DEF g
<1>9. CASE Divides
  <2>. DEFINE B == A \cup {rest}
  <2>1. /\ rest \in Nat /\ a < rest /\ rest < b /\ rest - a > MinFragment /\ b - rest > MinFragment
        /\ w \in Nat /\ b - rest - 1 <= AreaSize(k, a)
    BY <1>1, <1>6, <1>9
  <2>2. DOMAIN t = PoolFields /\ t.area = InsertAt(k.area, PositionOf(k.area, a) + 1, rest)
        /\ t.use = k.use /\ t.blocks = k.blocks /\ t.free = r.free
    BY <1>5 DEF insertAreaQue, PoolFields
  <2>3. Rising(t.area) /\ ToSet(t.area) = B
    BY <1>1, <1>6, <2>1, <2>2, RisingInsert DEF Areas
  <2>. HIDE DEF t, rest
  <2>4. rest \notin A
    BY <1>1, <1>6, <2>1 DEF Adjacent
  <2>5. \A c \in A : c <= a \/ b <= c
    BY <1>6 DEF Adjacent
  <2>6. Areas(t, e)
    <3>1. 0 \in A /\ (\A c \in A : c <= e) /\ \A c, d \in A : c < d => d - c > MinFragment
      BY <1>1 DEF Areas, Tiled
    <3>2. rest <= e
      BY <1>1, <1>6, <2>1, <3>1
    <3>3. ASSUME NEW c \in A  PROVE (c < rest => rest - c > MinFragment) /\ (rest < c => c - rest > MinFragment)
      BY <1>1, <1>6, <2>1, <2>5
    <3>. QED  BY <1>1, <2>1, <2>3, <3>1, <3>2, <3>3 DEF Areas, Tiled
  <2>7. Adjacent(B, a, rest) /\ Adjacent(B, rest, b)
    BY <1>1, <1>6, <2>1, <2>5 DEF Adjacent
  <2>8. ASSUME NEW x \in A, x # a, x # e
        PROVE  AreaSize(t, x) = AreaSize(k, x)
    <3>1. PICK y : y = next_area(k, x)
      OBVIOUS
    <3>2. Adjacent(A, x, y)
      BY <1>1, <2>8, <3>1, NextArea
    <3>3. ~(x < rest /\ rest < y)
      <4>1. x \in Nat /\ y \in Nat
        BY <1>1, <3>2 DEF Adjacent
      <4>2. a <= x \/ y <= a
        BY <1>6, <3>2 DEF Adjacent
      <4>3. x <= a \/ b <= x
        BY <2>5
      <4>. QED  BY <1>6, <2>1, <2>8, <4>1, <4>2, <4>3
    <3>4. Adjacent(B, x, y)
      <4>1. x \in Nat /\ y \in Nat
        BY <1>1, <3>2 DEF Adjacent
      <4>. QED  BY <2>1, <3>2, <3>3, <4>1 DEF Adjacent
    <3>. QED  BY <1>1, <2>3, <2>6, <2>8, <3>1, <3>4, SameSize
  <2>9. AreaSize(t, rest) = b - rest - 1 /\ AreaSize(t, rest) \in Nat
    <3>1. rest \in ToSet(t.area) /\ rest # e
      BY <1>1, <2>3, <2>4
    <3>2. b = next_area(t, rest) /\ AreaSize(t, rest) = next_area(t, rest) - rest - 1 /\ AreaSize(t, rest) \in Nat
      BY <2>3, <2>6, <2>7, <3>1, NextArea
    <3>. QED  BY <3>2
  <2>10. \A x \in X \ {a} : AreaSize(t, x) = AreaSize(k, x) /\ AreaSize(t, x) \in Nat
    <3>. HIDE DEF AreaSize
    <3>. QED  BY <1>1, <2>8
  <2>11. Free(t, X \ {a})
    <3>1. \A x : AreaSize(r, x) = AreaSize(k, x)
      BY <1>5 DEF AreaSize, next_area
    <3>. HIDE DEF AreaSize
    <3>. QED  BY <1>5, <2>2, <2>10, <3>1, FreeSame
  <2>12. /\ DOMAIN s = PoolFields /\ s.area = t.area /\ s.use = t.use \ {rest} /\ s.blocks = t.blocks
         /\ Free(s, (X \ {a}) \cup {rest})
    <3>1. rest \notin X \ {a}
      BY <2>4
    <3>2. \A x \in (X \ {a}) \cup {rest} : AreaSize(t, x) \in Int
      BY <2>9, <2>10
    <3>3. s = appendFreeArea(t, rest)
      BY <1>9
    <3>4. PICK Y : Y = X \ {a}
      OBVIOUS
    <3>. HIDE DEF AreaSize, s, X
    <3>5. DOMAIN t = PoolFields /\ Free(t, Y) /\ rest \notin Y /\ \A x \in Y \cup {rest} : AreaSize(t, x) \in Int
      BY <2>2, <2>11, <3>1, <3>2, <3>4
    <3>6. /\ DOMAIN s = PoolFields /\ s.area = t.area /\ s.use = t.use \ {rest} /\ s.blocks = t.blocks
          /\ Free(s, Y \cup {rest})
      BY <3>3, <3>5, AppendFree
    <3>. QED  BY <3>4, <3>6
  <2>. HIDE DEF s
  <2>13. /\ DOMAIN g = PoolFields /\ g.area = t.area /\ g.use = k.use \cup {a} /\ g.blocks = k.blocks \cup {a}
         /\ g.free = s.free
    <3>1. t.use \ {rest} = k.use
      BY <1>2, <2>2, <2>4
    <3>. QED  BY <1>4, <2>2, <2>12, <3>1 DEF PoolFields
  <2>14. \A x : AreaSize(g, x) = AreaSize(t, x) /\ AreaSize(s, x) = AreaSize(t, x)
    BY <2>12, <2>13 DEF AreaSize, next_area
  <2>15. Free(g, (X \ {a}) \cup {rest})
    <3>. HIDE DEF AreaSize
    <3>. QED  BY <2>12, <2>13, <2>14, FreeSame
  <2>16. PoolOK(g, e)
    <3>1. (X \ {a}) \cup {rest} = ToSet(g.area) \ g.use
      BY <1>2, <1>6, <2>3, <2>4, <2>13
    <3>2. Areas(g, e)
      BY <2>6, <2>13 DEF Areas
    <3>3. g.blocks = g.use \ {e} /\ g.use \subseteq ToSet(g.area) /\ e \in g.use
      BY <1>2, <1>6, <2>3, <2>13
    <3>4. ASSUME NEW c, NEW d, Adjacent(ToSet(g.area), c, d)
          PROVE  c \in g.use \/ d \in g.use
      <4>1. Adjacent(B, c, d)
        BY <2>3, <2>13, <3>4
      <4>2. CASE c = rest
        <5>1. ~(b < d) /\ ~(d < b) /\ d \in Nat
          BY <1>1, <1>6, <2>1, <2>7, <4>1, <4>2 DEF Adjacent
        <5>. QED  BY <1>6, <1>7, <2>13, <5>1
      <4>3. CASE d = rest
        <5>1. ~(a < c) /\ ~(c < a) /\ c \in Nat
          BY <1>1, <1>6, <2>1, <2>7, <4>1, <4>3 DEF Adjacent
        <5>. QED  BY <1>6, <2>13, <5>1
      <4>4. CASE c # rest /\ d # rest
        <5>1. Adjacent(A, c, d)
          BY <4>1, <4>4 DEF Adjacent
        <5>. QED  BY <1>2, <2>13, <5>1
      <4>. QED  BY <4>2, <4>3, <4>4
    <3>. QED  BY <2>13, <2>15, <3>1, <3>2, <3>3, <3>4 DEF PoolOK
  <2>17. \A v \in Nat : can_get(g, v) => can_get(k, v)
    <3>1. \A x \in (X \ {a}) \cup {rest} : AreaSize(g, x) \in Nat
      BY <2>9, <2>10, <2>14
    <3>2. \A v \in Nat : can_get(g, v) => \E x \in (X \ {a}) \cup {rest} : AreaSize(g, x) >= v
      BY <2>15, <3>1, Search
    <3>3. \A v \in Nat : (\E x \in X : AreaSize(k, x) >= v) => can_get(k, v)
      BY <1>1, Search
    <3>. HIDE DEF can_get
    <3>4. ASSUME NEW v \in Nat, can_get(g, v)  PROVE \E x \in X : AreaSize(k, x) >= v
      <4>1. PICK x \in (X \ {a}) \cup {rest} : AreaSize(g, x) >= v
        BY <3>2, <3>4
      <4>. HIDE DEF AreaSize
      <4>2. CASE x = rest
        <5>1. AreaSize(k, a) \in Nat /\ AreaSize(g, rest) \in Nat /\ AreaSize(g, rest) <= AreaSize(k, a)
          BY <1>1, <1>3, <2>1, <2>9, <2>14
        <5>2. AreaSize(k, a) >= v
          BY <4>1, <4>2, <5>1
        <5>. QED  BY <1>3, <5>2
      <4>3. CASE x # rest
        BY <2>10, <2>14, <4>1, <4>3
      <4>. QED  BY <4>2, <4>3
    <3>. QED  BY <3>3, <3>4
  <2>. QED  BY <2>3, <2>13, <2>16, <2>17 DEF g
<1>. QED  BY <1>8, <1>9

\* removeAreaQue: a piece goes into the one in front of it.
LEMMA RemoveArea ==
  ASSUME NEW k, DOMAIN k = PoolFields, NEW e, Areas(k, e), NEW A, A = ToSet(k.area),
         NEW n \in A, n # 0, n # e, NEW m, m = removeAreaQue(k, n)
  PROVE  /\ DOMAIN m = PoolFields /\ m.use = k.use /\ m.blocks = k.blocks /\ m.free = k.free
         /\ Areas(m, e) /\ ToSet(m.area) = A \ {n}
         /\ \A x \in A \ {n, e} : ~Adjacent(A, x, n) => AreaSize(m, x) = AreaSize(k, x)
         /\ \A c, d : Adjacent(A \ {n}, c, d) =>
               Adjacent(A, c, d) \/ (Adjacent(A, c, n) /\ Adjacent(A, n, d))
<1>1. DOMAIN m = PoolFields /\ m.use = k.use /\ m.blocks = k.blocks /\ m.free = k.free /\ m.area = QueRemove(k.area, n)
  BY DEF removeAreaQue, PoolFields
<1>2. Rising(m.area) /\ ToSet(m.area) = A \ {n}
  BY <1>1, RisingRemove DEF Areas
<1>3. Areas(m, e)
  BY <1>2 DEF Areas, Tiled
<1>4. ASSUME NEW x \in A \ {n, e}, ~Adjacent(A, x, n)
      PROVE  AreaSize(m, x) = AreaSize(k, x)
  <2>1. PICK y : y = next_area(k, x)
    OBVIOUS
  <2>2. Adjacent(A, x, y)
    BY <2>1, NextArea
  <2>3. y # n
    BY <1>4, <2>2
  <2>4. Adjacent(A \ {n}, x, y)
    BY <2>2, <2>3 DEF Adjacent
  <2>. QED  BY <1>2, <1>3, <2>1, <2>4, SameSize
<1>5. ASSUME NEW c, NEW d, Adjacent(A \ {n}, c, d), ~Adjacent(A, c, d)
      PROVE  Adjacent(A, c, n) /\ Adjacent(A, n, d)
  <2>1. A \subseteq Nat /\ c \in A /\ d \in A /\ c < d
    BY <1>5 DEF Areas, Tiled, Adjacent
  <2>2. c < n /\ n < d
    BY <1>5, <2>1 DEF Adjacent
  <2>3. ASSUME NEW x \in A  PROVE (x <= c \/ n <= x) /\ (x <= n \/ d <= x)
    <3>1. x = n \/ x <= c \/ d <= x
      BY <1>5 DEF Adjacent
    <3>2. x \in Nat /\ c \in Nat /\ d \in Nat /\ n \in Nat
      BY <2>1
    <3>. QED  BY <2>2, <3>1, <3>2
  <2>. QED  BY <2>1, <2>2, <2>3 DEF Adjacent
<1>. QED  BY <1>1, <1>2, <1>3, <1>4, <1>5

\* A pool in which the piece a is neither in use nor on the free queue; no free
\* piece lies behind it.
Between(r, e, a) ==
    LET A == ToSet(r.area)
    IN  /\ DOMAIN r = PoolFields /\ Areas(r, e)
        /\ e \in r.use /\ r.use \subseteq A /\ r.blocks = r.use \ {e}
        /\ a \in A /\ a \notin r.use /\ Free(r, A \ (r.use \cup {a}))
        /\ \A c, d : Adjacent(A, c, d) => c \in r.use \/ d \in r.use \/ d = a

\* merge_next
LEMMA MergeNext ==
  ASSUME NEW k, NEW e, PoolOK(k, e), NEW a \in k.blocks
  PROVE  Between(merge_next([k EXCEPT !.use = @ \ {a}, !.blocks = @ \ {a}], a), e, a)
<1>. DEFINE A == ToSet(k.area)
            z == [k EXCEPT !.use = @ \ {a}, !.blocks = @ \ {a}]
            n == next_area(z, a)
            f == removeFreeQue(z, n)
            m == removeAreaQue(f, n)
            U == k.use \ {a}
<1>1. /\ DOMAIN k = PoolFields /\ Areas(k, e) /\ e \in k.use /\ k.use \subseteq A /\ k.blocks = k.use \ {e}
      /\ Free(k, A \ k.use) /\ A \subseteq Nat /\ e \in A
      /\ \A c, d : Adjacent(A, c, d) => c \in k.use \/ d \in k.use
  BY DEF PoolOK, Areas, Tiled
<1>2. a \in A /\ a # e /\ a \in k.use
  BY <1>1
<1>3. /\ DOMAIN z = PoolFields /\ z.area = k.area /\ z.use = U /\ z.blocks = U \ {e} /\ z.free = k.free
  BY <1>1 DEF PoolFields
<1>4. merge_next(z, a) = IF n \in z.use THEN z ELSE m
  BY DEF merge_next
<1>. HIDE DEF z, U
<1>5. \A x : AreaSize(z, x) = AreaSize(k, x)
  BY <1>3 DEF AreaSize, next_area
<1>6. Areas(z, e) /\ Free(z, A \ k.use)
  <2>. HIDE DEF AreaSize
  <2>. QED  BY <1>1, <1>3, <1>5, FreeSame DEF Areas
<1>7. Adjacent(A, a, n) /\ n \in A /\ n # a /\ a < n /\ \A d : Adjacent(A, a, d) => d = n
  <2>1. Adjacent(A, a, n) /\ n \in Nat /\ a \in Nat /\ \A d : Adjacent(A, a, d) => d = n
    BY <1>2, <1>3, <1>6, NextArea
  <2>. QED  BY <2>1 DEF Adjacent
<1>8. A \ (U \cup {a}) = A \ k.use
  BY <1>2 DEF U
<1>9. ASSUME NEW c, NEW d, Adjacent(A, c, d), c # a
      PROVE  c \in U \/ d \in U \/ d = a
  BY <1>1, <1>9 DEF U
<1>. HIDE DEF n, Adjacent
<1>10. CASE n \in z.use
  <2>1. \A c, d : Adjacent(A, c, d) => c \in U \/ d \in U \/ d = a
    BY <1>3, <1>7, <1>9, <1>10
  <2>2. Free(z, A \ (U \cup {a}))
    BY <1>6, <1>8
  <2>3. e \in U /\ U \subseteq A /\ a \notin U
    BY <1>1, <1>2 DEF U
  <2>4. Between(z, e, a)
    BY <1>2, <1>3, <1>6, <2>1, <2>2, <2>3 DEF Between
  <2>. QED  BY <1>4, <1>10, <2>4 DEF z
<1>11. CASE n \notin z.use
  <2>1. n \notin k.use /\ n # e
    BY <1>1, <1>3, <1>7, <1>11 DEF U
  <2>2. n # 0 /\ n \in Nat
    BY <1>1, <1>2, <1>7
  <2>3. PICK X : X = A \ k.use
    OBVIOUS
  <2>4. DOMAIN f = PoolFields /\ f.area = z.area /\ f.use = z.use /\ f.blocks = z.blocks /\ Free(f, X \ {n})
    BY <1>3, <1>6, <2>3, RemoveFree
  <2>. HIDE DEF f
  <2>5. Areas(f, e) /\ ToSet(f.area) = A
    BY <1>3, <1>6, <2>4 DEF Areas
  <2>6. /\ DOMAIN m = PoolFields /\ m.use = f.use /\ m.blocks = f.blocks /\ m.free = f.free
        /\ Areas(m, e) /\ ToSet(m.area) = A \ {n}
        /\ \A x \in A \ {n, e} : ~Adjacent(A, x, n) => AreaSize(m, x) = AreaSize(f, x)
        /\ \A c, d : Adjacent(A \ {n}, c, d) =>
               Adjacent(A, c, d) \/ (Adjacent(A, c, n) /\ Adjacent(A, n, d))
    <3>. HIDE DEF A, m
    <3>1. DOMAIN f = PoolFields /\ Areas(f, e) /\ A = ToSet(f.area) /\ n \in A /\ n # 0 /\ n # e /\ m = removeAreaQue(f, n)
      BY <1>3, <1>7, <2>1, <2>2, <2>4, <2>5 DEF m
    <3>. QED  BY ONLY <3>1, RemoveArea
  <2>. HIDE DEF m
  <2>7. \A x \in X \ {n} : AreaSize(m, x) = AreaSize(f, x)
    <3>. SUFFICES ASSUME NEW x \in X \ {n}  PROVE AreaSize(m, x) = AreaSize(f, x)
      OBVIOUS
    <3>1. x \in A \ {n, e} /\ x \notin k.use
      BY <1>1, <2>3
    <3>2. ~Adjacent(A, x, n)
      BY <1>1, <2>1, <3>1
    <3>. QED  BY <2>6, <3>1, <3>2
  <2>8. Free(m, X \ {n})
    BY <2>4, <2>6, <2>7, FreeSame
  <2>9. X \ {n} = (A \ {n}) \ (U \cup {a})
    BY <1>8, <2>3
  <2>10. e \in U /\ U \subseteq A \ {n} /\ a \notin U /\ a \in A \ {n}
    BY <1>1, <1>2, <1>7, <2>1 DEF U
  <2>11. ASSUME NEW c, NEW d, Adjacent(A \ {n}, c, d)
         PROVE  c \in U \/ d \in U \/ d = a
    <3>1. CASE Adjacent(A, c, d)
      <4>1. c # a \/ d = n
        BY <1>7, <3>1
      <4>2. d # n
        BY <2>11 DEF Adjacent
      <4>. QED  BY <1>9, <3>1, <4>1, <4>2
    <3>2. CASE Adjacent(A, c, n) /\ Adjacent(A, n, d)
      <4>1. d \in k.use
        BY <1>1, <2>1, <3>2
      <4>. QED  BY <4>1 DEF U
    <3>. QED  BY <2>6, <2>11, <3>1, <3>2
  <2>12. Between(m, e, a)
    BY <1>3, <2>4, <2>6, <2>8, <2>9, <2>10, <2>11 DEF Between
  <2>. QED  BY <1>4, <1>11, <2>12 DEF m, f, z
<1>. QED  BY <1>10, <1>11

\* The rest of rel_blk.
LEMMA MergePrev ==
  ASSUME NEW r, NEW e, NEW a, Between(r, e, a)
  PROVE  LET i == PositionOf(r.area, a)
             p == r.area[i - 1]
         IN  PoolOK(IF i = 1 \/ p \in r.use THEN appendFreeArea(r, a)
                    ELSE appendFreeArea(removeAreaQue(removeFreeQue(r, p), a), p), e)
<1>. DEFINE A == ToSet(r.area)
            i == PositionOf(r.area, a)
            p == r.area[i - 1]
            X == A \ (r.use \cup {a})
<1>1. /\ DOMAIN r = PoolFields /\ Areas(r, e) /\ e \in r.use /\ r.use \subseteq A /\ r.blocks = r.use \ {e}
      /\ Free(r, X) /\ a \in A /\ a \notin r.use /\ a # e /\ A \subseteq Nat
      /\ \A c, d : Adjacent(A, c, d) => c \in r.use \/ d \in r.use \/ d = a
  BY DEF Between, Areas, Tiled
<1>2. \A x \in A \ {e} : AreaSize(r, x) \in Nat
  BY <1>1, NextArea
<1>3. /\ i = 1 => \A x \in A : a <= x
      /\ i # 1 => Adjacent(A, p, a)
  BY <1>1, Neighbours DEF Areas
<1>. HIDE DEF i, p
<1>4. CASE i = 1 \/ p \in r.use
  <2>. DEFINE m == appendFreeArea(r, a)
  <2>1. /\ DOMAIN m = PoolFields /\ m.area = r.area /\ m.use = r.use \ {a} /\ m.blocks = r.blocks /\ Free(m, X \cup {a})
    <3>1. a \notin X /\ \A x \in X \cup {a} : AreaSize(r, x) \in Int
      BY <1>1, <1>2
    <3>2. PICK Y : Y = X
      OBVIOUS
    <3>. HIDE DEF X
    <3>. QED  BY <1>1, <3>1, <3>2, AppendFree
  <2>. HIDE DEF m
  <2>2. m.use = r.use /\ X \cup {a} = ToSet(m.area) \ m.use
    BY <1>1, <2>1
  <2>3. ASSUME NEW c, NEW d, Adjacent(A, c, d)  PROVE c \in r.use \/ d \in r.use
    <3>1. d = a => c < a /\ c \in A /\ c \in Nat
      BY <1>1, <2>3 DEF Adjacent
    <3>2. d = a => i # 1
      BY <1>1, <1>3, <3>1
    <3>3. d = a => c = p
      <4>1. d = a => Adjacent(A, p, a) /\ Adjacent(A, c, a)
        BY <1>3, <2>3, <3>2
      <4>2. d = a => p \in Nat /\ c \in Nat /\ ~(p < c) /\ ~(c < p)
        BY <1>1, <4>1 DEF Adjacent
      <4>. QED  BY <4>2
    <3>. QED  BY <1>1, <1>4, <2>3, <3>2, <3>3
  <2>4. PoolOK(m, e)
    BY <1>1, <2>1, <2>2, <2>3 DEF PoolOK, Areas
  <2>. QED  BY <1>4, <2>4 DEF m, i, p
<1>5. CASE ~(i = 1 \/ p \in r.use)
  <2>. DEFINE f == removeFreeQue(r, p)
              g == removeAreaQue(f, a)
              m == appendFreeArea(g, p)
  <2>0. Adjacent(A, p, a) /\ p \in A /\ p < a /\ p \in Nat /\ p \notin r.use /\ p # a /\ a # 0
    BY <1>1, <1>3, <1>5 DEF Adjacent
  <2>1. DOMAIN f = PoolFields /\ f.area = r.area /\ f.use = r.use /\ f.blocks = r.blocks /\ Free(f, X \ {p})
    <3>1. PICK Y : Y = X
      OBVIOUS
    <3>. HIDE DEF X
    <3>. QED  BY <1>1, <3>1, RemoveFree
  <2>. HIDE DEF f
  <2>2. Areas(f, e) /\ ToSet(f.area) = A
    BY <1>1, <2>1 DEF Areas
  <2>3. /\ DOMAIN g = PoolFields /\ g.use = f.use /\ g.blocks = f.blocks /\ g.free = f.free
        /\ Areas(g, e) /\ ToSet(g.area) = A \ {a}
        /\ \A x \in A \ {a, e} : ~Adjacent(A, x, a) => AreaSize(g, x) = AreaSize(f, x)
        /\ \A c, d : Adjacent(A \ {a}, c, d) =>
               Adjacent(A, c, d) \/ (Adjacent(A, c, a) /\ Adjacent(A, a, d))
    <3>. HIDE DEF A, g
    <3>1. DOMAIN f = PoolFields /\ Areas(f, e) /\ A = ToSet(f.area) /\ a \in A /\ a # 0 /\ a # e /\ g = removeAreaQue(f, a)
      BY <1>1, <2>0, <2>1, <2>2 DEF g
    <3>. QED  BY ONLY <3>1, RemoveArea
  <2>. HIDE DEF g
  <2>4. \A x \in X \ {p} : AreaSize(g, x) = AreaSize(f, x)
    <3>. SUFFICES ASSUME NEW x \in X \ {p}  PROVE AreaSize(g, x) = AreaSize(f, x)
      OBVIOUS
    <3>1. x \in A \ {a, e} /\ x # p
      BY <1>1
    <3>2. ~Adjacent(A, x, a)
      <4>. SUFFICES ASSUME Adjacent(A, x, a)  PROVE FALSE
        OBVIOUS
      <4>1. x \in Nat /\ ~(x < p) /\ ~(p < x)
        BY <1>1, <2>0 DEF Adjacent
      <4>. QED  BY <2>0, <3>1, <4>1
    <3>. QED  BY <2>3, <3>1, <3>2
  <2>5. PICK Y : Y = X \ {p}
    OBVIOUS
  <2>6. Free(g, Y)
    <3>. HIDE DEF X
    <3>. QED  BY <2>1, <2>3, <2>4, <2>5, FreeSame
  <2>7. p \notin Y /\ \A x \in Y \cup {p} : AreaSize(g, x) \in Int
    <3>1. \A x \in (A \ {a}) \ {e} : AreaSize(g, x) \in Nat
      BY <2>3, NextArea
    <3>2. p # e /\ Y \cup {p} \subseteq (A \ {a}) \ {e}
      BY <1>1, <2>0, <2>5
    <3>. QED  BY <2>5, <3>1, <3>2
  <2>8. /\ DOMAIN m = PoolFields /\ m.area = g.area /\ m.use = g.use \ {p} /\ m.blocks = g.blocks /\ Free(m, Y \cup {p})
    BY <2>3, <2>6, <2>7, AppendFree
  <2>. HIDE DEF m
  <2>9. m.use = r.use /\ Y \cup {p} = ToSet(m.area) \ m.use /\ m.blocks = r.blocks
    BY <1>1, <2>0, <2>1, <2>3, <2>5, <2>8
  <2>10. ASSUME NEW c, NEW d, Adjacent(A \ {a}, c, d)  PROVE c \in r.use \/ d \in r.use
    <3>1. d # a
      BY <2>10 DEF Adjacent
    <3>2. Adjacent(A, c, d) => c \in r.use \/ d \in r.use
      BY <1>1, <3>1
    <3>3. Adjacent(A, a, d) => d \in r.use
      BY <1>1, <3>1
    <3>. QED  BY <2>3, <2>10, <3>2, <3>3
  <2>11. r.use \subseteq A \ {a}
    BY <1>1
  <2>12. PoolOK(m, e)
    BY <1>1, <2>3, <2>8, <2>9, <2>10, <2>11 DEF PoolOK, Areas
  <2>. QED  BY <1>5, <2>12 DEF m, g, f, i, p
<1>. QED  BY <1>4, <1>5

\* rel_blk keeps the pool.
LEMMA RelBlk ==
  ASSUME NEW k, NEW e, PoolOK(k, e), NEW a \in k.blocks
  PROVE  PoolOK(rel_blk(k, a), e)
<1>1. PICK r : r = merge_next([k EXCEPT !.use = @ \ {a}, !.blocks = @ \ {a}], a)
  OBVIOUS
<1>2. Between(r, e, a)
  BY <1>1, MergeNext
<1>3. rel_blk(k, a) = LET i == PositionOf(r.area, a)
                          p == r.area[i - 1]
                      IN  IF i = 1 \/ p \in r.use THEN appendFreeArea(r, a)
                          ELSE appendFreeArea(removeAreaQue(removeFreeQue(r, p), a), p)
  BY <1>1 DEF rel_blk
<1>. QED  BY <1>2, <1>3, MergePrev

-----------------------------------------------------------------------------
\* The pool itself does not know who was served.
LEMMA PoolFlags ==
  ASSUME NEW k, NEW m, DOMAIN m = PoolFields, m.area = k.area, m.use = k.use, m.free = k.free,
         m.blocks = k.blocks, NEW e
  PROVE  /\ PoolOK(k, e) => PoolOK(m, e)
         /\ \A v : can_get(m, v) <=> can_get(k, v)
<1>1. \A x : AreaSize(m, x) = AreaSize(k, x)
  BY DEF AreaSize, next_area
<1>. HIDE DEF AreaSize
<1>2. \A X : Free(k, X) => Free(m, X)
  BY <1>1, FreeSame
<1>3. PoolOK(k, e) => PoolOK(m, e)
  BY <1>2 DEF PoolOK, Areas
<1>4. ASSUME NEW v  PROVE can_get(m, v) <=> can_get(k, v)
  <2>1. {i \in 1..Len(m.free) : AreaSize(m, m.free[i]) >= v} = {i \in 1..Len(k.free) : AreaSize(k, k.free[i]) >= v}
    BY <1>1
  <2>2. SelectInSeq(m.free, LAMBDA a : AreaSize(m, a) >= v) = SelectInSeq(k.free, LAMBDA a : AreaSize(k, a) >= v)
    BY <2>1 DEF SelectInSeq
  <2>3. searchFreeArea(m, v) = searchFreeArea(k, v)
    BY <2>2, Zenon DEF searchFreeArea
  <2>. QED  BY <2>3 DEF can_get
<1>. QED  BY <1>3, <1>4

\* The loop of mpl_wakeup keeps the pool and leaves nobody in front who could get
\* a block.
LEMMA MplLoop ==
  ASSUME NEW q \in Seq(Tasks), IsInjective(q), \A t \in ToSet(q) : winfo[t] \in BlkSizes,
         NEW e, NEW k, PoolOK(k, e), k.freed = {}, ~k.stop,
         NEW r, r = Loop(q, k, wakeup_task)
  PROVE  /\ PoolOK(r, e)
         /\ Without(q, r.freed) # <<>> => ~can_get(r, winfo[Head(Without(q, r.freed))])
<1>1. PICK f : Handings(q, k, f) /\ r = f[Len(q)]
  BY HandingsExist
<1>. DEFINE N == Len(q)
            Good(n, g) == /\ PoolOK(g, e)
                          /\ \A x \in g.freed : \E i \in 1..n : q[i] = x
                          /\ g.stop => \E j \in 1..n : /\ q[j] \notin g.freed /\ ~can_get(g, winfo[q[j]])
                                                       /\ \A i \in 1..n : i < j => q[i] \in g.freed
                          /\ ~g.stop => \A i \in 1..n : q[i] \in g.freed
            P == {n \in Nat : n <= N => Good(n, f[n])}
<1>2. N \in Nat
  BY LenProperties
<1>3. f[0] = k /\ \A n \in 1..N : f[n] = wakeup_task(f[n - 1], q[n])
  <2>1. 0 \in 0..N /\ \A n \in 1..N : n \in 0..N /\ n # 0
    BY <1>2
  <2>. HIDE DEF wakeup_task
  <2>. QED  BY <1>1, <2>1 DEF Handings
<1>4. \A i, j \in 1..N : q[i] = q[j] => i = j
  BY InjectivePositions
<1>5. \A i \in 1..N : q[i] \in Tasks /\ winfo[q[i]] \in BlkSizes
  BY MemberPosition, ElementOfSeq
<1>6. ASSUME NEW n \in Nat, n + 1 <= N, NEW g, Good(n, g)
      PROVE  Good(n + 1, wakeup_task(g, q[n + 1]))
  <2>. DEFINE t == q[n + 1]
              w == winfo[t]
  <2>1. n + 1 \in 1..N /\ n + 1 \in 1..n + 1 /\ \A i \in 1..n : i \in 1..n + 1 /\ i \in 1..N /\ i # n + 1
    BY <1>2, <1>6
  <2>2. \A i \in 1..n + 1 : i \in 1..n \/ i = n + 1
    BY <1>6
  <2>3. w \in Nat \ {0} /\ w >= MinFragment
    BY <1>5, <2>1, MplAssumption
  <2>4. t \notin g.freed
    BY <1>4, <1>6, <2>1
  <2>5. DOMAIN g = PoolFields
    BY <1>6 DEF PoolOK
  <2>6. w > MaxFreeSize(g) <=> ~can_get(g, w)
    BY <1>6, <2>3, PoolSizes, LargestFree
  <2>7. CASE g.stop
    <3>1. wakeup_task(g, t) = [g EXCEPT !.stop = TRUE]
      BY <2>7 DEF wakeup_task
    <3>2. PICK m : m = wakeup_task(g, t)
      OBVIOUS
    <3>3. DOMAIN m = PoolFields /\ m.area = g.area /\ m.use = g.use /\ m.free = g.free /\ m.blocks = g.blocks
          /\ m.freed = g.freed /\ m.stop
      BY <2>5, <3>1, <3>2 DEF PoolFields
    <3>4. PoolOK(m, e) /\ \A v : can_get(m, v) <=> can_get(g, v)
      BY <1>6, <3>3, PoolFlags
    <3>5. PICK j \in 1..n : /\ q[j] \notin g.freed /\ ~can_get(g, winfo[q[j]])
                            /\ \A i \in 1..n : i < j => q[i] \in g.freed
      BY <1>6, <2>7
    <3>6. \A i \in 1..n + 1 : i < j => i \in 1..n
      BY <1>6
    <3>. HIDE DEF can_get
    <3>7. \E l \in 1..n + 1 : /\ q[l] \notin m.freed /\ ~can_get(m, winfo[q[l]])
                              /\ \A i \in 1..n + 1 : i < l => q[i] \in m.freed
      BY <2>1, <3>3, <3>4, <3>5, <3>6
    <3>8. \A x \in m.freed : \E i \in 1..n + 1 : q[i] = x
      BY <1>6, <2>1, <3>3
    <3>. QED  BY <3>2, <3>3, <3>4, <3>7, <3>8
  <2>8. CASE ~g.stop /\ w > MaxFreeSize(g)
    <3>1. wakeup_task(g, t) = [g EXCEPT !.stop = TRUE]
      BY <2>8 DEF wakeup_task
    <3>2. PICK m : m = wakeup_task(g, t)
      OBVIOUS
    <3>3. DOMAIN m = PoolFields /\ m.area = g.area /\ m.use = g.use /\ m.free = g.free /\ m.blocks = g.blocks
          /\ m.freed = g.freed /\ m.stop
      BY <2>5, <3>1, <3>2 DEF PoolFields
    <3>4. PoolOK(m, e) /\ \A v : can_get(m, v) <=> can_get(g, v)
      BY <1>6, <3>3, PoolFlags
    <3>. HIDE DEF can_get
    <3>5. ~can_get(m, winfo[q[n + 1]]) /\ q[n + 1] \notin m.freed
      BY <2>4, <2>6, <2>8, <3>3, <3>4
    <3>6. \A i \in 1..n + 1 : i < n + 1 => q[i] \in m.freed
      BY <1>6, <2>2, <2>8, <3>3
    <3>7. \A x \in m.freed : \E i \in 1..n + 1 : q[i] = x
      BY <1>6, <2>1, <3>3
    <3>. QED  BY <2>1, <3>2, <3>3, <3>4, <3>5, <3>6, <3>7
  <2>9. CASE ~g.stop /\ ~(w > MaxFreeSize(g))
    <3>. DEFINE u == get_blk(g, w)
    <3>1. wakeup_task(g, t) = [u EXCEPT !.freed = @ \cup {t}]
      BY <2>9 DEF wakeup_task
    <3>2. DOMAIN u = PoolFields /\ u.freed = g.freed /\ u.stop = g.stop
      BY <2>5, PoolServed
    <3>3. PoolOK(u, e)
      BY <1>6, <2>3, <2>6, <2>9, GetBlk
    <3>4. PICK m : m = wakeup_task(g, t)
      OBVIOUS
    <3>. HIDE DEF u
    <3>5. DOMAIN m = PoolFields /\ m.area = u.area /\ m.use = u.use /\ m.free = u.free /\ m.blocks = u.blocks
          /\ m.freed = g.freed \cup {t} /\ ~m.stop
      BY <2>9, <3>1, <3>2, <3>4 DEF PoolFields
    <3>6. PoolOK(m, e)
      BY <3>3, <3>5, PoolFlags
    <3>7. \A i \in 1..n + 1 : q[i] \in m.freed
      BY <1>6, <2>2, <2>9, <3>5
    <3>8. \A x \in m.freed : \E i \in 1..n + 1 : q[i] = x
      BY <1>6, <2>1, <3>5
    <3>. QED  BY <3>4, <3>5, <3>6, <3>7, <3>8
  <2>. QED  BY <2>7, <2>8, <2>9
<1>. HIDE DEF wakeup_task
<1>7. 0 \in P
  BY <1>3
<1>8. ASSUME NEW n \in Nat, n \in P  PROVE n + 1 \in P
  <2>. HIDE DEF Good
  <2>. SUFFICES ASSUME n + 1 <= N  PROVE Good(n + 1, f[n + 1])
    OBVIOUS
  <2>1. Good(n, f[n]) /\ n + 1 \in 1..N /\ (n + 1) - 1 = n
    BY <1>2, <1>8
  <2>2. f[n + 1] = wakeup_task(f[n], q[n + 1])
    BY <1>3, <2>1
  <2>. QED  BY <1>6, <2>1, <2>2
<1>. HIDE DEF P
<1>9. Nat \subseteq P
  BY <1>7, <1>8, SetInduction
<1>10. Good(N, r)
  <2>. HIDE DEF Good
  <2>. QED  BY <1>1, <1>2, <1>9 DEF P
<1>11. Without(q, r.freed) \in Seq(Tasks) /\ ToSet(Without(q, r.freed)) = ToSet(q) \ r.freed
  BY WithoutProperties
<1>. HIDE DEF can_get
<1>12. CASE r.stop
  <2>1. PICK j \in 1..N : /\ q[j] \notin r.freed /\ ~can_get(r, winfo[q[j]])
                          /\ \A i \in 1..N : i < j => q[i] \in r.freed
    BY <1>10, <1>12
  <2>2. Head(Without(q, r.freed)) = q[j]
    BY <2>1, WithoutHead
  <2>. QED  BY <1>10, <2>1, <2>2
<1>13. CASE ~r.stop
  <2>0. \A i \in 1..N : q[i] \in r.freed
    BY <1>10, <1>13
  <2>1. \A x \in ToSet(q) : x \in r.freed
    BY <2>0, MemberPosition
  <2>2. ToSet(Without(q, r.freed)) = {}
    BY <1>11, <2>1
  <2>3. Without(q, r.freed) = <<>>
    BY <1>11, <2>2, MemberPosition
  <2>. QED  BY <1>10, <2>3
<1>. QED  BY <1>12, <1>13

\* No free piece is as large as w.
Unfit(k, w) == \A x \in ToSet(k.area) \ k.use : AreaSize(k, x) < w

\* It is what looking in the free queue finds out (can_get, the search of get_blk).
LEMMA UnfitExact ==
  ASSUME NEW k, NEW e, PoolOK(k, e), NEW w \in Nat
  PROVE  Unfit(k, w) <=> ~can_get(k, w)
<1>1. Free(k, ToSet(k.area) \ k.use) /\ \A x \in ToSet(k.area) \ k.use : AreaSize(k, x) \in Nat
  BY PoolSizes
<1>2. can_get(k, w) <=> \E x \in ToSet(k.area) \ k.use : AreaSize(k, x) >= w
  BY <1>1, Search
<1>. HIDE DEF AreaSize, can_get
<1>3. \A x \in ToSet(k.area) \ k.use : AreaSize(k, x) >= w <=> ~(AreaSize(k, x) < w)
  BY <1>1
<1>. QED  BY <1>2, <1>3 DEF Unfit

\* The invariant of the variable-size pool.
MplOK == /\ MplTypeOK
         /\ objid => PoolOK(Pool, mplsz + 1)
         /\ \A t \in ToSet(wait_queue) : winfo[t] \in BlkSizes
         /\ wait_queue # <<>> => Unfit(Pool, winfo[Head(wait_queue)])

\* Nobody waits who would find a block.
LEMMA MplUnfit ==
  ASSUME MplOK, GcbOK
  PROVE  NobodyWaitsForArea
<1>. SUFFICES ASSUME wait_queue # <<>>  PROVE ~can_get(Pool, winfo[Head(wait_queue)])
  BY DEF NobodyWaitsForArea
<1>1. objid /\ Head(wait_queue) \in ToSet(wait_queue)
  BY MemberPosition DEF GcbOK, Current, Exact
<1>2. PoolOK(Pool, mplsz + 1) /\ winfo[Head(wait_queue)] \in Nat
  BY <1>1, MplAssumption DEF MplOK
<1>. QED  BY <1>2, UnfitExact DEF MplOK

\* It says that the pool is exact.
LEMMA MplExact ==
  ASSUME MplOK
  PROVE  AreaExact
<1>. SUFFICES ASSUME objid  PROVE AreaExact
  BY DEF AreaExact
<1>. DEFINE e == mplsz + 1
            N == Len(areaque)
            A == ToSet(areaque)
<1>1. /\ Pool.area = areaque /\ Pool.use = area_use /\ Pool.free = freeque /\ Pool.blocks = blocks
      /\ PoolOK(Pool, e)
  BY DEF MplOK, Pool
<1>2. /\ Rising(areaque) /\ Tiled(A, e) /\ blocks = area_use \ {e} /\ Free(Pool, A \ area_use) /\ e \in area_use
      /\ \A a, b : Adjacent(A, a, b) => a \in area_use \/ b \in area_use
  BY <1>1 DEF PoolOK, Areas
<1>3. /\ areaque \in Seq(Nat) /\ N \in Nat
      /\ \A i \in 1..N : areaque[i] \in Nat /\ areaque[i] \in A
      /\ \A x \in A : \E i \in 1..N : areaque[i] = x
      /\ \A i, j \in 1..N : areaque[i] < areaque[j] <=> i < j
  BY <1>2, RisingPositions
<1>. HIDE DEF e, A
<1>4. /\ 0 \in A /\ e \in A /\ A \subseteq Nat /\ \A a \in A : a <= e
      /\ \A a, b \in A : a < b => b - a > MinFragment
  BY <1>2 DEF Tiled
<1>5. 1 \in 1..N /\ N \in 1..N /\ N > 0
  BY <1>3, <1>4
<1>6. Head(areaque) = areaque[1] /\ Last(areaque) = areaque[N]
  BY <1>3, <1>5, MemberPosition DEF Last
<1>7. areaque[1] = 0
  <2>1. PICK i \in 1..N : areaque[i] = 0
    BY <1>3, <1>4
  <2>2. areaque[1] \in Nat /\ (1 < i => areaque[1] < areaque[i])
    BY <1>3, <1>5
  <2>3. 1 = i \/ 1 < i
    BY <1>5
  <2>. QED  BY <2>1, <2>2, <2>3
<1>8. areaque[N] = e
  <2>1. PICK i \in 1..N : areaque[i] = e
    BY <1>3, <1>4
  <2>2. areaque[N] \in Nat /\ (i < N => areaque[i] < areaque[N]) /\ areaque[N] <= e /\ e \in Nat
    BY <1>3, <1>4, <1>5
  <2>3. i = N \/ i < N
    BY <1>5
  <2>. QED  BY <2>1, <2>2, <2>3
<1>9. ASSUME NEW i \in 1..N - 1
      PROVE  /\ areaque[i + 1] - areaque[i] > MinFragment
             /\ areaque[i] \in area_use \/ areaque[i + 1] \in area_use
  <2>1. i \in 1..N /\ i + 1 \in 1..N /\ i < i + 1
    BY <1>3
  <2>2. ASSUME NEW c \in A  PROVE c <= areaque[i] \/ areaque[i + 1] <= c
    <3>1. PICK j \in 1..N : areaque[j] = c
      BY <1>3
    <3>2. ~(i < j /\ j < i + 1)
      OBVIOUS
    <3>3. areaque[i] \in Nat /\ areaque[j] \in Nat /\ areaque[i + 1] \in Nat
      BY <1>3, <2>1
    <3>4. ~(areaque[i] < areaque[j]) \/ ~(areaque[j] < areaque[i + 1])
      BY <1>3, <2>1, <3>2
    <3>. QED  BY <3>1, <3>3, <3>4
  <2>3. Adjacent(A, areaque[i], areaque[i + 1])
    BY <1>3, <2>1, <2>2 DEF Adjacent
  <2>4. areaque[i] \in A /\ areaque[i + 1] \in A /\ areaque[i] < areaque[i + 1]
    BY <1>3, <2>1
  <2>. QED  BY <1>2, <1>4, <2>3, <2>4
<1>10. IsInjective(freeque) /\ ToSet(freeque) = (A \ {e}) \ area_use
  <2>1. (A \ {e}) \ area_use = A \ area_use
    BY <1>2
  <2>. QED  BY <1>1, <1>2, <2>1 DEF Free
<1>11. ASSUME NEW i \in 1..Len(freeque) - 1
       PROVE  AreaSize(Pool, freeque[i]) <= AreaSize(Pool, freeque[i + 1])
  <2>. DEFINE key == [x \in A \ area_use |-> AreaSize(Pool, x)]
  <2>1. freeque \in Seq(A \ area_use) /\ Sorted(freeque, key)
    BY <1>1, <1>2 DEF Free
  <2>2. Len(freeque) \in Nat /\ \A j \in 1..Len(freeque) : freeque[j] \in A \ area_use
    BY <2>1, LenProperties, ElementOfSeq
  <2>3. i \in 1..Len(freeque) /\ i + 1 \in 1..Len(freeque) /\ i < i + 1
    BY <2>2
  <2>. HIDE DEF AreaSize
  <2>4. key[freeque[i]] <= key[freeque[i + 1]]
    <3>. HIDE DEF key
    <3>. QED  BY <2>1, <2>3 DEF Sorted
  <2>. QED  BY <2>2, <2>3, <2>4
<1>. HIDE DEF AreaSize, N
<1>. QED  BY <1>2, <1>6, <1>7, <1>8, <1>9, <1>10, <1>11 DEF AreaExact, e, A, N

\* mpl_wakeup on the queue q and the pool k.
LEMMA MplHook ==
  ASSUME MplOK, objid, NEW q \in Seq(Tasks), IsInjective(q),
         \A u \in ToSet(q) : winfo[u] \in BlkSizes,
         NEW k, PoolOK(k, mplsz + 1), k.freed = {}, ~k.stop, mpl_wakeup(q, k),
         winfo' \in [Tasks -> Nat \cup {NULL}],
         \A u \in ToSet(q) : u \notin gets' => winfo'[u] = winfo[u]
  PROVE  MplOK'
<1>1. PICK r : r = Loop(q, k, wakeup_task)
  OBVIOUS
<1>2. /\ wait_queue' = Without(q, r.freed) /\ gets' = r.freed
      /\ areaque' = r.area /\ area_use' = r.use /\ freeque' = r.free /\ blocks' = r.blocks
      /\ mplsz' = mplsz
  <2>. HIDE DEF wakeup_task
  <2>. QED  BY <1>1 DEF mpl_wakeup, SetPool
<1>3. /\ PoolOK(r, mplsz + 1)
      /\ Without(q, r.freed) # <<>> => ~can_get(r, winfo[Head(Without(q, r.freed))])
  BY <1>1, MplLoop
<1>4. wait_queue' \in Seq(Tasks) /\ ToSet(wait_queue') = ToSet(q) \ r.freed
  BY <1>2, WithoutProperties
<1>5. wait_queue' # <<>> => Head(wait_queue') \in ToSet(wait_queue')
  BY <1>4, MemberPosition
<1>6. PICK m : m = Pool'
  OBVIOUS
<1>7. DOMAIN m = PoolFields /\ m.area = areaque' /\ m.use = area_use' /\ m.free = freeque' /\ m.blocks = blocks'
  BY <1>6 DEF Pool, PoolFields
<1>8. PoolOK(m, mplsz + 1) /\ \A v : can_get(m, v) <=> can_get(r, v)
  BY <1>2, <1>3, <1>7, PoolFlags
<1>9. PoolOK(Pool, mplsz + 1)'
  BY <1>2, <1>6, <1>8 DEF PoolOK, Areas, Free, Rising, Sorted, AreaSize, next_area
<1>10. \A t \in ToSet(wait_queue') : winfo'[t] = winfo[t] /\ winfo[t] \in BlkSizes
  BY <1>2, <1>4
<1>11. wait_queue' # <<>> => Unfit(Pool, winfo[Head(wait_queue)])'
  <2>1. wait_queue' # <<>> => ~can_get(m, winfo'[Head(wait_queue')]) /\ winfo'[Head(wait_queue')] \in Nat
    <3>. HIDE DEF can_get
    <3>. QED  BY <1>2, <1>3, <1>5, <1>8, <1>10, MplAssumption
  <2>2. wait_queue' # <<>> => Unfit(m, winfo'[Head(wait_queue')])
    BY <1>8, <2>1, UnfitExact
  <2>. QED  BY <1>6, <2>2 DEF Unfit, AreaSize, next_area
<1>12. MplTypeOK'
  <2>1. /\ r.area \in Seq(Nat) /\ r.use \subseteq ToSet(r.area) /\ ToSet(r.free) \subseteq ToSet(r.area)
        /\ r.blocks \subseteq r.use
    BY <1>3 DEF PoolOK, Areas, Rising, Free
  <2>. QED  BY <1>2, <2>1 DEF MplOK, MplTypeOK
<1>. QED  BY <1>9, <1>10, <1>11, <1>12 DEF MplOK

\* The queue loses members at most and keeps its head; the pool stays.
LEMMA MplKept ==
  ASSUME MplOK, UNCHANGED mpl, objid' => objid, wait_queue' \in Seq(Tasks),
         winfo' \in [Tasks -> Nat \cup {NULL}],
         \A u \in ToSet(wait_queue') : u \in ToSet(wait_queue) /\ winfo'[u] = winfo[u],
         wait_queue' = <<>> \/ (wait_queue # <<>> /\ Head(wait_queue') = Head(wait_queue))
  PROVE  MplOK'
<1>1. UNCHANGED <<mplsz, areaque, area_use, freeque, blocks>>
  BY DEF mpl
<1>2. wait_queue' # <<>> => Head(wait_queue') \in ToSet(wait_queue')
  BY MemberPosition
<1>3. (objid => PoolOK(Pool, mplsz + 1))'
  <2>1. PICK m : m = Pool'
    OBVIOUS
  <2>2. m = Pool
    BY <1>1, <2>1 DEF Pool
  <2>3. objid' => PoolOK(m, mplsz + 1)
    BY <2>2 DEF MplOK
  <2>. QED  BY <1>1, <2>1, <2>3 DEF PoolOK, Areas, Free, Rising, Sorted, AreaSize, next_area
<1>4. (wait_queue # <<>> => Unfit(Pool, winfo[Head(wait_queue)]))'
  BY <1>1, <1>2 DEF MplOK, Pool, Unfit, AreaSize, next_area
<1>5. MplTypeOK'
  BY <1>1 DEF MplOK, MplTypeOK
<1>. QED  BY <1>3, <1>4, <1>5 DEF MplOK

\* wake leaves the others what they asked for.
LEMMA AreaWake ==
  ASSUME winfo \in [Tasks -> Nat \cup {NULL}], NEW t, NEW s, wake(t, s)
  PROVE  /\ winfo' \in [Tasks -> Nat \cup {NULL}]
         /\ \A u \in Tasks : u # t /\ u \notin gets' => winfo'[u] = winfo[u]
BY DEF wake

\* A wait ends without success, or a task moves in the queue.
LEMMA MplLeave ==
  ASSUME MplOK, GcbOK, NEW t \in Tasks, HookedLeave(t, mpl_chg_pri)
  PROVE  MplOK'
<1>0. /\ wait_queue \in Seq(Tasks) /\ IsInjective(wait_queue) /\ ToSet(wait_queue) \subseteq Tasks
      /\ \A u \in Tasks : u \in ToSet(wait_queue) <=> state[u] = "WAIT"
      /\ priority \in [Tasks -> Pri] /\ Current
  BY MemberPosition DEF GcbOK, Current, Exact
<1>1. /\ state[t] = "WAIT"
      /\ \/ \E s \in {"READY", "DORMANT"} : leave(t, s, mpl_chg_pri)
         \/ /\ objatr.tpri /\ wake(NULL, "READY")
            /\ \E p \in Pri : /\ priority' = [priority EXCEPT ![t] = p]
                              /\ mpl_chg_pri(gcb_change_priority(wait_queue, t, priority'))
  <2>. HIDE DEF mpl_chg_pri
  <2>. QED  BY DEF HookedLeave, leave
<1>2. t \in ToSet(wait_queue) /\ objid
  BY <1>0, <1>1 DEF GcbOK, ToSet
<1>3. winfo \in [Tasks -> Nat \cup {NULL}] /\ \A u \in ToSet(wait_queue) : winfo[u] \in BlkSizes
  BY DEF MplOK, MplTypeOK
<1>p. PICK k : k = Pool
  OBVIOUS
<1>k. PoolOK(k, mplsz + 1) /\ k.freed = {} /\ ~k.stop
  BY <1>2, <1>p DEF MplOK, Pool
<1>4. ASSUME NEW q \in Seq(Tasks), IsInjective(q), mpl_chg_pri(q),
             \A u \in ToSet(q) : u \in ToSet(wait_queue),
             winfo' \in [Tasks -> Nat \cup {NULL}],
             \A u \in ToSet(q) : u \notin gets' => winfo'[u] = winfo[u]
      PROVE  MplOK'
  <2>. HIDE DEF mpl_wakeup
  <2>1. mpl_wakeup(q, k)
    BY <1>4, <1>p DEF mpl_chg_pri
  <2>. QED  BY <1>2, <1>3, <1>4, <1>k, <2>1, MplHook
<1>. HIDE DEF mpl_chg_pri
<1>5. ASSUME NEW s \in {"READY", "DORMANT"}, leave(t, s, mpl_chg_pri)
      PROVE  MplOK'
  <2>1. PICK q : q = QueRemove(wait_queue, t)
    OBVIOUS
  <2>2. q \in Seq(Tasks) /\ ToSet(q) = ToSet(wait_queue) \ {t} /\ IsInjective(q)
    BY <1>0, <2>1, QueRemoveProperties
  <2>3. mpl_chg_pri(q) /\ wake(t, s)
    BY <1>5, <2>1 DEF leave
  <2>4. /\ winfo' \in [Tasks -> Nat \cup {NULL}]
        /\ \A u \in Tasks : u # t /\ u \notin gets' => winfo'[u] = winfo[u]
    BY <1>3, <2>3, AreaWake
  <2>5. \A u \in ToSet(q) : u \in ToSet(wait_queue) /\ (u \notin gets' => winfo'[u] = winfo[u])
    BY <1>0, <2>2, <2>4
  <2>. QED  BY <1>4, <2>2, <2>3, <2>4, <2>5
<1>6. ASSUME objatr.tpri, wake(NULL, "READY"), NEW p \in Pri,
             priority' = [priority EXCEPT ![t] = p],
             mpl_chg_pri(gcb_change_priority(wait_queue, t, priority'))
      PROVE  MplOK'
  <2>1. PICK q : q = gcb_change_priority(wait_queue, t, priority')
    OBVIOUS
  <2>2. priority' \in [Tasks -> Pri] /\ \A u \in Tasks : u # t => priority'[u] = priority[u]
    BY <1>0, <1>6
  <2>3. Exact(q, state, waitmask, priority', objatr)
    BY <1>0, <1>2, <1>6, <2>1, <2>2, ExactMoved DEF Current
  <2>4. /\ q \in Seq(Tasks) /\ IsInjective(q) /\ ToSet(q) \subseteq Tasks
        /\ \A u \in Tasks : u \in ToSet(q) <=> state[u] = "WAIT"
    BY <2>3, MemberPosition DEF Exact
  <2>5. mpl_chg_pri(q)
    BY <1>6, <2>1
  <2>6. /\ winfo' \in [Tasks -> Nat \cup {NULL}]
        /\ \A u \in Tasks : u # NULL /\ u \notin gets' => winfo'[u] = winfo[u]
    BY <1>3, <1>6, AreaWake
  <2>7. \A u \in ToSet(q) : u \in ToSet(wait_queue) /\ (u \notin gets' => winfo'[u] = winfo[u])
    BY <1>0, <2>4, <2>6, ObjectAssumption
  <2>. QED  BY <1>4, <2>4, <2>5, <2>6, <2>7
<1>. QED  BY <1>1, <1>5, <1>6

\* The calls that reach no hook leave the queue as it is.
LEMMA QuietQueue ==
  ASSUME GcbOK, NEW t \in Tasks, HookedQuiet(t)
  PROVE  /\ UNCHANGED <<objid, objatr>> /\ winfo' = winfo /\ gets' = {}
         /\ wait_queue' \in Seq(Tasks) /\ ToSet(wait_queue') = ToSet(wait_queue)
         /\ wait_queue' = <<>> \/ (wait_queue # <<>> /\ Head(wait_queue') = Head(wait_queue))
<1>0. /\ wait_queue \in Seq(Tasks) /\ ToSet(wait_queue) \subseteq Tasks
      /\ \A u \in Tasks : u \in ToSet(wait_queue) <=> state[u] = "WAIT"
  BY MemberPosition DEF GcbOK, Current, Exact
<1>1. /\ UNCHANGED <<objid, objatr>> /\ winfo' = winfo /\ gets' = {}
      /\ \/ wait_queue' = wait_queue
         \/ \E S \in {{t}, {}} : /\ wait_queue' = Without(wait_queue, S)
                                 /\ S = {t} => state[t] # "WAIT"
  BY DEF HookedQuiet, DisWai, TerTsk, EnaWai, StaTsk, ChgPri, chg_pri_hook, wait_release_ok, gcb
<1>2. CASE wait_queue' = wait_queue
  BY <1>0, <1>1, <1>2
<1>3. ASSUME NEW S \in {{t}, {}}, wait_queue' = Without(wait_queue, S), S = {t} => state[t] # "WAIT"
      PROVE  /\ wait_queue' \in Seq(Tasks) /\ ToSet(wait_queue') = ToSet(wait_queue)
             /\ wait_queue' = <<>> \/ (wait_queue # <<>> /\ Head(wait_queue') = Head(wait_queue))
  <2>1. \A u \in ToSet(wait_queue) : u \notin S
    BY <1>0, <1>3
  <2>2. wait_queue' \in Seq(Tasks) /\ ToSet(wait_queue') = ToSet(wait_queue)
    <3>1. ToSet(Without(wait_queue, S)) = ToSet(wait_queue) \ S /\ Without(wait_queue, S) \in Seq(Tasks)
      BY <1>0, WithoutProperties
    <3>2. ToSet(wait_queue) \ S = ToSet(wait_queue)
      BY <2>1
    <3>. QED  BY <1>3, <3>1, <3>2
  <2>3. wait_queue' # <<>> => wait_queue # <<>>
    BY <1>0, <2>2, MemberPosition
  <2>4. ASSUME wait_queue # <<>>  PROVE Head(wait_queue') = Head(wait_queue)
    <3>1. Len(wait_queue) \in Nat /\ Len(wait_queue) >= 1 /\ Head(wait_queue) = wait_queue[1]
          /\ Head(wait_queue) \in ToSet(wait_queue)
      BY <1>0, <2>4, MemberPosition, LenProperties
    <3>2. 1 \in 1..Len(wait_queue) /\ \A i \in 1..Len(wait_queue) : ~(i < 1)
      BY <3>1
    <3>. QED  BY <1>0, <1>3, <2>1, <3>1, <3>2, WithoutHead
  <2>. QED  BY <2>2, <2>3, <2>4
<1>. QED  BY <1>1, <1>2, <1>3

\* A new pool is one free piece.
LEMMA NewPool ==
  ASSUME NEW sz \in MplSizes, NEW k,
         k = [area |-> <<0, sz + 1>>, use |-> {sz + 1}, free |-> << 0 >>, blocks |-> {}, freed |-> {}, stop |-> FALSE]
  PROVE  PoolOK(k, sz + 1)
<1>. DEFINE e == sz + 1
            s == <<0, e>>
<1>1. sz \in Nat /\ e \in Nat /\ sz >= MinFragment /\ MinFragment \in Nat \ {0} /\ e > 0
  BY MplAssumption
<1>2. /\ DOMAIN k = PoolFields /\ k.area = s /\ k.use = {e} /\ k.free = << 0 >> /\ k.blocks = {}
  BY DEF PoolFields
<1>. HIDE DEF e
<1>3. s \in Seq(Nat) /\ Len(s) = 2 /\ s[1] = 0 /\ s[2] = e
  BY <1>1
<1>4. ToSet(s) = {0, e}
  BY <1>3 DEF ToSet
<1>. HIDE DEF s
<1>5. IsInjective(s)
  BY <1>1, <1>3, InjectivePositions
<1>6. Sorted(s, Ident)
  <2>. SUFFICES ASSUME NEW i \in 1..Len(s), NEW j \in 1..Len(s), i < j  PROVE Ident[s[i]] <= Ident[s[j]]
    BY DEF Sorted
  <2>1. i = 1 /\ j = 2
    BY <1>3
  <2>. QED  BY <1>1, <1>3, <2>1 DEF Ident
<1>7. Tiled({0, e}, e)
  BY <1>1 DEF Tiled, e
<1>8. Areas(k, e)
  BY <1>2, <1>3, <1>4, <1>5, <1>6, <1>7 DEF Areas, Rising
<1>9. Free(k, {0})
  <2>1. << 0 >> \in Seq({0}) /\ Len(<< 0 >>) = 1 /\ << 0 >>[1] = 0 /\ ToSet(<< 0 >>) = {0}
    BY DEF ToSet
  <2>2. IsInjective(<< 0 >>)
    <3>1. PICK q : q = << 0 >>
      OBVIOUS
    <3>2. q \in Seq({0}) /\ \A i, j \in 1..Len(q) : q[i] = q[j] => i = j
      BY <2>1, <3>1
    <3>. QED  BY <3>1, <3>2, InjectivePositions
  <2>3. \A key : Sorted(<< 0 >>, key)
    BY <2>1 DEF Sorted
  <2>. QED  BY <1>2, <2>1, <2>2, <2>3 DEF Free
<1>10. {0, e} \ {e} = {0}
  BY <1>1
<1>11. \A a, b : Adjacent({0, e}, a, b) => b = e
  BY <1>1 DEF Adjacent
<1>12. PoolOK(k, e)
  BY <1>2, <1>4, <1>8, <1>9, <1>10, <1>11 DEF PoolOK
<1>. QED  BY <1>12 DEF e

\* Every call of the variable-size pool.
LEMMA MplServed ==
  ASSUME MplOK, GcbOK, GcbOK', MplNext
  PROVE  MplOK'
<1>0. /\ wait_queue \in Seq(Tasks) /\ ToSet(wait_queue) \subseteq Tasks /\ IsInjective(wait_queue)
      /\ \A u \in Tasks : u \in ToSet(wait_queue) <=> state[u] = "WAIT"
      /\ ToSet(wait_queue') \subseteq Tasks /\ wait_queue' \in Seq(Tasks)
      /\ \A u \in Tasks : u \in ToSet(wait_queue') <=> state'[u] = "WAIT"
      /\ priority \in [Tasks -> Pri] /\ objatr.tpri \in BOOLEAN
      /\ state \in [Tasks -> {"READY", "WAIT", "RECV", "DORMANT"}]
  BY MemberPosition DEF GcbOK, Current, Exact, ObjAtr
<1>t. winfo \in [Tasks -> Nat \cup {NULL}] /\ \A u \in ToSet(wait_queue) : winfo[u] \in BlkSizes
  BY DEF MplOK, MplTypeOK
<1>e. ToSet(<<>>) = {}
  BY DEF ToSet
<1>1. ASSUME NEW atr \in Attributes, NEW sz \in MplSizes, CreMpl(atr, sz)
      PROVE  MplOK'
  <2>1. /\ wait_queue' = <<>> /\ winfo' = winfo /\ mplsz' = sz /\ areaque' = <<0, sz + 1>> /\ area_use' = {sz + 1}
        /\ freeque' = << 0 >> /\ blocks' = {}
    BY <1>1 DEF CreMpl, create, tasks, GcbOK
  <2>2. PICK k : k = Pool'
    OBVIOUS
  <2>3. k = [area |-> <<0, sz + 1>>, use |-> {sz + 1}, free |-> << 0 >>, blocks |-> {}, freed |-> {}, stop |-> FALSE]
    BY <2>1, <2>2 DEF Pool
  <2>4. PoolOK(k, sz + 1)
    BY <2>3, NewPool
  <2>5. PoolOK(Pool, mplsz + 1)'
    BY <2>1, <2>2, <2>4 DEF PoolOK, Areas, Free, Rising, Sorted, AreaSize, next_area
  <2>6. /\ areaque' \in Seq(Nat) /\ area_use' \subseteq ToSet(areaque') /\ ToSet(freeque') \subseteq ToSet(areaque')
    <3>1. k.area = areaque' /\ k.use = area_use' /\ k.free = freeque'
      BY <2>1, <2>3
    <3>. QED  BY <2>4, <3>1 DEF PoolOK, Areas, Rising, Free
  <2>7. MplTypeOK'
    BY <1>t, <2>1, <2>6 DEF MplTypeOK
  <2>. QED  BY <1>e, <2>1, <2>5, <2>7 DEF MplOK
<1>2. CASE DelMpl
  <2>1. /\ objid' = FALSE /\ UNCHANGED <<mplsz, areaque, area_use, freeque, blocks>> /\ winfo' = [t \in Tasks |-> NULL]
    BY <1>2 DEF DelMpl, HookedDelete, wait_delete, mpl
  <2>2. wait_queue' = <<>>
    BY <2>1 DEF GcbOK
  <2>. QED  BY <1>e, <2>1, <2>2 DEF MplOK, MplTypeOK
<1>3. ASSUME NEW a \in blocks, RelMpl(a)
      PROVE  MplOK'
  <2>1. PICK q : q = wait_queue
    OBVIOUS
  <2>2. PICK k : k = Pool
    OBVIOUS
  <2>3. objid /\ mpl_wakeup(q, rel_blk(k, a)) /\ wake(NULL, "READY")
    <3>. HIDE DEF mpl_wakeup
    <3>. QED  BY <1>3, <2>1, <2>2 DEF RelMpl
  <2>4. PoolOK(k, mplsz + 1) /\ DOMAIN k = PoolFields /\ k.freed = {} /\ ~k.stop /\ k.blocks = blocks
    BY <2>2, <2>3 DEF MplOK, Pool, PoolOK
  <2>5. PICK m : m = rel_blk(k, a)
    OBVIOUS
  <2>6. PoolOK(m, mplsz + 1) /\ m.freed = {} /\ ~m.stop
    <3>1. a \in k.blocks
      BY <2>4
    <3>. QED  BY <2>4, <2>5, <3>1, RelBlk, PoolServed
  <2>7. /\ winfo' \in [Tasks -> Nat \cup {NULL}]
        /\ \A u \in Tasks : u # NULL /\ u \notin gets' => winfo'[u] = winfo[u]
    BY <1>t, <2>3, AreaWake
  <2>8. \A u \in ToSet(q) : winfo[u] \in BlkSizes /\ (u \notin gets' => winfo'[u] = winfo[u])
    BY <1>0, <1>t, <2>1, <2>7, ObjectAssumption
  <2>9. q \in Seq(Tasks) /\ IsInjective(q) /\ mpl_wakeup(q, m)
    <3>. HIDE DEF mpl_wakeup
    <3>. QED  BY <1>0, <2>1, <2>3, <2>5
  <2>. HIDE DEF mpl_wakeup
  <2>. QED  BY <2>3, <2>6, <2>7, <2>8, <2>9, MplHook
<1>4. ASSUME NEW t \in Tasks, NEW blksz \in BlkSizes, GetMpl(t, blksz)
      PROVE  MplOK'
  <2>0. PICK k : k = Pool
    OBVIOUS
  <2>1. /\ state[t] = "READY" /\ objid /\ ~is_diswai(t) /\ mplsz' = mplsz /\ UNCHANGED gcb
        /\ blksz \in Nat /\ blksz >= MinFragment
    BY <1>4, MplAssumption DEF GetMpl
  <2>2. PoolOK(k, mplsz + 1)
    BY <2>0, <2>1 DEF MplOK
  <2>3. CASE may_get(t) /\ can_get(k, blksz)
    <3>1. PICK r : r = get_blk(k, blksz)
      OBVIOUS
    <3>2. /\ areaque' = r.area /\ area_use' = r.use /\ freeque' = r.free /\ blocks' = r.blocks
          /\ UNCHANGED <<wait_queue, winfo>>
      <4>. HIDE DEF get_blk, can_get
      <4>. QED  BY <1>4, <2>0, <2>3, <3>1 DEF GetMpl, SetPool
    <3>3. PoolOK(r, mplsz + 1) /\ \A v \in Nat : can_get(r, v) => can_get(k, v)
      BY <2>1, <2>2, <2>3, <3>1, GetBlk
    <3>4. PICK m : m = Pool'
      OBVIOUS
    <3>5. DOMAIN m = PoolFields /\ m.area = r.area /\ m.use = r.use /\ m.free = r.free /\ m.blocks = r.blocks
      BY <3>2, <3>4 DEF Pool, PoolFields
    <3>6. PoolOK(m, mplsz + 1) /\ \A v : can_get(m, v) <=> can_get(r, v)
      BY <3>3, <3>5, PoolFlags
    <3>7. PoolOK(Pool, mplsz + 1)'
      BY <2>1, <3>4, <3>6 DEF PoolOK, Areas, Free, Rising, Sorted, AreaSize, next_area
    <3>8. wait_queue # <<>> => Unfit(m, winfo[Head(wait_queue)])
      <4>. SUFFICES ASSUME wait_queue # <<>>  PROVE Unfit(m, winfo[Head(wait_queue)])
        OBVIOUS
      <4>1. Unfit(k, winfo[Head(wait_queue)])
        BY <2>0 DEF MplOK
      <4>2. Head(wait_queue) \in ToSet(wait_queue)
        BY <1>0, MemberPosition
      <4>3. winfo[Head(wait_queue)] \in Nat
        BY <1>t, <4>2, MplAssumption
      <4>4. ~can_get(k, winfo[Head(wait_queue)])
        BY <2>2, <4>1, <4>3, UnfitExact
      <4>5. ~can_get(m, winfo[Head(wait_queue)])
        <5>. HIDE DEF can_get
        <5>. QED  BY <3>3, <3>6, <4>3, <4>4
      <4>. QED  BY <3>6, <4>3, <4>5, UnfitExact
    <3>9. (wait_queue # <<>> => Unfit(Pool, winfo[Head(wait_queue)]))'
      BY <3>2, <3>4, <3>8 DEF Unfit, AreaSize, next_area
    <3>10. MplTypeOK'
      <4>1. /\ r.area \in Seq(Nat) /\ r.use \subseteq ToSet(r.area) /\ ToSet(r.free) \subseteq ToSet(r.area)
            /\ r.blocks \subseteq r.use
        BY <3>3 DEF PoolOK, Areas, Rising, Free
      <4>. QED  BY <2>1, <3>2, <4>1 DEF MplOK, MplTypeOK
    <3>. QED  BY <1>t, <3>2, <3>7, <3>9, <3>10 DEF MplOK
  <2>4. CASE ~(may_get(t) /\ can_get(k, blksz))
    <3>1. /\ make_wait_with_diswai(t) /\ winfo' = [winfo EXCEPT ![t] = blksz]
          /\ UNCHANGED <<areaque, area_use, freeque, blocks>>
      <4>. HIDE DEF can_get
      <4>. QED  BY <1>4, <2>0, <2>4 DEF GetMpl, hook_make_wait
    <3>2. wait_queue' = gcb_make_wait(wait_queue, t, priority, objatr.tpri) /\ state' = [state EXCEPT ![t] = "WAIT"]
      BY <2>1, <3>1 DEF make_wait_with_diswai
    <3>3. Head(wait_queue') = gcb_top_of_wait_queue(wait_queue, t, priority, objatr.tpri)
      BY <1>0, <3>2, TopIsHead
    <3>4. t \notin ToSet(wait_queue) /\ winfo'[t] = blksz
      BY <1>0, <1>t, <2>1, <3>1
    <3>5. \A u \in ToSet(wait_queue') : u = t \/ (u \in ToSet(wait_queue) /\ winfo'[u] = winfo[u])
      BY <1>0, <1>t, <3>1, <3>2
    <3>6. \A u \in ToSet(wait_queue') : winfo'[u] \in BlkSizes
      BY <1>t, <3>4, <3>5
    <3>7. winfo' \in [Tasks -> Nat \cup {NULL}]
      BY <1>t, <2>1, <3>1
    <3>8. Unfit(k, winfo'[Head(wait_queue')])
      <4>1. CASE Head(wait_queue') = t
        <5>1. ~can_get(k, blksz)
          BY <2>4, <3>3, <4>1 DEF may_get
        <5>. QED  BY <2>1, <2>2, <3>4, <4>1, <5>1, UnfitExact
      <4>2. CASE Head(wait_queue') # t
        <5>1. wait_queue # <<>> /\ Head(wait_queue') = Head(wait_queue)
          BY <3>3, <4>2 DEF gcb_top_of_wait_queue, isQueEmpty, QueNext
        <5>2. Head(wait_queue) \in Tasks
          BY <1>0, <5>1, MemberPosition
        <5>3. winfo'[Head(wait_queue)] = winfo[Head(wait_queue)]
          BY <1>t, <3>1, <4>2, <5>1, <5>2
        <5>. QED  BY <2>0, <5>1, <5>3 DEF MplOK
      <4>. QED  BY <4>1, <4>2
    <3>9. PoolOK(Pool, mplsz + 1)'
      <4>1. PICK m : m = Pool'
        OBVIOUS
      <4>2. m = k
        BY <2>0, <3>1, <4>1 DEF Pool
      <4>. QED  BY <2>1, <2>2, <4>1, <4>2 DEF PoolOK, Areas, Free, Rising, Sorted, AreaSize, next_area
    <3>10. Unfit(Pool, winfo[Head(wait_queue)])'
      BY <2>0, <3>1, <3>8 DEF Pool, Unfit, AreaSize, next_area
    <3>11. MplTypeOK'
      BY <2>1, <3>1, <3>7 DEF MplOK, MplTypeOK
    <3>. QED  BY <3>6, <3>9, <3>10, <3>11 DEF MplOK
  <2>. QED  BY <2>3, <2>4
<1>5. ASSUME NEW t \in Tasks, HookedLeave(t, mpl_chg_pri)
      PROVE  MplOK'
  <2>. HIDE DEF mpl_chg_pri
  <2>. QED  BY <1>5, MplLeave
<1>6. ASSUME NEW t \in Tasks, HookedQuiet(t), UNCHANGED mpl
      PROVE  MplOK'
  <2>1. /\ UNCHANGED <<objid, objatr>> /\ winfo' = winfo
        /\ wait_queue' \in Seq(Tasks) /\ ToSet(wait_queue') = ToSet(wait_queue)
        /\ wait_queue' = <<>> \/ (wait_queue # <<>> /\ Head(wait_queue') = Head(wait_queue))
    BY <1>6, QuietQueue
  <2>2. winfo' \in [Tasks -> Nat \cup {NULL}] /\ (objid' => objid)
        /\ \A u \in ToSet(wait_queue') : u \in ToSet(wait_queue) /\ winfo'[u] = winfo[u]
    BY <1>t, <2>1
  <2>. QED  BY <1>6, <2>1, <2>2, MplKept
<1>. HIDE DEF mpl_chg_pri
<1>. QED  BY <1>1, <1>2, <1>3, <1>4, <1>5, <1>6 DEF MplNext

-----------------------------------------------------------------------------
(* The mailbox: its linked list.                                           *)

\* What n turns along the links find, for every message they may start at.
Turn(h) == [m \in Msgs \cup {NULL} |-> IF m = NULL THEN <<>> ELSE <<m>> \o h[next[m]]]

\* chain follows the links.
LEMMA ChainSteps ==
  ASSUME next \in [Msgs -> Msgs \cup {NULL}]
  PROVE  /\ chain[0] = [m \in Msgs \cup {NULL} |-> <<>>]
         /\ \A n \in 1..Cardinality(Msgs) + 1 :
               /\ chain[n] = Turn(chain[n - 1])
               /\ chain[n - 1] \in [Msgs \cup {NULL} -> Seq(Msgs)]
<1>. DEFINE C == Cardinality(Msgs) + 1
            M == Msgs \cup {NULL}
            V == [M -> Seq(Msgs)]
            base == [m \in M |-> <<>>]
            step == [p \in (1..C) \X V |-> Turn(p[2])]
<1>1. Cardinality(Msgs) \in Nat /\ C \in Nat
  BY MailboxAssumption, FS_CardinalityType
<1>2. base \in V
  BY EmptySeq
<1>3. ASSUME NEW h \in V  PROVE Turn(h) \in V
  <2>. SUFFICES ASSUME NEW m \in M  PROVE (IF m = NULL THEN <<>> ELSE <<m>> \o h[next[m]]) \in Seq(Msgs)
    BY DEF Turn
  <2>1. CASE m = NULL
    BY <2>1
  <2>2. CASE m # NULL
    <3>1. m \in Msgs /\ next[m] \in M
      BY <2>2
    <3>2. <<m>> \in Seq(Msgs) /\ h[next[m]] \in Seq(Msgs)
      BY <3>1
    <3>3. <<m>> \o h[next[m]] \in Seq(Msgs)
      BY <3>2, ConcatProperties
    <3>. QED  BY <2>2, <3>3
  <2>. QED  BY <2>1, <2>2
<1>. HIDE DEF C
<1>4. Recursion(C, V, base, step)
  <2>1. step \in [(1..C) \X V -> V]
    BY <1>3
  <2>. QED  BY <1>1, <1>2, <2>1 DEF Recursion
<1>5. PICK g : Solves(g, C, V, base, step)
  <2>. HIDE DEF base, step, V
  <2>. QED  BY <1>4, RecursionExists
<1>6. g \in [0..C -> V] /\ g[0] = base /\ \A n \in 1..C : g[n] = Turn(g[n - 1]) /\ g[n - 1] \in V
  <2>1. ASSUME NEW n \in 1..C  PROVE g[n] = Turn(g[n - 1]) /\ g[n - 1] \in V
    <3>1. n - 1 \in 0..C
      BY <1>1
    <3>2. g[n - 1] \in V
      BY <1>5, <3>1 DEF Solves
    <3>3. step[<<n, g[n - 1]>>] = Turn(g[n - 1])
      BY <3>2
    <3>. QED  BY <1>5, <3>2, <3>3 DEF Solves
  <2>. QED  BY <1>5, <2>1 DEF Solves
<1>. DEFINE F(n) == [m \in M |-> IF m = NULL \/ n = 0 THEN <<>> ELSE <<m>> \o g[n - 1][next[m]]]
<1>7. ASSUME NEW n \in 0..C  PROVE g[n] = F(n)
  <2>1. CASE n = 0
    <3>1. F(n) = base
      BY <2>1
    <3>. QED  BY <1>6, <2>1, <3>1
  <2>2. CASE n # 0
    <3>1. n \in 1..C
      BY <1>1, <2>2
    <3>2. F(n) = Turn(g[n - 1])
      BY <2>2 DEF Turn
    <3>. QED  BY <1>6, <3>1, <3>2
  <2>. QED  BY <2>1, <2>2
<1>8. g = [n \in 0..C |-> F(n)]
  <2>1. g = [n \in 0..C |-> g[n]]
    BY <1>6
  <2>. HIDE DEF F
  <2>. QED  BY <1>7, <2>1
<1>9. chain = CHOOSE f : f = [n \in 0..C |-> [m \in M |-> IF m = NULL \/ n = 0 THEN <<>>
                                                          ELSE <<m>> \o f[n - 1][next[m]]]]
  BY DEF chain, C
<1>10. chain = [n \in 0..C |-> [m \in M |-> IF m = NULL \/ n = 0 THEN <<>>
                                            ELSE <<m>> \o chain[n - 1][next[m]]]]
  BY <1>8, <1>9
<1>11. chain[0] = base
  <2>1. 0 \in 0..C
    BY <1>1
  <2>2. chain[0] = [m \in M |-> IF m = NULL \/ 0 = 0 THEN <<>> ELSE <<m>> \o chain[0 - 1][next[m]]]
    BY <1>10, <2>1
  <2>. QED  BY <2>2
<1>12. ASSUME NEW n \in 1..C  PROVE chain[n] = Turn(chain[n - 1])
  <2>1. n \in 0..C /\ n # 0
    BY <1>1
  <2>2. chain[n] = [m \in M |-> IF m = NULL \/ n = 0 THEN <<>> ELSE <<m>> \o chain[n - 1][next[m]]]
    BY <1>10, <2>1
  <2>. QED  BY <2>1, <2>2 DEF Turn
<1>13. ASSUME NEW n \in 0..C  PROVE chain[n] \in V
  <2>. DEFINE P == {k \in Nat : k <= C => chain[k] \in V}
  <2>1. 0 \in P
    BY <1>2, <1>11
  <2>2. ASSUME NEW k \in Nat, k \in P  PROVE k + 1 \in P
    <3>1. SUFFICES ASSUME k + 1 <= C  PROVE chain[k + 1] \in V
      OBVIOUS
    <3>2. k + 1 \in 1..C /\ chain[k] \in V
      BY <1>1, <2>2, <3>1
    <3>3. chain[k + 1] = Turn(chain[k])
      BY <1>12, <3>2
    <3>. QED  BY <1>3, <3>2, <3>3
  <2>3. Nat \subseteq P
    <3>. HIDE DEF P
    <3>. QED  BY <2>1, <2>2, SetInduction
  <2>4. n \in Nat /\ n <= C
    BY <1>1
  <2>5. n \in P
    <3>. HIDE DEF P
    <3>. QED  BY <2>3, <2>4
  <2>. QED  BY <2>4, <2>5
<1>14. ASSUME NEW n \in 1..C  PROVE chain[n - 1] \in V
  <2>1. n - 1 \in 0..C
    BY <1>1
  <2>. QED  BY <1>13, <2>1
<1>. QED  BY <1>11, <1>12, <1>14 DEF C

\* The messages of q are linked in their order, h is the first.
Linked(q, h, nx) ==
    /\ h = IF q = <<>> THEN NULL ELSE q[1]
    /\ \A i \in 1..Len(q) : nx[q[i]] = IF i = Len(q) THEN NULL ELSE q[i + 1]

\* A list of messages has no more members than there are messages.
LEMMA ListLength ==
  ASSUME NEW q \in Seq(Msgs), IsInjective(q)
  PROVE  Len(q) \in Nat /\ Len(q) <= Cardinality(Msgs) /\ Cardinality(Msgs) \in Nat
<1>1. Len(q) \in Nat /\ \A i \in 1..Len(q) : q[i] \in Msgs
  BY LenProperties, ElementOfSeq
<1>2. IsFiniteSet(Msgs) /\ Cardinality(Msgs) \in Nat
  BY MailboxAssumption, FS_CardinalityType
<1>3. Cardinality(1..Len(q)) = Len(q)
  <2>1. Cardinality(1..Len(q)) = IF 1 > Len(q) THEN 0 ELSE Len(q) - 1 + 1
    BY <1>1, FS_Interval
  <2>. QED  BY <1>1, <2>1
<1>. DEFINE f == [i \in 1..Len(q) |-> q[i]]
<1>4. f \in Injection(1..Len(q), Msgs)
  BY <1>1, InjectivePositions DEF Injection
<1>5. Cardinality(1..Len(q)) <= Cardinality(Msgs)
  BY <1>2, <1>4, FS_Injection
<1>. QED  BY <1>1, <1>2, <1>3, <1>5

\* Following the links finds the messages in their order.
LEMMA ListLinked ==
  ASSUME next \in [Msgs -> Msgs \cup {NULL}],
         NEW q \in Seq(Msgs), IsInjective(q), Linked(q, head, next)
  PROVE  List = q
<1>. DEFINE N == Len(q)
            C == Cardinality(Msgs) + 1
            Nth(k) == IF k = N + 1 THEN NULL ELSE q[k]
            Rest(d) == SubSeq(q, N + 1 - d, N)
            P == {d \in Nat : d <= N => \A n \in d..C : chain[n][Nth(N + 1 - d)] = Rest(d)}
<1>1. N \in Nat /\ C \in Nat /\ N < C /\ NULL \notin Msgs
  BY ListLength, MailboxAssumption
<1>2. \A k \in 1..N : q[k] \in Msgs /\ next[q[k]] = Nth(k + 1)
  <2>1. \A k \in 1..N : q[k] \in Msgs
    BY ElementOfSeq
  <2>2. \A k \in 1..N : next[q[k]] = IF k = N THEN NULL ELSE q[k + 1]
    BY DEF Linked
  <2>. QED  BY <1>1, <2>1, <2>2
<1>3. chain[0] = [m \in Msgs \cup {NULL} |-> <<>>]
  BY ChainSteps
<1>4. ASSUME NEW n \in 1..C  PROVE chain[n] = Turn(chain[n - 1])
  BY <1>4, ChainSteps
<1>. HIDE DEF C
<1>5. ASSUME NEW n \in 0..C  PROVE chain[n][NULL] = <<>>
  <2>1. CASE n = 0
    BY <1>3, <2>1
  <2>2. CASE n # 0
    <3>1. n \in 1..C
      BY <1>1, <2>2
    <3>. QED  BY <1>4, <3>1 DEF Turn
  <2>. QED  BY <2>1, <2>2
<1>6. 0 \in P
  <2>1. Nth(N + 1 - 0) = NULL /\ Rest(0) = <<>>
    <3>1. N + 1 - 0 = N + 1
      BY <1>1
    <3>2. SubSeq(q, N + 1, N) = <<>>
      BY <1>1, SubSeqEmpty
    <3>. QED  BY <3>1, <3>2
  <2>. HIDE DEF At, Rest
  <2>. QED  BY <1>5, <2>1
<1>7. ASSUME NEW d \in Nat, d \in P  PROVE d + 1 \in P
  <2>. HIDE DEF At, Rest
  <2>1. SUFFICES ASSUME d + 1 <= N, NEW n \in d + 1..C
                 PROVE  chain[n][Nth(N + 1 - (d + 1))] = Rest(d + 1)
    <3>1. d + 1 \in Nat
      OBVIOUS
    <3>. QED  BY <3>1
  <2>. DEFINE k == N - d
  <2>2. k \in 1..N /\ n \in 1..C /\ n - 1 \in d..C /\ N + 1 - (d + 1) = k /\ N + 1 - d = k + 1 /\ d <= N
    BY <1>1, <2>1
  <2>3. Nth(k) = q[k] /\ q[k] \in Msgs /\ next[q[k]] = Nth(k + 1)
    <3>1. k # N + 1
      BY <1>1, <2>2
    <3>2. Nth(k) = q[k]
      BY <3>1 DEF At
    <3>. HIDE DEF k
    <3>. QED  BY <1>2, <2>2, <3>2
  <2>4. chain[n - 1][Nth(k + 1)] = Rest(d)
    BY <1>7, <2>2
  <2>5. chain[n][q[k]] = <<q[k]>> \o chain[n - 1][next[q[k]]]
    <3>1. \A h : \A m \in Msgs : Turn(h)[m] = <<m>> \o h[next[m]]
      BY <1>1 DEF Turn
    <3>2. chain[n] = Turn(chain[n - 1]) /\ q[k] \in Msgs
      BY <1>4, <2>2, <2>3
    <3>. HIDE DEF k
    <3>. QED  BY <3>1, <3>2
  <2>6. Rest(d + 1) = <<q[k]>> \o Rest(d)
    <3>1. N \in k..Len(q) /\ k \in 1..Len(q)
      BY <1>1, <2>2
    <3>2. SubSeq(q, k, N) = <<q[k]>> \o SubSeq(q, k + 1, N)
      BY <3>1, SubSeqRecursiveFirst
    <3>. QED  BY <2>2, <3>2 DEF Rest
  <2>. HIDE DEF P, k
  <2>. QED  BY <2>2, <2>3, <2>4, <2>5, <2>6
<1>8. Nat \subseteq P
  <2>. HIDE DEF P
  <2>. QED  BY <1>6, <1>7, SetInduction
<1>9. chain[C][Nth(N + 1 - N)] = Rest(N)
  <2>1. N \in P /\ C \in N..C /\ N <= N
    <3>. HIDE DEF P
    <3>. QED  BY <1>1, <1>8
  <2>. HIDE DEF At, Rest
  <2>. QED  BY <2>1
<1>10. N + 1 - N = 1 /\ Rest(N) = q
  BY <1>1, SubSeqFull
<1>11. Nth(1) = head
  <2>1. q = <<>> <=> N = 0
    BY EmptySeq
  <2>. QED  BY <1>1, <2>1 DEF Linked
<1>. HIDE DEF At, Rest
<1>. QED  BY <1>9, <1>10, <1>11 DEF List, C

\* The links that put m behind the n-th member.
Relinked(q, h, nx, n, m) ==
    LET after == IF n = Len(q) THEN NULL ELSE q[n + 1]
    IN  IF n = 0 THEN [first |-> m, links |-> [nx EXCEPT ![m] = after]]
        ELSE [first |-> h, links |-> [nx EXCEPT ![m] = after, ![q[n]] = m]]

\* The list without its first message.
LEMMA LinkedTail ==
  ASSUME NEW q \in Seq(Msgs), q # <<>>, NEW h, NEW nx, Linked(q, h, nx)
  PROVE  Linked(Tail(q), nx[h], nx)
<1>1. /\ Tail(q) \in Seq(Msgs) /\ Len(Tail(q)) = Len(q) - 1 /\ Len(q) \in Nat /\ Len(q) > 0
      /\ \A i \in 1..Len(Tail(q)) : Tail(q)[i] = q[i + 1]
  BY HeadTailProperties, LenProperties, EmptySeq
<1>2. h = q[1] /\ \A i \in 1..Len(q) : nx[q[i]] = IF i = Len(q) THEN NULL ELSE q[i + 1]
  BY DEF Linked
<1>3. Tail(q) = <<>> <=> Len(q) = 1
  BY <1>1, EmptySeq
<1>4. nx[h] = IF Tail(q) = <<>> THEN NULL ELSE Tail(q)[1]
  <2>1. nx[h] = IF Len(q) = 1 THEN NULL ELSE q[2]
    <3>1. 1 \in 1..Len(q)
      BY <1>1
    <3>2. nx[q[1]] = IF 1 = Len(q) THEN NULL ELSE q[1 + 1]
      BY <1>2, <3>1
    <3>. QED  BY <1>2, <3>2
  <2>2. Len(q) # 1 => Tail(q)[1] = q[2]
    <3>1. Len(q) # 1 => 1 \in 1..Len(Tail(q))
      BY <1>1
    <3>2. 1 + 1 = 2
      OBVIOUS
    <3>. QED  BY ONLY <1>1, <3>1, <3>2
  <2>. QED  BY ONLY <1>3, <2>1, <2>2
<1>5. ASSUME NEW i \in 1..Len(Tail(q))
      PROVE  nx[Tail(q)[i]] = IF i = Len(Tail(q)) THEN NULL ELSE Tail(q)[i + 1]
  <2>1. i + 1 \in 1..Len(q) /\ Tail(q)[i] = q[i + 1] /\ (i = Len(Tail(q)) <=> i + 1 = Len(q))
    BY <1>1
  <2>2. i # Len(Tail(q)) => Tail(q)[i + 1] = q[i + 1 + 1]
    <3>0. Len(Tail(q)) \in Nat /\ i \in 1..Len(Tail(q))
      BY <1>1
    <3>1. i # Len(Tail(q)) => i + 1 \in 1..Len(Tail(q))
      BY ONLY <3>0
    <3>. QED  BY ONLY <1>1, <3>1
  <2>. QED  BY <1>2, <2>1, <2>2
<1>. QED  BY <1>4, <1>5 DEF Linked

\* Its links.
LEMMA LinkedInsert ==
  ASSUME NEW q \in Seq(Msgs), IsInjective(q), NEW n \in 0..Len(q), NEW m \in Msgs, m \notin ToSet(q),
         NEW h, NEW nx \in [Msgs -> Msgs \cup {NULL}], Linked(q, h, nx)
  PROVE  LET k == Relinked(q, h, nx, n, m)
         IN  Linked(PutBehind(q, n, m), k.first, k.links) /\ k.links \in [Msgs -> Msgs \cup {NULL}]
<1>. DEFINE r == PutBehind(q, n, m)
            N == Len(q)
            k == Relinked(q, h, nx, n, m)
            after == IF n = N THEN NULL ELSE q[n + 1]
<1>1. /\ N \in Nat /\ n \in 0..N
      /\ \A i \in 1..N : q[i] \in Msgs /\ q[i] # m
      /\ \A i, j \in 1..N : q[i] = q[j] => i = j
  BY ElementOfSeq, LenProperties, MemberPosition, InjectivePositions
<1>2. /\ r \in Seq(Msgs) /\ Len(r) = N + 1
      /\ \A i \in 1..N + 1 : r[i] = IF i <= n THEN q[i] ELSE IF i = n + 1 THEN m ELSE q[i - 1]
  BY InsertedMember
<1>3. /\ q = <<>> => N = 0
      /\ q # <<>> => N # 0 /\ h = q[1]
      /\ \A i \in 1..N : nx[q[i]] = IF i = N THEN NULL ELSE q[i + 1]
  BY EmptySeq DEF Linked
<1>. HIDE DEF r
<1>4. after \in Msgs \cup {NULL}
  BY <1>1
<1>5. /\ k.links \in [Msgs -> Msgs \cup {NULL}]
      /\ k.links[m] = after
      /\ n # 0 => k.links[q[n]] = m
      /\ \A x \in Msgs : x # m /\ (n # 0 => x # q[n]) => k.links[x] = nx[x]
  BY <1>1, <1>4 DEF Relinked
<1>6. k.first = IF n = 0 THEN m ELSE h
  BY DEF Relinked
<1>. HIDE DEF k, after
<1>7. k.first = r[1] /\ r # <<>>
  <2>1. r # <<>>
    BY <1>1, <1>2, EmptySeq
  <2>2. n # 0 => N # 0 /\ q # <<>>
    BY <1>1, EmptySeq
  <2>. QED  BY <1>1, <1>2, <1>3, <1>6, <2>1, <2>2
<1>8. ASSUME NEW i \in 1..N + 1
      PROVE  k.links[r[i]] = IF i = N + 1 THEN NULL ELSE r[i + 1]
  <2>1. CASE i < n
    <3>1. r[i] = q[i] /\ r[i + 1] = q[i + 1] /\ i # N + 1 /\ i \in 1..N /\ n \in 1..N /\ i # n /\ i # N
      BY <1>1, <1>2, <2>1
    <3>2. q[i] # m /\ q[i] # q[n] /\ q[i] \in Msgs
      BY <1>1, <3>1
    <3>3. k.links[q[i]] = nx[q[i]]
      BY <1>5, <3>2
    <3>. QED  BY <1>3, <3>1, <3>3
  <2>2. CASE i = n
    <3>1. r[i] = q[n] /\ r[i + 1] = m /\ i # N + 1 /\ n # 0
      BY <1>1, <1>2, <2>2
    <3>. QED  BY <1>5, <3>1
  <2>3. CASE i = n + 1
    <3>1. r[i] = m
      BY <1>1, <1>2, <2>3
    <3>2. n # N => r[i + 1] = q[n + 1] /\ i # N + 1
      BY <1>1, <1>2, <2>3
    <3>. QED  BY <1>1, <1>5, <2>3, <3>1, <3>2 DEF after
  <2>4. CASE i > n + 1
    <3>1. r[i] = q[i - 1] /\ i - 1 \in 1..N /\ i - 1 # n /\ (i - 1 = N <=> i = N + 1)
      BY <1>1, <1>2, <2>4
    <3>2. i # N + 1 => r[i + 1] = q[i - 1 + 1]
      <4>1. i # N + 1 => i + 1 \in 1..N + 1 /\ i + 1 > n + 1 /\ i + 1 - 1 = i /\ i - 1 + 1 = i
        BY <1>1, <2>4
      <4>2. n \in Int /\ i + 1 > n + 1 => ~(i + 1 <= n) /\ i + 1 # n + 1
        OBVIOUS
      <4>3. n \in Int
        BY <1>1
      <4>. QED  BY ONLY <1>2, <4>1, <4>2, <4>3
    <3>3. q[i - 1] # m /\ q[i - 1] \in Msgs /\ (n # 0 => q[i - 1] # q[n])
      BY <1>1, <3>1
    <3>4. k.links[q[i - 1]] = nx[q[i - 1]]
      BY <1>5, <3>3
    <3>. QED  BY <1>3, <3>1, <3>2, <3>4
  <2>. QED  BY <1>1, <2>1, <2>2, <2>3, <2>4
<1>9. Linked(r, k.first, k.links)
  BY <1>2, <1>7, <1>8 DEF Linked
<1>. QED  BY <1>5, <1>9 DEF r, k

\* Where queue_insert_mpri puts a message into a list by priority.
LEMMA MpriPlace ==
  ASSUME NEW q \in Seq(Msgs), Sorted(q, MsgPri), NEW m \in Msgs
  PROVE  LET i == SelectInSeq(q, LAMBDA k : MsgPri[k] > MsgPri[m])
             n == IF i = 0 THEN Len(q) ELSE i - 1
         IN  Splits(q, n, {k \in Msgs : MsgPri[k] > MsgPri[m]}) /\ (i # 0 => i = n + 1 /\ i \in 1..Len(q))
             /\ (i = 0 <=> n = Len(q))
<1>. DEFINE I == {j \in 1..Len(q) : MsgPri[q[j]] > MsgPri[m]}
            i == SelectInSeq(q, LAMBDA k : MsgPri[k] > MsgPri[m])
            n == IF i = 0 THEN Len(q) ELSE i - 1
            S == {k \in Msgs : MsgPri[k] > MsgPri[m]}
<1>1. /\ Len(q) \in Nat /\ \A j \in 1..Len(q) : q[j] \in Msgs
      /\ \A k \in Msgs : MsgPri[k] \in Nat
  BY ElementOfSeq, LenProperties, MailboxAssumption
<1>2. i = IF I # {} THEN Min(I) ELSE 0
  BY DEF SelectInSeq
<1>3. I # {} => Min(I) \in I /\ \A j \in I : Min(I) <= j
  <2>1. I \in SUBSET Nat
    BY <1>1
  <2>. HIDE DEF I
  <2>. QED  BY <2>1, MinPosition
<1>4. \A j \in 1..Len(q) : q[j] \in S <=> j \in I
  BY <1>1
<1>5. \A a, b \in 1..Len(q) : a < b => MsgPri[q[a]] <= MsgPri[q[b]]
  BY DEF Sorted
<1>. HIDE DEF i
<1>6. CASE I = {}
  <2>1. i = 0 /\ n = Len(q)
    BY <1>2, <1>6
  <2>. QED  BY <1>1, <1>4, <1>6, <2>1 DEF Splits, i
<1>7. CASE I # {}
  <2>1. i \in I /\ (\A j \in I : i <= j) /\ i # 0 /\ n = i - 1 /\ i \in 1..Len(q)
    BY <1>2, <1>3, <1>7
  <2>2. ASSUME NEW j \in 1..Len(q), j > i  PROVE j \in I
    <3>1. MsgPri[q[i]] <= MsgPri[q[j]] /\ MsgPri[q[i]] > MsgPri[m]
      BY <1>1, <1>5, <2>1, <2>2
    <3>. QED  BY <1>1, <2>1, <3>1
  <2>3. \A j \in 1..Len(q) : q[j] \in S <=> j > n
    <3>. HIDE DEF S, I
    <3>. QED  BY <1>1, <1>4, <2>1, <2>2
  <2>4. n \in 0..Len(q) /\ n # Len(q) /\ i = n + 1
    BY <1>1, <2>1
  <2>. QED  BY <2>1, <2>3, <2>4 DEF Splits, i
<1>. QED  BY <1>6, <1>7

\* The mailbox: its list, in the order in which the messages have to be received.
MbxOK ==
    /\ MbxTypeOK /\ NobodyWaitsForMessage
    /\ objid => /\ IsInjective(pending) /\ Linked(pending, head, next)
                /\ mpri => Sorted(pending, MsgPri)
                /\ ~mpri /\ pending # <<>> => mq_tail = pending[Len(pending)]

\* Following the links of the mailbox finds what is pending.
LEMMA MbxExact ==
  ASSUME MbxOK
  PROVE  ListExact
BY ListLinked DEF MbxOK, MbxTypeOK, ListExact

\* The messages of Msgs other than those of lower priority.
LEMMA MpriInsert ==
  ASSUME NEW q \in Seq(Msgs), IsInjective(q), Sorted(q, MsgPri), NEW m \in Msgs, m \notin ToSet(q),
         NEW n, Splits(q, n, {k \in Msgs : MsgPri[k] > MsgPri[m]})
  PROVE  /\ Sorted(PutBehind(q, n, m), MsgPri)
         /\ Without(q, {k \in Msgs : MsgPri[k] > MsgPri[m]}) \o <<m>>
              \o Without(q, {k \in Msgs : MsgPri[k] <= MsgPri[m]}) = PutBehind(q, n, m)
<1>. DEFINE S == {k \in Msgs : MsgPri[k] > MsgPri[m]}
            R == {k \in Msgs : MsgPri[k] <= MsgPri[m]}
            r == PutBehind(q, n, m)
            N == Len(q)
<1>1. N \in Nat /\ n \in 0..N /\ \A k \in Msgs : MsgPri[k] \in Nat
  BY LenProperties, MailboxAssumption DEF Splits
<1>2. \A k \in Msgs : k \in R <=> k \notin S
  BY <1>1
<1>3. /\ Len(r) = N + 1
      /\ \A i \in 1..N + 1 : r[i] = IF i <= n THEN q[i] ELSE IF i = n + 1 THEN m ELSE q[i - 1]
  BY <1>1, InsertedMember
<1>4. \A i \in 1..N : q[i] \in Msgs /\ (i > n => MsgPri[q[i]] > MsgPri[m])
                                    /\ (i <= n => MsgPri[q[i]] <= MsgPri[m])
  <2>1. \A i \in 1..N : q[i] \in Msgs
    BY ElementOfSeq
  <2>2. \A i \in 1..N : q[i] \in S <=> i > n
    BY DEF Splits
  <2>. QED  BY <1>1, <2>1, <2>2
<1>5. \A i, j \in 1..N : i < j => MsgPri[q[i]] <= MsgPri[q[j]]
  BY DEF Sorted
<1>6. ASSUME NEW i \in 1..N + 1, NEW j \in 1..N + 1, i < j
      PROVE  MsgPri[r[i]] <= MsgPri[r[j]]
  <2>. HIDE DEF r
  <2>1. CASE i <= n /\ j <= n
    <3>1. i \in 1..N /\ j \in 1..N
      BY <1>1, <2>1
    <3>. QED  BY <1>3, <1>5, <1>6, <2>1, <3>1
  <2>2. CASE i <= n /\ j = n + 1
    <3>1. i \in 1..N
      BY <1>1, <2>2
    <3>2. r[i] = q[i] /\ r[j] = m
      BY <1>1, <1>3, <2>2
    <3>. QED  BY <1>4, <2>2, <3>1, <3>2
  <2>3. CASE i <= n /\ j > n + 1
    <3>1. i \in 1..N /\ j - 1 \in 1..N /\ i < j - 1
      BY <1>1, <2>3
    <3>2. r[i] = q[i] /\ r[j] = q[j - 1]
      BY <1>1, <1>3, <2>3
    <3>. QED  BY <1>5, <3>1, <3>2
  <2>4. CASE i = n + 1
    <3>1. j - 1 \in 1..N /\ j - 1 > n
      BY <1>1, <1>6, <2>4
    <3>2. r[i] = m /\ r[j] = q[j - 1]
      BY <1>1, <1>3, <1>6, <2>4
    <3>3. MsgPri[q[j - 1]] > MsgPri[m] /\ q[j - 1] \in Msgs
      BY <1>4, <3>1
    <3>. QED  BY <1>1, <3>2, <3>3
  <2>5. CASE i > n + 1
    <3>1. i - 1 \in 1..N /\ j - 1 \in 1..N /\ i - 1 < j - 1
      BY <1>1, <1>6, <2>5
    <3>2. r[i] = q[i - 1] /\ r[j] = q[j - 1]
      BY <1>1, <1>3, <1>6, <2>5
    <3>. QED  BY <1>5, <3>1, <3>2
  <2>. QED  BY <1>1, <1>6, <2>1, <2>2, <2>3, <2>4, <2>5
<1>7. Sorted(r, MsgPri)
  <2>. HIDE DEF r
  <2>. QED  BY <1>3, <1>6 DEF Sorted
<1>8. Without(q, S) \o <<m>> \o Without(q, R) = r
  <2>. HIDE DEF S, R
  <2>1. Splits(q, n, S)
    BY DEF S
  <2>. QED  BY <1>2, <2>1, BetweenThem
<1>. QED  BY <1>7, <1>8

\* A message that nobody waits for comes into the list.
LEMMA SendMessage ==
  ASSUME MbxOK, objid, NEW m \in Msgs, m \notin ToSet(pending),
         IF mpri THEN queue_insert_mpri(m) /\ UNCHANGED mq_tail ELSE append_to_tail(m),
         pending' = IF ~mpri THEN Append(pending, m)
                    ELSE Before(m) \o <<m>> \o Without(pending, {k \in Msgs : MsgPri[k] <= MsgPri[m]}),
         UNCHANGED mpri
  PROVE  /\ MbxTypeOK'
         /\ IsInjective(pending)' /\ Linked(pending, head, next)'
         /\ mpri => Sorted(pending', MsgPri)
         /\ ~mpri => mq_tail' = pending'[Len(pending')]
<1>. DEFINE q == pending
            N == Len(q)
<1>1. /\ q \in Seq(Msgs) /\ IsInjective(q) /\ Linked(q, head, next) /\ next \in [Msgs -> Msgs \cup {NULL}]
      /\ {head, mq_tail} \subseteq Msgs \cup {NULL} /\ mpri \in BOOLEAN
      /\ N \in Nat /\ NULL \notin Msgs /\ \A i \in 1..N : q[i] \in Msgs
  BY LenProperties, ElementOfSeq, MailboxAssumption DEF MbxOK, MbxTypeOK
<1>2. List = q
  BY MbxExact DEF ListExact
<1>3. ASSUME NEW n \in 0..N, pending' = PutBehind(q, n, m),
             head' = Relinked(q, head, next, n, m).first, next' = Relinked(q, head, next, n, m).links
      PROVE  /\ IsInjective(pending') /\ Linked(pending', head', next')
             /\ next' \in [Msgs -> Msgs \cup {NULL}] /\ pending' \in Seq(Msgs) /\ head' \in Msgs \cup {NULL}
             /\ Len(pending') = N + 1 /\ pending'[N + 1] = IF n = N THEN m ELSE q[N]
  <2>1. Linked(pending', head', next') /\ next' \in [Msgs -> Msgs \cup {NULL}]
    <3>. DEFINE k == Relinked(q, head, next, n, m)
    <3>1. Linked(PutBehind(q, n, m), k.first, k.links) /\ k.links \in [Msgs -> Msgs \cup {NULL}]
      <4>1. m \notin ToSet(q) /\ m \in Msgs /\ n \in 0..Len(q)
        BY <1>3
      <4>. QED  BY ONLY <1>1, <4>1, LinkedInsert
    <3>. HIDE DEF k
    <3>2. pending' = PutBehind(q, n, m) /\ head' = k.first /\ next' = k.links
      BY <1>3 DEF k
    <3>. QED  BY ONLY <3>1, <3>2
  <2>2. /\ pending' \in Seq(Msgs) /\ Len(pending') = N + 1 /\ IsInjective(pending')
        /\ \A i \in 1..N + 1 : pending'[i] = IF i <= n THEN q[i] ELSE IF i = n + 1 THEN m ELSE q[i - 1]
    <3>. DEFINE r == PutBehind(q, n, m)
    <3>1. /\ r \in Seq(Msgs) /\ Len(r) = Len(q) + 1 /\ IsInjective(r)
          /\ \A i \in 1..Len(r) : r[i] = IF i <= n THEN q[i] ELSE IF i = n + 1 THEN m ELSE q[i - 1]
      <4>1. m \notin ToSet(q) /\ m \in Msgs /\ n \in 0..Len(q)
        BY <1>3
      <4>. QED  BY ONLY <1>1, <4>1, InsertedMember
    <3>. HIDE DEF r
    <3>2. pending' = r
      BY <1>3 DEF r
    <3>. QED  BY ONLY <3>1, <3>2
  <2>3. head' \in Msgs \cup {NULL}
    BY <1>1, <1>3 DEF Relinked
  <2>4. pending'[N + 1] = IF n = N THEN m ELSE q[N]
    <3>1. \A L \in Nat : \A j \in 0..L : \A p : \A s :
             (\A i \in 1..L + 1 : p[i] = IF i <= j THEN s[i] ELSE IF i = j + 1 THEN m ELSE s[i - 1])
               => p[L + 1] = IF j = L THEN m ELSE s[L]
      <4>1. SUFFICES ASSUME NEW L \in Nat, NEW j \in 0..L, NEW p, NEW s,
                            \A i \in 1..L + 1 : p[i] = IF i <= j THEN s[i] ELSE IF i = j + 1 THEN m ELSE s[i - 1]
                     PROVE  p[L + 1] = IF j = L THEN m ELSE s[L]
        OBVIOUS
      <4>2. L + 1 \in 1..L + 1 /\ L + 1 - 1 = L /\ ~(L + 1 <= j) /\ (L + 1 = j + 1 <=> j = L)
        OBVIOUS
      <4>3. PICK k \in 1..L + 1 : k = L + 1
        BY <4>2
      <4>4. p[k] = IF k <= j THEN s[k] ELSE IF k = j + 1 THEN m ELSE s[k - 1]
        BY <4>1
      <4>5. p[k] = IF j = L THEN m ELSE s[k - 1]
        BY <4>2, <4>3, <4>4
      <4>6. k - 1 = L
        BY <4>3
      <4>. QED  BY ONLY <4>3, <4>5, <4>6
    <3>2. N \in Nat /\ n \in 0..N
      BY <1>1
    <3>3. \A i \in 1..N + 1 : pending'[i] = IF i <= n THEN q[i] ELSE IF i = n + 1 THEN m ELSE q[i - 1]
      BY <2>2
    <3>. HIDE DEF N, q
    <3>. QED  BY ONLY <3>1, <3>2, <3>3
  <2>. QED  BY <2>1, <2>2, <2>3, <2>4
<1>4. CASE mpri
  <2>. DEFINE i == SelectInSeq(q, LAMBDA k : MsgPri[k] > MsgPri[m])
              n == IF i = 0 THEN Len(q) ELSE i - 1
              S == {k \in Msgs : MsgPri[k] > MsgPri[m]}
              after == IF i = 0 THEN NULL ELSE q[i]
  <2>1. Sorted(q, MsgPri)
    BY <1>4 DEF MbxOK
  <2>2. Splits(q, n, S) /\ (i # 0 => i = n + 1 /\ i \in 1..Len(q)) /\ (i = 0 <=> n = Len(q))
    BY <1>1, <2>1, MpriPlace
  <2>3. IF n = 0 THEN head' = m /\ next' = [next EXCEPT ![m] = after]
        ELSE head' = head /\ next' = [next EXCEPT ![m] = after, ![q[n]] = m]
    BY <1>2, <1>4 DEF queue_insert_mpri
  <2>4. Before(m) = Without(q, S)
    BY <1>2 DEF Before
  <2>5. pending' = Without(q, S) \o <<m>> \o Without(q, {k \in Msgs : MsgPri[k] <= MsgPri[m]})
    BY <1>4, <2>4
  <2>. HIDE DEF i, S
  <2>6. n \in 0..N
    BY <2>2 DEF Splits
  <2>7. after = IF n = Len(q) THEN NULL ELSE q[n + 1]
    BY <2>2
  <2>. HIDE DEF n, after
  <2>8. head' = Relinked(q, head, next, n, m).first /\ next' = Relinked(q, head, next, n, m).links
    BY <2>3, <2>7 DEF Relinked
  <2>9. pending' = PutBehind(q, n, m) /\ Sorted(pending', MsgPri)
    BY <1>1, <2>1, <2>2, <2>5, MpriInsert DEF S
  <2>10. mq_tail' = mq_tail /\ mpri' = mpri
    BY <1>4
  <2>. QED  BY <1>1, <1>3, <1>4, <2>6, <2>8, <2>9, <2>10 DEF MbxTypeOK
<1>5. CASE ~mpri
  <2>1. pending' = Append(q, m) /\ append_to_tail(m)
    BY <1>5
  <2>2. pending' = PutBehind(q, N, m)
    <3>1. Append(q, m) \in Seq(Msgs) /\ Len(Append(q, m)) = N + 1
          /\ (\A i \in 1..N : Append(q, m)[i] = q[i]) /\ Append(q, m)[N + 1] = m
      BY <1>1, AppendProperties
    <3>2. Append(q, m) = [i \in 1..N + 1 |-> Append(q, m)[i]]
      BY <3>1, LenProperties
    <3>3. ASSUME NEW i \in 1..N + 1
          PROVE  Append(q, m)[i] = IF i <= N THEN q[i] ELSE IF i = N + 1 THEN m ELSE q[i - 1]
      BY <1>1, <3>1
    <3>. DEFINE r == Append(q, m)
    <3>. HIDE DEF r
    <3>4. r = PutBehind(q, N, m)
      BY <3>2, <3>3 DEF r, PutBehind
    <3>. QED  BY <2>1, <3>4 DEF r
  <2>3. head = NULL <=> N = 0
    <3>1. q = <<>> <=> N = 0
      BY <1>1, EmptySeq
    <3>. QED  BY <1>1, <3>1 DEF Linked
  <2>4. N # 0 => mq_tail = q[N]
    BY <1>5 DEF MbxOK
  <2>5. head' = Relinked(q, head, next, N, m).first /\ next' = Relinked(q, head, next, N, m).links
    BY <2>1, <2>3, <2>4 DEF append_to_tail, Relinked
  <2>6. mq_tail' = m /\ mpri' = mpri /\ N \in 0..N
    BY <1>1, <2>1 DEF append_to_tail
  <2>. QED  BY <1>1, <1>3, <1>5, <2>2, <2>5, <2>6 DEF MbxTypeOK
<1>. QED  BY <1>4, <1>5

\* Every call of the mailbox.
LEMMA MbxListed ==
  ASSUME GcbOK, GcbOK', MbxOK, MbxNext
  PROVE  MbxOK'
<1>0. /\ MbxTypeOK /\ NobodyWaitsForMessage'
  BY MbxServed DEF MbxOK
<1>1. ASSUME NEW atr \in Attributes, NEW mp \in BOOLEAN, CreMbx(atr, mp)
      PROVE  MbxOK'
  <2>1. mpri' = mp /\ head' = NULL /\ pending' = <<>> /\ UNCHANGED <<mq_tail, next>>
    BY <1>1 DEF CreMbx
  <2>2. <<>> \in Seq(Msgs) /\ IsInjective(<<>>) /\ Sorted(<<>>, MsgPri) /\ Linked(<<>>, NULL, next)
    BY DEF IsInjective, Sorted, Linked
  <2>3. MbxTypeOK'
    BY <1>0, <2>1, <2>2 DEF MbxTypeOK
  <2>. QED  BY <1>0, <2>1, <2>2, <2>3 DEF MbxOK
<1>2. CASE DelMbx
  <2>1. objid' = FALSE /\ UNCHANGED mbx
    BY <1>2 DEF DelMbx, wait_delete
  <2>. QED  BY <1>0, <2>1 DEF MbxOK, MbxTypeOK, mbx
<1>3. ASSUME UNCHANGED <<mbx, gcb>>  PROVE MbxOK'
  BY <1>0, <1>3 DEF MbxOK, MbxTypeOK, mbx, gcb
<1>4. ASSUME NEW m \in Msgs, SndMbx(m)
      PROVE  MbxOK'
  <2>1. objid /\ m \notin ToSet(pending) /\ UNCHANGED gcb
    BY <1>4 DEF SndMbx
  <2>2. CASE ~isQueEmpty(wait_queue)
    BY <1>3, <1>4, <2>1, <2>2 DEF SndMbx
  <2>3. CASE isQueEmpty(wait_queue)
    <3>1. /\ IF mpri THEN queue_insert_mpri(m) /\ UNCHANGED mq_tail ELSE append_to_tail(m)
          /\ pending' = IF ~mpri THEN Append(pending, m)
                        ELSE Before(m) \o <<m>> \o Without(pending, {k \in Msgs : MsgPri[k] <= MsgPri[m]})
          /\ UNCHANGED mpri
      BY <1>4, <2>3 DEF SndMbx
    <3>2. /\ MbxTypeOK'
          /\ IsInjective(pending)' /\ Linked(pending, head, next)'
          /\ mpri => Sorted(pending', MsgPri)
          /\ ~mpri => mq_tail' = pending'[Len(pending')]
      BY <2>1, <3>1, SendMessage
    <3>. QED  BY <1>0, <3>1, <3>2 DEF MbxOK
  <2>. QED  BY <2>2, <2>3
<1>5. ASSUME NEW t \in Tasks, RcvMbx(t)
      PROVE  MbxOK'
  <2>1. objid /\ UNCHANGED gcb
    BY <1>5 DEF RcvMbx
  <2>2. CASE UNCHANGED mbx
    BY <1>3, <2>1, <2>2
  <2>3. CASE head # NULL /\ head' = next[head] /\ pending' = Tail(pending) /\ UNCHANGED <<mpri, mq_tail, next>>
    <3>1. /\ pending \in Seq(Msgs) /\ IsInjective(pending) /\ Linked(pending, head, next)
          /\ next \in [Msgs -> Msgs \cup {NULL}] /\ head \in Msgs
      BY <2>1, <2>3 DEF MbxOK, MbxTypeOK
    <3>2. pending # <<>>
      BY <2>3, <3>1 DEF Linked
    <3>3. Linked(pending', head', next')
      BY <2>3, <3>1, <3>2, LinkedTail
    <3>4. pending' \in Seq(Msgs) /\ IsInjective(pending')
      BY <2>3, <3>1, <3>2, QueRemoveNextProperties DEF QueRemoveNext
    <3>5. mpri => Sorted(pending', MsgPri)
      BY <2>1, <2>3, <3>1, <3>2, TailSorted DEF MbxOK
    <3>6. ~mpri /\ pending' # <<>> => mq_tail' = pending'[Len(pending')]
      <4>1. SUFFICES ASSUME ~mpri, Tail(pending) # <<>>
                     PROVE  mq_tail = Tail(pending)[Len(Tail(pending))]
        BY <2>3
      <4>2. mq_tail = pending[Len(pending)]
        BY <2>1, <3>2, <4>1 DEF MbxOK
      <4>3. /\ Tail(pending) \in Seq(Msgs) /\ Len(Tail(pending)) = Len(pending) - 1
            /\ \A i \in 1..Len(Tail(pending)) : Tail(pending)[i] = pending[i + 1]
        BY <3>1, <3>2, HeadTailProperties
      <4>4. Len(Tail(pending)) \in Nat \ {0} /\ Len(pending) \in Nat
        BY <3>1, <4>1, <4>3, EmptySeq, LenProperties
      <4>5. Len(Tail(pending)) \in 1..Len(Tail(pending)) /\ Len(Tail(pending)) + 1 = Len(pending)
        BY ONLY <4>3, <4>4
      <4>6. Tail(pending)[Len(Tail(pending))] = pending[Len(Tail(pending)) + 1]
        BY ONLY <4>3, <4>5
      <4>. QED  BY ONLY <4>2, <4>5, <4>6
    <3>7. MbxTypeOK'
      BY <1>0, <2>3, <3>1, <3>4 DEF MbxTypeOK
    <3>. QED  BY <1>0, <2>3, <3>3, <3>4, <3>5, <3>6, <3>7 DEF MbxOK
  <2>. QED  BY <1>5, <2>2, <2>3 DEF RcvMbx, has_message
<1>6. ASSUME NEW t \in Tasks, MbxTaskCall(t)
      PROVE  MbxOK'
  BY <1>3, <1>6, CallQueue DEF MbxTaskCall
<1>. QED  BY <1>1, <1>2, <1>4, <1>5, <1>6 DEF MbxNext

-----------------------------------------------------------------------------
(* The message buffer: its ring.                                           *)

\* Sizes in words: as many as hold the bytes, and no word more.
LEMMA RoundedWords ==
  ASSUME NEW m \in MbfMsgs
  PROVE  /\ Rounded(MsgSz[m]) \in Nat \ {0}
         /\ MsgSz[m] <= Rounded(MsgSz[m]) * HEADERSZ
         /\ Rounded(MsgSz[m]) * HEADERSZ < MsgSz[m] + HEADERSZ
<1>1. HEADERSZ \in Nat \ {0} /\ MsgSz[m] \in Nat \ {0}
  BY BufferAssumption
<1>2. \A H \in Nat \ {0} : \A s \in Nat \ {0} :
        (s + H - 1) \div H \in Nat \ {0} /\ s <= ((s + H - 1) \div H) * H /\ ((s + H - 1) \div H) * H < s + H
  OBVIOUS
<1>. QED  BY <1>1, <1>2 DEF Rounded

\* off[j] is where the message j + 1 of acc begins.
Offsets(off, acc) ==
    /\ off \in [0..Len(acc) -> Nat] /\ off[0] = 0
    /\ \A j \in 1..Len(acc) : off[j] = off[j - 1] + 1 + Rounded(MsgSz[acc[j]])

\* The ring of W words with its head at h holds the messages of k.acc, complete
\* and one behind the other; the rest is free.
Filled(k, h, W, off) ==
    /\ DOMAIN k = RingFields /\ k.acc \in Seq(MbfMsgs) /\ Offsets(off, k.acc)
    /\ off[Len(k.acc)] <= W /\ k.free = (W - off[Len(k.acc)]) * HEADERSZ
    /\ h \in 0..W /\ k.tail \in 0..W
    /\ W > 0 => h < W /\ k.tail = (h + off[Len(k.acc)]) % W
    /\ \A j \in 1..Len(k.acc) : \A i \in 0..Rounded(MsgSz[k.acc[j]]) :
         k.buf[(h + off[j - 1] + i) % W] = word(k.acc[j], i)

\* The messages take their places in order.
LEMMA OffsetsRise ==
  ASSUME NEW acc \in Seq(MbfMsgs), NEW off, Offsets(off, acc)
  PROVE  \A j \in 1..Len(acc) :
            /\ off[j - 1] \in Nat /\ off[j] \in Nat
            /\ off[j] = off[j - 1] + 1 + Rounded(MsgSz[acc[j]])
            /\ off[j] <= off[Len(acc)]
<1>. DEFINE N == Len(acc)
            P == {d \in Nat : \A j \in 0..N : j + d <= N => off[j] <= off[j + d]}
<1>1. /\ N \in Nat /\ \A j \in 0..N : off[j] \in Nat
      /\ \A j \in 1..N : acc[j] \in MbfMsgs
  BY LenProperties, ElementOfSeq DEF Offsets
<1>2. \A j \in 1..N : off[j] = off[j - 1] + 1 + Rounded(MsgSz[acc[j]])
  BY DEF Offsets
<1>3. ASSUME NEW j \in 1..N
      PROVE  j - 1 \in 0..N /\ j \in 0..N /\ off[j - 1] <= off[j]
  <2>1. j - 1 \in 0..N /\ j \in 0..N
    BY <1>1
  <2>2. Rounded(MsgSz[acc[j]]) \in Nat
    BY <1>1, RoundedWords
  <2>. QED  BY <1>1, <1>2, <2>1, <2>2
<1>4. 0 \in P
  BY <1>1
<1>5. ASSUME NEW d \in Nat, d \in P  PROVE d + 1 \in P
  <2>. SUFFICES ASSUME NEW j \in 0..N, j + (d + 1) <= N  PROVE off[j] <= off[j + (d + 1)]
    OBVIOUS
  <2>1. off[j] <= off[j + d]
    BY <1>1, <1>5
  <2>2. j + d + 1 \in 1..N /\ j + d \in 0..N /\ j + d + 1 - 1 = j + d /\ j + (d + 1) = j + d + 1
    BY <1>1
  <2>3. off[j + d] <= off[j + d + 1]
    BY <1>3, <2>2
  <2>4. off[j] \in Nat /\ off[j + d] \in Nat /\ off[j + d + 1] \in Nat
    BY <1>1, <2>2
  <2>. QED  BY <2>1, <2>2, <2>3, <2>4
<1>6. Nat \subseteq P
  <2>. HIDE DEF P
  <2>. QED  BY <1>4, <1>5, SetInduction
<1>7. ASSUME NEW j \in 1..N  PROVE off[j] <= off[N]
  <2>1. N - j \in Nat /\ j + (N - j) = N /\ j \in 0..N /\ N <= N
    BY <1>1
  <2>2. N - j \in P
    <3>. HIDE DEF P
    <3>. QED  BY <1>6, <2>1
  <2>. QED  BY <2>1, <2>2
<1>. QED  BY <1>1, <1>2, <1>3, <1>7

\* What msg_to_mbf does to each part of the ring.
LEMMA StoredParts ==
  ASSUME NEW k, DOMAIN k = RingFields, NEW m, NEW n, n = Rounded(MsgSz[m])
  PROVE  LET r == msg_to_mbf(k, m)
         IN  /\ DOMAIN r = RingFields /\ r.freed = k.freed /\ r.stop = k.stop
             /\ r.acc = Append(k.acc, m)
             /\ r.free = k.free - (HEADERSZ + n * HEADERSZ)
             /\ r.tail = (k.tail + n + 1) % Words
             /\ \A x \in 0..Words - 1 :
                  r.buf[x] = IF (x - k.tail + Words) % Words <= n
                               THEN word(m, (x - k.tail + Words) % Words) ELSE k.buf[x]
<1>. DEFINE b == [i \in 0..Words - 1 |->
                    IF At(i - k.tail + Words) <= n THEN word(m, At(i - k.tail + Words)) ELSE k.buf[i]]
            f == k.free - (HEADERSZ + ROUNDSZ(MsgSz[m]))
            l == At(k.tail + n + 1)
            a == Append(k.acc, m)
<1>1. msg_to_mbf(k, m) = [k EXCEPT !.free = f, !.buf = b, !.tail = l, !.acc = a]
  BY DEF msg_to_mbf
<1>2. \A x \in 0..Words - 1 :
         b[x] = IF (x - k.tail + Words) % Words <= n
                  THEN word(m, (x - k.tail + Words) % Words) ELSE k.buf[x]
  BY DEF At
<1>3. f = k.free - (HEADERSZ + n * HEADERSZ) /\ l = (k.tail + n + 1) % Words
  BY DEF ROUNDSZ, At
<1>. HIDE DEF b, f, l, a
<1>. DEFINE r == [k EXCEPT !.free = f, !.buf = b, !.tail = l, !.acc = a]
<1>4. /\ DOMAIN r = RingFields /\ r.freed = k.freed /\ r.stop = k.stop
      /\ r.free = f /\ r.buf = b /\ r.tail = l /\ r.acc = a
  BY DEF RingFields
<1>. HIDE DEF r
<1>5. msg_to_mbf(k, m) = r
  BY <1>1 DEF r
<1>. QED  BY <1>2, <1>3, <1>4, <1>5 DEF a

\* A message that fits joins those in the ring.
LEMMA StoreMsg ==
  ASSUME NEW k, NEW h, NEW off, Words \in Nat, Filled(k, h, Words, off),
         NEW m \in MbfMsgs, mbf_free(k, m)
  PROVE  LET r == msg_to_mbf(k, m)
         IN  /\ \E off2 : Filled(r, h, Words, off2)
             /\ r.acc = Append(k.acc, m) /\ r.freed = k.freed /\ r.stop = k.stop
             /\ r.free \in Nat /\ k.free \in Nat /\ r.free <= k.free
<1>. DEFINE acc == k.acc
            L == Len(k.acc)
            n == Rounded(MsgSz[m])
            U == off[L]
            r == msg_to_mbf(k, m)
<1>1. PICK W \in Nat : W = Words
  OBVIOUS
<1>2. /\ DOMAIN k = RingFields /\ acc \in Seq(MbfMsgs) /\ Offsets(off, acc) /\ L \in Nat
      /\ off \in [0..L -> Nat] /\ off[0] = 0
      /\ U \in Nat /\ U <= W /\ k.free = (W - U) * HEADERSZ /\ h \in 0..W /\ k.tail \in 0..W
      /\ W > 0 => h < W /\ k.tail = (h + U) % W
  BY <1>1, LenProperties DEF Filled, Offsets
<1>3. \A j \in 1..L : /\ off[j - 1] \in Nat /\ off[j] \in Nat /\ acc[j] \in MbfMsgs
                      /\ off[j] = off[j - 1] + 1 + Rounded(MsgSz[acc[j]]) /\ off[j] <= U
  BY <1>2, OffsetsRise, ElementOfSeq
<1>4. \A j \in 1..L : \A i \in 0..Rounded(MsgSz[acc[j]]) : k.buf[(h + off[j - 1] + i) % W] = word(acc[j], i)
  BY <1>1 DEF Filled
<1>5. /\ n \in Nat \ {0} /\ n * HEADERSZ < MsgSz[m] + HEADERSZ
      /\ HEADERSZ \in Nat \ {0} /\ MsgSz[m] \in Nat \ {0}
  BY RoundedWords, BufferAssumption
<1>. HIDE DEF n, U, L, acc
<1>a. U \in Nat /\ U <= W /\ L \in Nat /\ n \in Nat \ {0} /\ W \in Nat
  BY <1>2, <1>5
<1>6. U + n + 1 <= W /\ W \in Nat \ {0} /\ U \in 0..W - 1
  <2>1. HEADERSZ + MsgSz[m] <= (W - U) * HEADERSZ
    BY <1>2 DEF mbf_free, U, L
  <2>2. n + 1 <= W - U
    <3>1. W - U \in Nat
      BY <1>a
    <3>2. PICK c \in Nat : c = W - U
      BY <3>1
    <3>3. n \in Nat /\ HEADERSZ + MsgSz[m] <= c * HEADERSZ
      BY <1>5, <2>1, <3>2
    <3>4. n + 1 <= c
      BY <1>5, <3>3, WordsFit
    <3>. QED  BY <3>2, <3>4
  <2>. QED  BY <1>a, <2>2
<1>h. h \in 0..W - 1 /\ h \in Nat
  BY <1>2, <1>6
<1>7. h \in 0..W - 1 /\ k.tail = (h + U) % W
  BY <1>2, <1>6
<1>8. /\ DOMAIN r = RingFields /\ r.freed = k.freed /\ r.stop = k.stop /\ r.acc = Append(acc, m)
      /\ r.free = k.free - (HEADERSZ + n * HEADERSZ) /\ r.tail = (k.tail + n + 1) % W
      /\ \A x \in 0..W - 1 :
           r.buf[x] = IF (x - k.tail + W) % W <= n THEN word(m, (x - k.tail + W) % W) ELSE k.buf[x]
  <2>1. DOMAIN k = RingFields /\ n = Rounded(MsgSz[m])
    BY <1>2 DEF n
  <2>2. /\ DOMAIN r = RingFields /\ r.freed = k.freed /\ r.stop = k.stop /\ r.acc = Append(k.acc, m)
        /\ r.free = k.free - (HEADERSZ + n * HEADERSZ) /\ r.tail = (k.tail + n + 1) % Words
        /\ \A x \in 0..Words - 1 :
             r.buf[x] = IF (x - k.tail + Words) % Words <= n
                          THEN word(m, (x - k.tail + Words) % Words) ELSE k.buf[x]
    BY ONLY <2>1, StoredParts
  <2>. HIDE DEF r
  <2>. QED  BY ONLY <1>1, <2>2 DEF acc
<1>. HIDE DEF r
<1>9. ASSUME NEW o \in 0..W - 1
      PROVE  r.buf[(h + o) % W] = IF U <= o /\ o <= U + n THEN word(m, o - U) ELSE k.buf[(h + o) % W]
  <2>. DEFINE x == (h + o) % W
              d == (x - k.tail + W) % W
  <2>1. x \in 0..W - 1 /\ d = IF U <= o THEN o - U ELSE o - U + W
    <3>1. W \in Nat \ {0} /\ h \in 0..W - 1 /\ U \in 0..W - 1 /\ o \in 0..W - 1
      BY <1>6, <1>7
    <3>2. /\ (h + o) % W \in 0..W - 1
          /\ (((h + o) % W) - ((h + U) % W) + W) % W = IF U <= o THEN o - U ELSE o - U + W
      BY ONLY <3>1, BehindTail
    <3>3. d = (((h + o) % W) - ((h + U) % W) + W) % W
      BY <1>7
    <3>. QED  BY ONLY <3>2, <3>3 DEF x
  <2>. HIDE DEF d, x
  <2>2. r.buf[x] = IF d <= n THEN word(m, d) ELSE k.buf[x]
    BY <1>8, <2>1 DEF d
  <2>3. d <= n <=> U <= o /\ o <= U + n
    BY <1>a, <1>6, <2>1
  <2>. QED  BY <2>1, <2>2, <2>3 DEF x
<1>. DEFINE off2 == [j \in 0..L + 1 |-> IF j = L + 1 THEN U + 1 + n ELSE off[j]]
            acc2 == Append(acc, m)
<1>10. /\ acc2 \in Seq(MbfMsgs) /\ Len(acc2) = L + 1 /\ acc2[L + 1] = m /\ \A j \in 1..L : acc2[j] = acc[j]
  <2>1. acc \in Seq(MbfMsgs) /\ m \in MbfMsgs
    BY <1>2
  <2>2. /\ acc2 \in Seq(MbfMsgs) /\ Len(acc2) = Len(acc) + 1 /\ acc2[Len(acc) + 1] = m
        /\ \A j \in 1..Len(acc) : acc2[j] = acc[j]
    BY ONLY <2>1, AppendProperties
  <2>. QED  BY <2>2 DEF L, acc
<1>11. /\ off2[L + 1] = U + 1 + n /\ \A j \in 0..L : off2[j] = off[j]
       /\ off2 = [j \in 0..L + 1 |-> off2[j]]
  BY <1>a
<1>12. Offsets(off2, acc2)
  <2>1. off2 \in [0..L + 1 -> Nat]
    <3>1. ASSUME NEW j \in 0..L + 1  PROVE off2[j] \in Nat
      <4>1. j \in 0..L => off[j] \in Nat
        BY <1>2 DEF L
      <4>2. j \in 0..L \/ j = L + 1
        BY <1>a
      <4>3. U + 1 + n \in Nat
        BY <1>a
      <4>. QED  BY ONLY <1>11, <4>1, <4>2, <4>3
    <3>. QED  BY ONLY <1>11, <3>1
  <2>2. off2[0] = 0
    BY <1>a, <1>2, <1>11
  <2>3. ASSUME NEW j \in 1..L + 1
        PROVE  off2[j] = off2[j - 1] + 1 + Rounded(MsgSz[acc2[j]])
    <3>. HIDE DEF off2, acc2
    <3>1. CASE j = L + 1
      <4>1. off2[j - 1] = U /\ off2[j] = U + 1 + n /\ acc2[j] = m
        <5>1. j - 1 = L /\ L \in 0..L /\ off[L] = U
          BY <1>a, <3>1 DEF U
        <5>. QED  BY ONLY <1>10, <1>11, <3>1, <5>1 DEF acc2
      <4>. QED  BY <4>1 DEF n
    <3>2. CASE j # L + 1
      <4>1. j \in 1..L /\ j \in 0..L /\ j - 1 \in 0..L
        BY <1>a, <3>2
      <4>. QED  BY <1>3, <1>10, <1>11, <4>1
    <3>. QED  BY <3>1, <3>2
  <2>. HIDE DEF off2, acc2
  <2>. QED  BY <1>10, <2>1, <2>2, <2>3 DEF Offsets
<1>. HIDE DEF off2, acc2
<1>13. r.tail = (h + (U + n + 1)) % W /\ r.tail \in 0..W
  <2>1. ((h + U) % W) + n + 1 = ((h + U) % W) + (n + 1) /\ U + (n + 1) = U + n + 1
    BY <1>a, <1>7, RingTurn, <1>6
  <2>2. (((h + U) % W) + (n + 1)) % W = (h + (U + (n + 1))) % W
    <3>1. n + 1 \in 0..W /\ U + (n + 1) <= W /\ U \in 0..W
      BY <1>a, <1>6
    <3>. QED  BY <1>6, <1>7, <3>1, TwoSteps
  <2>3. h + (U + n + 1) \in 0..2 * W - 1
    BY <1>a, <1>6, <1>h
  <2>4. PICK z \in 0..2 * W - 1 : z = h + (U + n + 1)
    BY <2>3
  <2>5. z % W \in 0..W - 1
    BY <1>6, RingTurn
  <2>6. r.tail = (h + (U + n + 1)) % W
    BY <1>7, <1>8, <2>1, <2>2
  <2>. QED  BY <1>6, <2>4, <2>5, <2>6
<1>14. r.free = (W - (U + n + 1)) * HEADERSZ /\ r.free \in Nat /\ k.free \in Nat /\ r.free <= k.free
  <2>. DEFINE H == HEADERSZ
  <2>1. (W - (U + n + 1)) * H = (W - U) * H - (H + n * H)
    BY <1>a, <1>5
  <2>2. W - (U + n + 1) \in Nat /\ W - U \in Nat /\ n * H \in Nat
    BY <1>a, <1>5, <1>6
  <2>3. (W - (U + n + 1)) * H \in Nat /\ (W - U) * H \in Nat
    BY <1>5, <2>2
  <2>4. k.free = (W - U) * H /\ r.free = k.free - (H + n * H) /\ H \in Nat
    BY <1>2, <1>5, <1>8 DEF U, L
  <2>. HIDE DEF H
  <2>5. r.free <= k.free
    BY <2>2, <2>3, <2>4
  <2>. QED  BY <2>1, <2>3, <2>4, <2>5 DEF H
<1>15. ASSUME NEW j \in 1..L + 1, NEW i \in 0..Rounded(MsgSz[acc2[j]])
       PROVE  r.buf[(h + off2[j - 1] + i) % W] = word(acc2[j], i)
  <2>1. CASE j = L + 1
    <3>1. acc2[j] = m /\ off2[j - 1] = U /\ i \in 0..n
      <4>1. j - 1 = L /\ L \in 0..L /\ off[L] = U
        BY <1>a, <2>1 DEF U
      <4>. QED  BY <1>10, <1>11, <2>1, <4>1 DEF n
    <3>2. PICK o \in 0..W - 1 : o = U + i
      BY <1>a, <1>6, <3>1
    <3>3. r.buf[(h + o) % W] = word(m, o - U)
      <4>1. U <= o /\ o <= U + n
        BY <1>a, <3>1, <3>2
      <4>. QED  BY <1>9, <4>1
    <3>4. h + off2[j - 1] + i = h + o /\ o - U = i
      BY <1>a, <1>h, <3>1, <3>2
    <3>. QED  BY <3>1, <3>3, <3>4
  <2>2. CASE j # L + 1
    <3>1. j \in 1..L /\ j - 1 \in 0..L
      BY <1>a, <2>2
    <3>2. acc2[j] = acc[j] /\ off2[j - 1] = off[j - 1] /\ acc[j] \in MbfMsgs
      BY <1>3, <1>10, <1>11, <3>1
    <3>3. i \in 0..Rounded(MsgSz[acc[j]]) /\ Rounded(MsgSz[acc[j]]) \in Nat
      BY <3>2, RoundedWords
    <3>4. off[j - 1] + i < U /\ off[j - 1] \in Nat /\ i \in Nat
      <4>1. off[j] <= U /\ off[j] = off[j - 1] + 1 + Rounded(MsgSz[acc[j]]) /\ off[j - 1] \in Nat
        BY <1>3, <3>1
      <4>. QED  BY <1>a, <3>3, <4>1
    <3>5. PICK o \in 0..W - 1 : o = off[j - 1] + i
      <4>1. off[j - 1] + i \in 0..W - 1
        BY <1>a, <3>4
      <4>. QED  BY <4>1
    <3>6. r.buf[(h + o) % W] = k.buf[(h + o) % W]
      <4>1. ~(U <= o)
        BY <1>a, <3>4, <3>5
      <4>. QED  BY <1>9, <4>1
    <3>7. h + off[j - 1] + i = h + o
      BY <1>h, <3>4, <3>5
    <3>8. k.buf[(h + off[j - 1] + i) % W] = word(acc[j], i)
      BY <1>4, <3>1, <3>3
    <3>. QED  BY <3>2, <3>6, <3>7, <3>8
  <2>. QED  BY <2>1, <2>2
<1>16. Filled(r, h, W, off2)
  <2>1. r.acc = acc2 /\ off2[Len(acc2)] = U + n + 1
    <3>1. U + 1 + n = U + n + 1
      BY <1>a
    <3>. QED  BY <1>8, <1>10, <1>11, <3>1 DEF acc2
  <2>. QED  BY <1>2, <1>6, <1>7, <1>8, <1>10, <1>12, <1>13, <1>14, <1>15, <2>1 DEF Filled
<1>17. \E o : Filled(r, h, Words, o)
  BY <1>1, <1>16
<1>. QED  BY <1>8, <1>14, <1>17 DEF r, acc

\* A ring with nothing in it is all free, and only that one.
LEMMA EmptyRing ==
  ASSUME NEW k, NEW h, NEW off, NEW W \in Nat, Filled(k, h, W, off)
  PROVE  k.acc = <<>> <=> k.free = W * HEADERSZ
<1>. DEFINE acc == k.acc
            L == Len(k.acc)
            U == off[L]
<1>1. /\ acc \in Seq(MbfMsgs) /\ Offsets(off, acc) /\ L \in Nat /\ off[0] = 0 /\ U \in Nat /\ U <= W
      /\ k.free = (W - U) * HEADERSZ
  BY LenProperties DEF Filled, Offsets
<1>2. HEADERSZ \in Nat \ {0}
  BY BufferAssumption
<1>3. acc = <<>> <=> L = 0
  BY <1>1, EmptySeq
<1>4. L # 0 => U # 0
  <2>1. SUFFICES ASSUME L # 0  PROVE U # 0
    OBVIOUS
  <2>2. L \in 1..L /\ acc[L] \in MbfMsgs
    BY <1>1, <2>1, ElementOfSeq
  <2>3. off[L - 1] \in Nat /\ off[L] = off[L - 1] + 1 + Rounded(MsgSz[acc[L]])
    BY <1>1, <2>2, OffsetsRise
  <2>4. Rounded(MsgSz[acc[L]]) \in Nat
    BY <2>2, RoundedWords
  <2>. QED  BY ONLY <2>3, <2>4
<1>5. L = 0 => U = 0
  BY <1>1
<1>. HIDE DEF U, L, acc
<1>6. \A H \in Nat \ {0} : \A u \in 0..W : (W - u) * H = W * H <=> u = 0
  <2>1. SUFFICES ASSUME NEW H \in Nat \ {0}, NEW u \in 0..W, u # 0  PROVE (W - u) * H # W * H
    OBVIOUS
  <2>2. (W - u) * H = W * H - u * H /\ u * H \in Nat /\ W * H \in Nat
    OBVIOUS
  <2>3. u * H # 0
    BY <2>1
  <2>. QED  BY <2>2, <2>3
<1>7. U \in 0..W /\ (U = 0 <=> L = 0)
  BY <1>1, <1>4, <1>5
<1>. QED  BY <1>1, <1>2, <1>3, <1>6, <1>7 DEF acc

\* The first message is at the head; without it the ring holds the others.
LEMMA ReadMsg ==
  ASSUME NEW k, NEW h, NEW off, NEW W \in Nat, Filled(k, h, W, off), k.acc # <<>>,
         NEW m, m = Head(k.acc), NEW n, n = Rounded(MsgSz[m])
  PROVE  /\ h \in 0..W - 1 /\ m \in MbfMsgs
         /\ k.buf[h] = word(m, 0) /\ k.buf[(h + 1) % W] = word(m, 1)
         /\ \E off2 : Filled([k EXCEPT !.free = @ + HEADERSZ + n * HEADERSZ, !.acc = Tail(@)],
                             (h + 1 + n) % W, W, off2)
<1>. DEFINE acc == k.acc
            L == Len(k.acc)
            U == off[L]
<1>1. /\ DOMAIN k = RingFields /\ acc \in Seq(MbfMsgs) /\ Offsets(off, acc) /\ L \in Nat \ {0}
      /\ off \in [0..L -> Nat] /\ off[0] = 0
      /\ U \in Nat /\ U <= W /\ k.free = (W - U) * HEADERSZ /\ h \in 0..W /\ k.tail \in 0..W
      /\ W > 0 => h < W /\ k.tail = (h + U) % W
  BY LenProperties, EmptySeq DEF Filled, Offsets
<1>2. \A j \in 1..L : /\ off[j - 1] \in Nat /\ off[j] \in Nat /\ acc[j] \in MbfMsgs
                      /\ off[j] = off[j - 1] + 1 + Rounded(MsgSz[acc[j]]) /\ off[j] <= U
  BY <1>1, OffsetsRise, ElementOfSeq
<1>3. \A j \in 1..L : \A i \in 0..Rounded(MsgSz[acc[j]]) : k.buf[(h + off[j - 1] + i) % W] = word(acc[j], i)
  BY DEF Filled
<1>4. Tail(acc) \in Seq(MbfMsgs) /\ Len(Tail(acc)) = L - 1 /\ \A j \in 1..L - 1 : Tail(acc)[j] = acc[j + 1]
  BY HeadTailProperties, <1>1
<1>5. m = acc[1] /\ m \in MbfMsgs /\ HEADERSZ \in Nat \ {0}
  BY <1>1, <1>2, BufferAssumption
<1>6. n \in Nat \ {0}
  BY <1>5, RoundedWords
<1>. HIDE DEF U, L, acc
<1>7. 1 \in 1..L /\ off[1] = 1 + n /\ off[1] <= U /\ off[0] = 0
  <2>1. 1 \in 1..L /\ 1 - 1 = 0
    BY <1>1
  <2>2. off[1] = off[0] + 1 + Rounded(MsgSz[acc[1]]) /\ off[1] <= U /\ off[0] = 0
    BY <1>1, <1>2, <2>1
  <2>. QED  BY <1>5, <1>6, <2>1, <2>2
<1>8. U \in Nat /\ U <= W /\ 1 + n <= U /\ W \in Nat \ {0} /\ h \in 0..W - 1 /\ k.tail = (h + U) % W
  BY <1>1, <1>6, <1>7
<1>9. k.buf[h] = word(m, 0) /\ k.buf[(h + 1) % W] = word(m, 1)
  <2>1. \A i \in 0..n : k.buf[(h + off[1 - 1] + i) % W] = word(m, i)
    BY <1>3, <1>5, <1>7
  <2>2. off[1 - 1] = 0 /\ 0 \in 0..n /\ 1 \in 0..n
    BY <1>6, <1>7
  <2>3. k.buf[(h + 0 + 0) % W] = word(m, 0) /\ k.buf[(h + 0 + 1) % W] = word(m, 1)
    BY ONLY <2>1, <2>2
  <2>4. h + 0 + 0 = h /\ h + 0 + 1 = h + 1
    BY <1>8
  <2>5. h % W = h
    <3>1. W \in Nat \ {0} /\ h \in 0..2 * W - 1 /\ h < W
      BY <1>8
    <3>. QED  BY ONLY <3>1, RingTurn
  <2>. QED  BY ONLY <2>3, <2>4, <2>5
<1>. DEFINE off2 == [j \in 0..L - 1 |-> off[j + 1] - (1 + n)]
            acc2 == Tail(acc)
            h2 == (h + (1 + n)) % W
<1>10. \A j \in 0..L - 1 : off2[j] = off[j + 1] - (1 + n) /\ j + 1 \in 1..L
  BY <1>1
<1>11. ASSUME NEW j \in 0..L - 1
       PROVE  off[j + 1] \in Nat /\ 1 + n <= off[j + 1] /\ off[j + 1] <= U
  <2>. DEFINE P == {d \in Nat : d <= L - 1 => 1 + n <= off[d + 1]}
  <2>1. 0 \in P
    BY <1>6, <1>7
  <2>2. ASSUME NEW d \in Nat, d \in P  PROVE d + 1 \in P
    <3>. SUFFICES ASSUME d + 1 <= L - 1  PROVE 1 + n <= off[d + 1 + 1]
      OBVIOUS
    <3>1. d + 1 + 1 \in 1..L /\ d + 1 + 1 - 1 = d + 1 /\ d <= L - 1
      BY <1>1
    <3>2. off[d + 1 + 1] = off[d + 1] + 1 + Rounded(MsgSz[acc[d + 1 + 1]]) /\ off[d + 1] \in Nat
          /\ acc[d + 1 + 1] \in MbfMsgs
      BY <1>2, <3>1
    <3>3. Rounded(MsgSz[acc[d + 1 + 1]]) \in Nat /\ 1 + n <= off[d + 1]
      BY <2>2, <3>1, <3>2, RoundedWords
    <3>. QED  BY <1>6, <3>2, <3>3
  <2>3. Nat \subseteq P
    <3>. HIDE DEF P
    <3>. QED  BY <2>1, <2>2, SetInduction
  <2>4. j \in Nat /\ j <= L - 1 /\ j + 1 \in 1..L
    BY <1>1
  <2>5. j \in P
    <3>. HIDE DEF P
    <3>. QED  BY <2>3, <2>4
  <2>. QED  BY <1>2, <2>4, <2>5
<1>12. off2 = [j \in 0..L - 1 |-> off2[j]]
  OBVIOUS
<1>. HIDE DEF off2
<1>13. Offsets(off2, acc2) /\ off2[L - 1] = U - (1 + n)
  <2>1. \A j \in 0..L - 1 : off2[j] \in Nat
    BY <1>6, <1>10, <1>11
  <2>2. off2 \in [0..L - 1 -> Nat]
    BY ONLY <1>12, <2>1
  <2>3. 0 \in 0..L - 1 /\ L - 1 \in 0..L - 1 /\ L - 1 + 1 = L /\ 0 + 1 = 1
    BY <1>1
  <2>4. off2[0] = 0
    BY <1>6, <1>7, <1>10, <2>3
  <2>5. off2[L - 1] = U - (1 + n)
    <3>1. off2[L - 1] = off[L - 1 + 1] - (1 + n)
      BY <1>10, <2>3
    <3>. QED  BY ONLY <2>3, <3>1 DEF U
  <2>6. ASSUME NEW j \in 1..L - 1
        PROVE  off2[j] = off2[j - 1] + 1 + Rounded(MsgSz[acc2[j]])
    <3>1. j \in 0..L - 1 /\ j - 1 \in 0..L - 1 /\ j - 1 + 1 = j /\ j + 1 \in 1..L /\ j + 1 - 1 = j
      BY <1>1
    <3>2. off2[j] = off[j + 1] - (1 + n) /\ off2[j - 1] = off[j] - (1 + n)
      BY <1>10, <3>1
    <3>3. off[j + 1] = off[j] + 1 + Rounded(MsgSz[acc[j + 1]]) /\ off[j] \in Nat /\ acc[j + 1] \in MbfMsgs
      BY <1>2, <3>1
    <3>4. acc2[j] = acc[j + 1]
      BY <1>4
    <3>5. PICK R \in Nat : R = Rounded(MsgSz[acc[j + 1]])
      BY <3>3, RoundedWords
    <3>6. PICK b \in Nat : b = off[j]
      BY <3>3
    <3>7. off[j + 1] = b + 1 + R /\ n \in Nat
      BY <1>6, <3>3, <3>5, <3>6
    <3>8. off2[j] = b + 1 + R - (1 + n) /\ off2[j - 1] = b - (1 + n)
      BY ONLY <3>2, <3>6, <3>7
    <3>9. off2[j] = off2[j - 1] + 1 + R
      BY ONLY <3>7, <3>8, b \in Nat, R \in Nat
    <3>. QED  BY ONLY <3>4, <3>5, <3>9
  <2>. HIDE DEF acc2
  <2>. QED  BY <1>4, <2>2, <2>4, <2>5, <2>6 DEF Offsets, acc2
<1>14. h2 \in 0..W - 1 /\ h2 = (h + 1 + n) % W
  <2>1. h + (1 + n) \in 0..2 * W - 1 /\ h + (1 + n) = h + 1 + n
    BY <1>6, <1>8
  <2>2. PICK z \in 0..2 * W - 1 : z = h + (1 + n)
    BY <2>1
  <2>3. z % W \in 0..W - 1
    BY <1>8, RingTurn
  <2>. QED  BY ONLY <2>1, <2>2, <2>3
<1>15. ASSUME NEW o \in Nat, 1 + n <= o, o <= W
       PROVE  (h2 + (o - (1 + n))) % W = (h + o) % W
  <2>1. 1 + n \in 0..W /\ o - (1 + n) \in 0..W /\ 1 + n + (o - (1 + n)) = o /\ 1 + n + (o - (1 + n)) <= W
    BY <1>6, <1>8, <1>15
  <2>2. (((h + (1 + n)) % W) + (o - (1 + n))) % W = (h + (1 + n + (o - (1 + n)))) % W
    BY <1>8, <2>1, TwoSteps
  <2>. QED  BY ONLY <2>1, <2>2
<1>. HIDE DEF h2
<1>. DEFINE k2 == [k EXCEPT !.free = @ + HEADERSZ + n * HEADERSZ, !.acc = Tail(@)]
<1>16. /\ DOMAIN k2 = RingFields /\ k2.acc = acc2 /\ k2.buf = k.buf /\ k2.tail = k.tail
       /\ k2.free = k.free + HEADERSZ + n * HEADERSZ
  BY <1>1 DEF RingFields, acc
<1>. HIDE DEF k2, acc2
<1>17. k2.free = (W - (U - (1 + n))) * HEADERSZ
  <2>1. \A H \in Nat \ {0} : (W - U) * H + H + n * H = (W - (U - (1 + n))) * H
    BY <1>6, <1>8
  <2>. QED  BY <1>1, <1>5, <1>16, <2>1
<1>18. k2.tail = (h2 + (U - (1 + n))) % W
  BY <1>8, <1>15, <1>16
<1>19. ASSUME NEW j \in 1..L - 1, NEW i \in 0..Rounded(MsgSz[acc2[j]])
       PROVE  k2.buf[(h2 + off2[j - 1] + i) % W] = word(acc2[j], i)
  <2>1. j - 1 \in 0..L - 1 /\ j - 1 + 1 = j /\ j + 1 \in 1..L /\ j + 1 - 1 = j /\ j \in 0..L - 1 /\ j \in 1..L
    BY <1>1
  <2>2. acc2[j] = acc[j + 1] /\ acc[j + 1] \in MbfMsgs
    BY <1>2, <1>4, <2>1 DEF acc2
  <2>3. i \in Nat /\ i <= Rounded(MsgSz[acc[j + 1]]) /\ Rounded(MsgSz[acc[j + 1]]) \in Nat
    BY <2>2, RoundedWords
  <2>4. off2[j - 1] = off[j] - (1 + n)
    BY <1>10, <2>1
  <2>5. off[j] \in Nat /\ 1 + n <= off[j]
    <3>1. \A l \in 0..L - 1 : off[l + 1] \in Nat /\ 1 + n <= off[l + 1]
      BY <1>11
    <3>. QED  BY ONLY <2>1, <3>1
  <2>6. off[j] + 1 + Rounded(MsgSz[acc[j + 1]]) <= U
    <3>1. off[j + 1] = off[j + 1 - 1] + 1 + Rounded(MsgSz[acc[j + 1]]) /\ off[j + 1] <= U
      BY <1>2, <2>1
    <3>. QED  BY ONLY <2>1, <3>1
  <2>7. PICK o \in Nat : o = off[j] + i
    BY <2>3, <2>5
  <2>a. PICK R \in Nat : R = Rounded(MsgSz[acc[j + 1]])
    BY <2>3
  <2>b. PICK b \in Nat : b = off[j]
    BY <2>5
  <2>c. /\ i \in Nat /\ i <= R /\ 1 + n <= b /\ b + 1 + R <= U /\ o = b + i
        /\ U \in Nat /\ U <= W /\ n \in Nat /\ h \in Nat /\ h2 \in Nat
    <3>1. i <= R
      BY ONLY <2>3, <2>a
    <3>2. 1 + n <= b /\ b + 1 + R <= U /\ o = b + i
      BY ONLY <2>5, <2>6, <2>7, <2>a, <2>b
    <3>3. U \in Nat /\ U <= W /\ n \in Nat /\ h \in Nat /\ h2 \in Nat
      BY <1>6, <1>8, <1>14
    <3>. QED  BY <2>3, <3>1, <3>2, <3>3
  <2>8. 1 + n <= o /\ o <= W
    BY ONLY <2>c, b \in Nat, R \in Nat, o \in Nat, W \in Nat
  <2>9. h2 + off2[j - 1] + i = h2 + (o - (1 + n)) /\ h + off[j] + i = h + o
    <3>1. off2[j - 1] = b - (1 + n) /\ off[j] = b
      BY ONLY <2>4, <2>b
    <3>2. h2 + (b - (1 + n)) + i = h2 + (o - (1 + n)) /\ h + b + i = h + o
      BY ONLY <2>c, b \in Nat, o \in Nat
    <3>. QED  BY ONLY <3>1, <3>2
  <2>10. k.buf[(h + off[j + 1 - 1] + i) % W] = word(acc[j + 1], i)
    BY <1>3, <2>1, <2>3
  <2>11. (h2 + (o - (1 + n))) % W = (h + o) % W
    BY <1>15, <2>8
  <2>. QED  BY ONLY <1>16, <2>1, <2>2, <2>9, <2>10, <2>11
<1>20. Filled(k2, h2, W, off2)
  <2>1. acc2 \in Seq(MbfMsgs) /\ Len(acc2) = L - 1
    BY <1>4 DEF acc2
  <2>2. h2 \in 0..W /\ h2 < W /\ U - (1 + n) <= W /\ k2.tail \in 0..W
    <3>1. k.tail \in 0..W /\ U \in Nat /\ U <= W /\ n \in Nat /\ W \in Nat \ {0} /\ h2 \in 0..W - 1
      <4>1. k.tail \in 0..W
        BY <1>1
      <4>. QED  BY <1>6, <1>8, <1>14, <4>1
    <3>2. U - (1 + n) <= W /\ h2 \in 0..W /\ h2 < W
      BY ONLY <3>1
    <3>. QED  BY ONLY <1>16, <3>1, <3>2
  <2>. QED  BY <1>13, <1>16, <1>17, <1>18, <1>19, <2>1, <2>2 DEF Filled
<1>. QED  BY <1>5, <1>8, <1>9, <1>14, <1>20 DEF k2

\* The ring fills whatever the flags of the loop say.
LEMMA FilledFlags ==
  ASSUME NEW k, NEW h, NEW off, NEW W, Filled(k, h, W, off), NEW m, DOMAIN m = RingFields,
         m.free = k.free, m.tail = k.tail, m.buf = k.buf, m.acc = k.acc
  PROVE  Filled(m, h, W, off) /\ \A x : mbf_free(m, x) <=> mbf_free(k, x)
BY DEF Filled, mbf_free

\* mbf_wakeup keeps the ring, serves senders in their order, and leaves nobody in
\* front whose message fits.
LEMMA MbfLoop ==
  ASSUME NEW q \in Seq(Tasks), IsInjective(q), \A t \in ToSet(q) : winfo[t] \in MbfMsgs,
         Words \in Nat, NEW h, NEW k, \E off : Filled(k, h, Words, off), ~k.stop,
         \A t \in ToSet(q) : t \notin k.freed,
         NEW r, r = Loop(q, k, wakeup_one)
  PROVE  /\ \E off : Filled(r, h, Words, off)
         /\ Without(q, r.freed) # <<>> => ~mbf_free(r, winfo[Head(Without(q, r.freed))])
         /\ \A i, j \in 1..Len(q) : q[i] \in r.freed /\ q[j] \notin r.freed => i < j
<1>1. PICK f : Wakeups(q, k, f) /\ r = f[Len(q)]
  BY WakeupsExist
<1>. DEFINE N == Len(q)
            Full(g) == \E off : Filled(g, h, Words, off)
            Good(n, g) == /\ DOMAIN g = RingFields /\ Full(g)
                          /\ \A x \in g.freed : x \in k.freed \/ \E i \in 1..n : q[i] = x
                          /\ \A i, j \in 1..n : q[i] \in g.freed /\ q[j] \notin g.freed => i < j
                          /\ g.stop => \E j \in 1..n : /\ q[j] \notin g.freed /\ ~mbf_free(g, winfo[q[j]])
                                                       /\ \A i \in 1..n : i < j => q[i] \in g.freed
                          /\ ~g.stop => \A i \in 1..n : q[i] \in g.freed
            P == {n \in Nat : n <= N => Good(n, f[n])}
<1>2. N \in Nat
  BY LenProperties
<1>3. f[0] = k /\ \A n \in 1..N : f[n] = wakeup_one(f[n - 1], q[n])
  <2>1. 0 \in 0..N /\ \A n \in 1..N : n \in 0..N /\ n # 0
    BY <1>2
  <2>. HIDE DEF wakeup_one
  <2>. QED  BY <1>1, <2>1 DEF Wakeups
<1>4. \A i, j \in 1..N : q[i] = q[j] => i = j
  BY InjectivePositions
<1>5. \A i \in 1..N : q[i] \in Tasks /\ winfo[q[i]] \in MbfMsgs /\ q[i] \notin k.freed
  BY MemberPosition, ElementOfSeq
<1>f. \A g, m : DOMAIN m = RingFields /\ m.free = g.free /\ m.tail = g.tail /\ m.buf = g.buf /\ m.acc = g.acc
                => (Full(g) => Full(m)) /\ \A x : mbf_free(m, x) <=> mbf_free(g, x)
  <2>. SUFFICES ASSUME NEW g, NEW m, DOMAIN m = RingFields,
                       m.free = g.free, m.tail = g.tail, m.buf = g.buf, m.acc = g.acc
                PROVE  (Full(g) => Full(m)) /\ \A x : mbf_free(m, x) <=> mbf_free(g, x)
    OBVIOUS
  <2>1. \A off : Filled(g, h, Words, off) => Filled(m, h, Words, off)
    BY FilledFlags
  <2>2. \A x : mbf_free(m, x) <=> mbf_free(g, x)
    BY DEF mbf_free
  <2>. QED  BY <2>1, <2>2
<1>s. \A g, m : Full(g) /\ m \in MbfMsgs /\ mbf_free(g, m) =>
                  LET u == msg_to_mbf(g, m)
                  IN  Full(u) /\ DOMAIN u = RingFields /\ u.freed = g.freed /\ u.stop = g.stop
  <2>. SUFFICES ASSUME NEW g, NEW off, Filled(g, h, Words, off), NEW m \in MbfMsgs, mbf_free(g, m)
                PROVE  LET u == msg_to_mbf(g, m)
                       IN  Full(u) /\ DOMAIN u = RingFields /\ u.freed = g.freed /\ u.stop = g.stop
    OBVIOUS
  <2>. DEFINE u == msg_to_mbf(g, m)
  <2>1. (\E off2 : Filled(u, h, Words, off2)) /\ u.freed = g.freed /\ u.stop = g.stop
    <3>. HIDE DEF msg_to_mbf, mbf_free
    <3>. QED  BY StoreMsg
  <2>. HIDE DEF u
  <2>2. DOMAIN u = RingFields
    BY <2>1 DEF Filled
  <2>. QED  BY <2>1, <2>2 DEF u
<1>. HIDE DEF Full, mbf_free, msg_to_mbf
<1>6. ASSUME NEW n \in Nat, n + 1 <= N, NEW g, Good(n, g)
      PROVE  Good(n + 1, wakeup_one(g, q[n + 1]))
  <2>. DEFINE t == q[n + 1]
              w == winfo[t]
  <2>1. n + 1 \in 1..N /\ n + 1 \in 1..n + 1 /\ \A i \in 1..n : i \in 1..n + 1 /\ i \in 1..N /\ i # n + 1 /\ i < n + 1
    BY <1>2, <1>6
  <2>2. \A i \in 1..n + 1 : i \in 1..n \/ i = n + 1
    BY <1>6
  <2>3. w \in MbfMsgs
    BY <1>5, <2>1
  <2>4. t \notin g.freed
    BY <1>4, <1>5, <1>6, <2>1
  <2>5. DOMAIN g = RingFields
    BY <1>6
  <2>6. PICK m : m = wakeup_one(g, t)
    OBVIOUS
  <2>7. CASE g.stop \/ ~mbf_free(g, w)
    <3>1. m = [g EXCEPT !.stop = TRUE]
      BY <2>6, <2>7 DEF wakeup_one
    <3>3. DOMAIN m = RingFields /\ m.free = g.free /\ m.tail = g.tail /\ m.buf = g.buf /\ m.acc = g.acc
          /\ m.freed = g.freed /\ m.stop
      BY <2>5, <3>1 DEF RingFields
    <3>4. Full(m) /\ \A v : mbf_free(m, v) <=> mbf_free(g, v)
      BY <1>6, <1>f, <3>3
    <3>5. \E l \in 1..n + 1 : /\ q[l] \notin m.freed /\ ~mbf_free(m, winfo[q[l]])
                              /\ \A i \in 1..n + 1 : i < l => q[i] \in m.freed
      <4>1. CASE g.stop
        <5>1. PICK j \in 1..n : /\ q[j] \notin g.freed /\ ~mbf_free(g, winfo[q[j]])
                                /\ \A i \in 1..n : i < j => q[i] \in g.freed
          BY <1>6, <4>1
        <5>2. \A i \in 1..n + 1 : i < j => i \in 1..n
          BY <1>6
        <5>. QED  BY <2>1, <3>3, <3>4, <5>1, <5>2
      <4>2. CASE ~g.stop
        <5>1. ~mbf_free(m, winfo[q[n + 1]]) /\ q[n + 1] \notin m.freed
          BY <2>4, <2>7, <3>3, <3>4, <4>2
        <5>2. \A i \in 1..n + 1 : i < n + 1 => q[i] \in m.freed
          BY <1>6, <2>2, <3>3, <4>2
        <5>. QED  BY <2>1, <5>1, <5>2
      <4>. QED  BY <4>1, <4>2
    <3>6. \A i, j \in 1..n + 1 : q[i] \in m.freed /\ q[j] \notin m.freed => i < j
      <4>. SUFFICES ASSUME NEW i \in 1..n + 1, NEW j \in 1..n + 1, q[i] \in g.freed, q[j] \notin g.freed  PROVE i < j
        BY <3>3
      <4>1. i \in 1..n
        BY <2>2, <2>4
      <4>. QED  BY <1>6, <2>1, <2>2, <4>1
    <3>7. \A x \in m.freed : x \in k.freed \/ \E i \in 1..n + 1 : q[i] = x
      BY <1>6, <2>1, <3>3
    <3>. QED  BY <2>6, <3>3, <3>4, <3>5, <3>6, <3>7
  <2>8. CASE ~(g.stop \/ ~mbf_free(g, w))
    <3>. DEFINE u == msg_to_mbf(g, w)
    <3>1. m = [u EXCEPT !.freed = @ \cup {t}]
      BY <2>6, <2>8 DEF wakeup_one
    <3>2. DOMAIN u = RingFields /\ u.freed = g.freed /\ u.stop = g.stop /\ Full(u)
      BY <1>6, <1>s, <2>3, <2>8
    <3>. HIDE DEF u
    <3>3. DOMAIN m = RingFields /\ m.free = u.free /\ m.tail = u.tail /\ m.buf = u.buf /\ m.acc = u.acc
          /\ m.freed = g.freed \cup {t} /\ ~m.stop
      BY <2>8, <3>1, <3>2 DEF RingFields
    <3>4. Full(m)
      BY <1>f, <3>2, <3>3
    <3>5. \A i \in 1..n + 1 : q[i] \in m.freed
      BY <1>6, <2>2, <2>8, <3>3
    <3>6. \A x \in m.freed : x \in k.freed \/ \E i \in 1..n + 1 : q[i] = x
      BY <1>6, <2>1, <3>3
    <3>. QED  BY <2>6, <3>3, <3>4, <3>5, <3>6
  <2>. QED  BY <2>7, <2>8
<1>. HIDE DEF wakeup_one
<1>7. 0 \in P
  <2>1. \A i \in 1..0 : FALSE
    OBVIOUS
  <2>2. DOMAIN k = RingFields /\ Full(k)
    BY DEF Full, Filled
  <2>. QED  BY <1>3, <2>1, <2>2
<1>8. ASSUME NEW n \in Nat, n \in P  PROVE n + 1 \in P
  <2>. HIDE DEF Good
  <2>. SUFFICES ASSUME n + 1 <= N  PROVE Good(n + 1, f[n + 1])
    OBVIOUS
  <2>1. Good(n, f[n]) /\ n + 1 \in 1..N /\ (n + 1) - 1 = n
    BY <1>2, <1>8
  <2>2. f[n + 1] = wakeup_one(f[n], q[n + 1])
    BY <1>3, <2>1
  <2>. QED  BY <1>6, <2>1, <2>2
<1>. HIDE DEF P
<1>9. Nat \subseteq P
  BY <1>7, <1>8, SetInduction
<1>10. Good(N, r)
  <2>. HIDE DEF Good
  <2>. QED  BY <1>1, <1>2, <1>9 DEF P
<1>11. Without(q, r.freed) \in Seq(Tasks) /\ ToSet(Without(q, r.freed)) = ToSet(q) \ r.freed
  BY WithoutProperties
<1>12. Without(q, r.freed) # <<>> => ~mbf_free(r, winfo[Head(Without(q, r.freed))])
  <2>1. CASE r.stop
    <3>1. PICK j \in 1..N : /\ q[j] \notin r.freed /\ ~mbf_free(r, winfo[q[j]])
                            /\ \A i \in 1..N : i < j => q[i] \in r.freed
      BY <1>10, <2>1
    <3>2. Head(Without(q, r.freed)) = q[j]
      BY <3>1, WithoutHead
    <3>. QED  BY <3>1, <3>2
  <2>2. CASE ~r.stop
    <3>0. \A i \in 1..N : q[i] \in r.freed
      BY <1>10, <2>2
    <3>1. \A x \in ToSet(q) : x \in r.freed
      BY <3>0, MemberPosition
    <3>2. ToSet(Without(q, r.freed)) = {}
      BY <1>11, <3>1
    <3>. QED  BY <1>11, <3>2, MemberPosition
  <2>. QED  BY <2>1, <2>2
<1>. QED  BY <1>10, <1>12 DEF Full

\* The invariant of the message buffer.
MbfOK == /\ MbfTypeOK
         /\ Words \in Nat /\ bufsz = Words * HEADERSZ
         /\ objid => \E off : Filled(Ring, mbf_head, Words, off)
         /\ \A t \in ToSet(wait_queue) : winfo[t] \in MbfMsgs
         /\ NobodyWaitsForBuffer

\* The ring of its variables.
LEMMA RingOf ==
  /\ DOMAIN Ring = RingFields /\ Ring.free = frbufsz /\ Ring.tail = mbf_tail /\ Ring.buf = buffer
  /\ Ring.acc = accepted /\ Ring.freed = {} /\ ~Ring.stop
BY DEF Ring, RingFields

\* The free bytes of a ring are no more than its size.
LEMMA FreeBytes ==
  ASSUME NEW k, NEW h, NEW off, NEW W \in Nat, Filled(k, h, W, off)
  PROVE  k.free \in 0..W * HEADERSZ
<1>1. /\ k.acc \in Seq(MbfMsgs) /\ off \in [0..Len(k.acc) -> Nat] /\ off[Len(k.acc)] <= W
      /\ k.free = (W - off[Len(k.acc)]) * HEADERSZ /\ HEADERSZ \in Nat \ {0}
  BY BufferAssumption DEF Filled, Offsets
<1>2. PICK u \in Nat : u = off[Len(k.acc)]
  BY <1>1, LenProperties
<1>3. PICK H \in Nat \ {0} : H = HEADERSZ
  BY <1>1
<1>4. u <= W /\ k.free = (W - u) * H
  BY <1>1, <1>2, <1>3
<1>5. (W - u) * H = W * H - u * H /\ W * H \in Nat /\ u * H \in Nat /\ (W - u) * H \in Nat
  <2>1. W - u \in Nat
    BY <1>4
  <2>. QED  BY <2>1
<1>6. PICK a \in Nat : a = W * H
  BY <1>5
<1>7. PICK b \in Nat : b = u * H
  BY <1>5
<1>8. k.free = a - b /\ k.free \in Nat
  BY <1>4, <1>5, <1>6, <1>7
<1>. QED  BY ONLY <1>3, <1>6, <1>8, a \in Nat, b \in Nat

\* A step leaves the ring filled: what has to be shown of the rest.
LEMMA MbfFilled ==
  ASSUME bufsz' \in Nat, Words' \in Nat, bufsz' = Words' * HEADERSZ,
         NEW m, NEW off, Filled(m, mbf_head', Words', off),
         frbufsz' = m.free, mbf_tail' = m.tail, buffer' = m.buf, accepted' = m.acc,
         recv_queue' \in Seq(Tasks), winfo' \in [Tasks -> MbfMsgs \cup {NULL}],
         \A t \in ToSet(wait_queue') : winfo'[t] \in MbfMsgs,
         recv_queue' # <<>> => m.acc = <<>> /\ wait_queue' = <<>>,
         wait_queue' # <<>> => ~mbf_free(m, winfo'[Head(wait_queue')])
  PROVE  MbfOK'
<1>1. PICK W \in Nat : W = Words'
  OBVIOUS
<1>2. PICK h : h = mbf_head'
  OBVIOUS
<1>3. Filled(m, h, W, off) /\ bufsz' = W * HEADERSZ
  BY <1>1, <1>2
<1>4. frbufsz' \in 0..bufsz'
  BY <1>3, FreeBytes
<1>5. mbf_head' \in 0..W /\ mbf_tail' \in 0..W
  BY <1>2, <1>3 DEF Filled
<1>6. MbfTypeOK'
  BY <1>1, <1>4, <1>5 DEF MbfTypeOK
<1>7. PICK k : k = Ring'
  OBVIOUS
<1>8. DOMAIN k = RingFields /\ k.free = m.free /\ k.tail = m.tail /\ k.buf = m.buf /\ k.acc = m.acc
  BY <1>7 DEF Ring, RingFields
<1>9. Filled(k, h, W, off) /\ \A x : mbf_free(k, x) <=> mbf_free(m, x)
  BY <1>3, <1>8, FilledFlags
<1>10. (\E o : Filled(Ring, mbf_head, Words, o))'
  <2>1. \E o : Filled(k, h, W, o)
    BY <1>9
  <2>. QED  BY <1>1, <1>2, <1>7, <2>1 DEF Filled
<1>11. NobodyWaitsForBuffer'
  BY <1>7, <1>8, <1>9 DEF NobodyWaitsForBuffer, mbf_free, Ring
<1>. QED  BY <1>1, <1>3, <1>6, <1>10, <1>11 DEF MbfOK

\* The messages and the sizes of an existing buffer.
LEMMA MbfFacts ==
  ASSUME MbfOK, objid
  PROVE  /\ Words \in Nat /\ bufsz \in Nat /\ bufsz = Words * HEADERSZ
         /\ \E off : Filled(Ring, mbf_head, Words, off)
         /\ accepted = <<>> <=> mbf_empty
<1>1. PICK off : Filled(Ring, mbf_head, Words, off)
  BY DEF MbfOK
<1>2. Words \in Nat /\ bufsz \in Nat /\ bufsz = Words * HEADERSZ
  BY DEF MbfOK, MbfTypeOK
<1>3. Ring.acc = <<>> <=> Ring.free = Words * HEADERSZ
  BY <1>1, <1>2, EmptyRing
<1>. QED  BY <1>1, <1>2, <1>3, RingOf DEF mbf_empty

\* mbf_wakeup on the queue q and the ring k.
LEMMA MbfRung ==
  ASSUME MbfOK, objid, NEW q \in Seq(Tasks), IsInjective(q),
         \A t \in ToSet(q) : winfo[t] \in MbfMsgs,
         NEW h, NEW k, \E off : Filled(k, h, Words, off), ~k.stop,
         \A t \in ToSet(q) : t \notin k.freed,
         mbf_wakeup(q, k), h = mbf_head', UNCHANGED <<bufsz, recv_queue>>, recv_queue = <<>>,
         winfo' \in [Tasks -> MbfMsgs \cup {NULL}],
         \A t \in ToSet(q) : t \notin gets' => winfo'[t] = winfo[t]
  PROVE  /\ MbfOK'
         /\ wait_queue' = Without(q, gets') /\ k.freed \subseteq gets' /\ gets' \subseteq k.freed \cup ToSet(q)
         /\ \A i, j \in 1..Len(q) : q[i] \in gets' /\ q[j] \notin gets' => i < j
<1>1. PICK r : r = Loop(q, k, wakeup_one)
  OBVIOUS
<1>2. /\ wait_queue' = Without(q, r.freed) /\ gets' = r.freed
      /\ frbufsz' = r.free /\ mbf_tail' = r.tail /\ buffer' = r.buf /\ accepted' = r.acc
  <2>. HIDE DEF wakeup_one
  <2>. QED  BY <1>1 DEF mbf_wakeup, SetRing
<1>3. Words \in Nat /\ bufsz \in Nat /\ bufsz = Words * HEADERSZ
  BY MbfFacts
<1>4. /\ \E off : Filled(r, h, Words, off)
      /\ Without(q, r.freed) # <<>> => ~mbf_free(r, winfo[Head(Without(q, r.freed))])
      /\ \A i, j \in 1..Len(q) : q[i] \in r.freed /\ q[j] \notin r.freed => i < j
  <2>. HIDE DEF wakeup_one, mbf_free, Words
  <2>. QED  BY <1>1, <1>3, MbfLoop
<1>5. PICK off : Filled(r, h, Words, off)
  BY <1>4
<1>6. wait_queue' \in Seq(Tasks) /\ ToSet(wait_queue') = ToSet(q) \ r.freed
  BY <1>2, WithoutProperties
<1>7. \A t \in ToSet(wait_queue') : winfo'[t] = winfo[t] /\ winfo'[t] \in MbfMsgs
  BY <1>2, <1>6
<1>8. wait_queue' # <<>> => ~mbf_free(r, winfo'[Head(wait_queue')])
  <2>1. wait_queue' # <<>> => Head(wait_queue') \in ToSet(wait_queue')
    BY <1>6, MemberPosition
  <2>. HIDE DEF mbf_free
  <2>. QED  BY <1>2, <1>4, <1>7, <2>1
<1>9. Words' = Words /\ bufsz' = bufsz
  BY DEF Words
<1>10. recv_queue' = <<>> /\ recv_queue' \in Seq(Tasks)
  OBVIOUS
<1>11. Words' \in Nat /\ bufsz' \in Nat /\ bufsz' = Words' * HEADERSZ /\ Filled(r, mbf_head', Words', off)
  <2>. HIDE DEF Words
  <2>. QED  BY <1>3, <1>5, <1>9
<1>12. k.freed \subseteq r.freed /\ r.freed \subseteq k.freed \cup ToSet(q)
  <2>1. DOMAIN k = RingFields
    BY DEF Filled
  <2>. HIDE DEF wakeup_one
  <2>. QED  BY <1>1, <2>1, WakeupFreed
<1>. HIDE DEF mbf_free, Words
<1>13. MbfOK'
  BY <1>2, <1>7, <1>8, <1>10, <1>11, MbfFilled
<1>. QED  BY <1>2, <1>4, <1>12, <1>13

\* The ring stays, the queue loses members at most and keeps its head.
LEMMA MbfKept ==
  ASSUME MbfOK, objid' => objid, wait_queue' \in Seq(Tasks),
         UNCHANGED <<bufsz, frbufsz, mbf_head, mbf_tail, buffer, accepted>>,
         recv_queue' \in Seq(Tasks), recv_queue' # <<>> => recv_queue # <<>>,
         winfo' \in [Tasks -> MbfMsgs \cup {NULL}],
         \A u \in ToSet(wait_queue') : u \in ToSet(wait_queue) /\ winfo'[u] = winfo[u],
         wait_queue' = <<>> \/ (wait_queue # <<>> /\ Head(wait_queue') = Head(wait_queue))
  PROVE  MbfOK'
<1>1. Words' = Words
  BY DEF Words
<1>2. wait_queue' # <<>> => Head(wait_queue') \in ToSet(wait_queue')
  BY MemberPosition
<1>3. (objid => \E off : Filled(Ring, mbf_head, Words, off))'
  <2>1. PICK m : m = Ring'
    OBVIOUS
  <2>2. m = Ring
    BY <2>1 DEF Ring
  <2>3. objid' => \E off : Filled(m, mbf_head, Words, off)
    BY <2>2 DEF MbfOK
  <2>. HIDE DEF Words
  <2>. QED  BY <1>1, <2>1, <2>3 DEF Filled
<1>4. NobodyWaitsForBuffer'
  BY <1>2 DEF MbfOK, NobodyWaitsForBuffer, mbf_free, Ring
<1>5. MbfTypeOK'
  <2>. HIDE DEF Words
  <2>. QED  BY <1>1 DEF MbfOK, MbfTypeOK
<1>. HIDE DEF Words
<1>. QED  BY <1>1, <1>3, <1>4, <1>5 DEF MbfOK

\* wake leaves the others their messages.
LEMMA MessageWake ==
  ASSUME winfo \in [Tasks -> MbfMsgs \cup {NULL}], NEW t, NEW s, wake(t, s)
  PROVE  /\ winfo' \in [Tasks -> MbfMsgs \cup {NULL}]
         /\ \A u \in Tasks : u # t /\ u \notin gets' => winfo'[u] = winfo[u]
BY DEF wake

\* A new buffer.
LEMMA NewBuffer ==
  ASSUME NEW sz \in BufSizes, NEW k, DOMAIN k = RingFields, k.acc = <<>>, k.tail = 0, k.free = ROUNDSZ(sz)
  PROVE  /\ Rounded(sz) \in Nat /\ ROUNDSZ(sz) \in Nat /\ ROUNDSZ(sz) \div HEADERSZ = Rounded(sz)
         /\ ROUNDSZ(sz) = Rounded(sz) * HEADERSZ
         /\ \E off : Filled(k, 0, Rounded(sz), off)
<1>1. sz \in Nat /\ HEADERSZ \in Nat \ {0}
  BY BufferAssumption
<1>2. PICK W \in Nat : W = Rounded(sz)
  <2>1. sz + HEADERSZ - 1 \in Nat
    BY <1>1
  <2>. QED  BY <1>1, <2>1 DEF Rounded
<1>3. ROUNDSZ(sz) = W * HEADERSZ /\ W * HEADERSZ \in Nat /\ (W * HEADERSZ) \div HEADERSZ = W
  BY <1>1, <1>2, WholeWords DEF ROUNDSZ
<1>4. PICK off : off = [j \in 0..0 |-> 0]
  OBVIOUS
<1>5. <<>> \in Seq(MbfMsgs) /\ Len(<<>>) = 0 /\ off[0] = 0 /\ \A j \in 1..0 : FALSE
  BY <1>4
<1>6. Offsets(off, <<>>)
  BY <1>4, <1>5 DEF Offsets
<1>7. W > 0 => 0 < W /\ 0 = (0 + 0) % W
  OBVIOUS
<1>8. W - 0 = W /\ 0 <= W
  OBVIOUS
<1>9. Filled(k, 0, W, off)
  BY <1>2, <1>3, <1>5, <1>6, <1>7, <1>8 DEF Filled
<1>. QED  BY <1>2, <1>3, <1>9

\* A sender gives up, or moves in the queue.
LEMMA MbfLeft ==
  ASSUME MbfOK, GcbOK, NEW t \in Tasks, HookedLeave(t, mbf_chg_pri)
  PROVE  MbfOK' /\ LeavesInTurn(t)
<1>0. /\ wait_queue \in Seq(Tasks) /\ IsInjective(wait_queue) /\ ToSet(wait_queue) \subseteq Tasks
      /\ \A u \in Tasks : u \in ToSet(wait_queue) <=> state[u] = "WAIT"
      /\ priority \in [Tasks -> Pri] /\ Current
  BY MemberPosition DEF GcbOK, Current, Exact
<1>1. /\ state[t] = "WAIT"
      /\ \/ \E s \in {"READY", "DORMANT"} : leave(t, s, mbf_chg_pri)
         \/ /\ objatr.tpri /\ wake(NULL, "READY")
            /\ \E p \in Pri : /\ priority' = [priority EXCEPT ![t] = p]
                              /\ mbf_chg_pri(gcb_change_priority(wait_queue, t, priority'))
  <2>. HIDE DEF mbf_chg_pri
  <2>. QED  BY DEF HookedLeave, leave
<1>2. t \in ToSet(wait_queue) /\ objid /\ recv_queue = <<>>
  <2>1. t \in ToSet(wait_queue)
    BY <1>0, <1>1
  <2>. QED  BY <2>1 DEF GcbOK, ToSet, MbfOK, NobodyWaitsForBuffer
<1>3. winfo \in [Tasks -> MbfMsgs \cup {NULL}] /\ \A u \in ToSet(wait_queue) : winfo[u] \in MbfMsgs
  BY DEF MbfOK, MbfTypeOK
<1>p. PICK k : k = Ring
  OBVIOUS
<1>k. (\E off : Filled(k, mbf_head, Words, off)) /\ k.freed = {} /\ ~k.stop
  BY <1>2, <1>p, MbfFacts, RingOf
<1>4. ASSUME NEW q \in Seq(Tasks), IsInjective(q), mbf_chg_pri(q),
             \A u \in ToSet(q) : u \in ToSet(wait_queue),
             winfo' \in [Tasks -> MbfMsgs \cup {NULL}],
             \A u \in ToSet(q) : u \notin gets' => winfo'[u] = winfo[u]
      PROVE  MbfOK' /\ FirstServed(q, gets') /\ wait_queue' = Without(q, gets')
  <2>. HIDE DEF mbf_wakeup, Words
  <2>1. mbf_wakeup(q, k) /\ mbf_head = mbf_head' /\ UNCHANGED <<bufsz, recv_queue>>
    BY <1>4, <1>p DEF mbf_chg_pri
  <2>2. \A u \in ToSet(q) : winfo[u] \in MbfMsgs /\ u \notin k.freed
    BY <1>3, <1>4, <1>k
  <2>3. /\ MbfOK'
        /\ wait_queue' = Without(q, gets') /\ k.freed \subseteq gets' /\ gets' \subseteq k.freed \cup ToSet(q)
        /\ \A i, j \in 1..Len(q) : q[i] \in gets' /\ q[j] \notin gets' => i < j
    BY <1>2, <1>4, <1>k, <2>1, <2>2, MbfRung
  <2>. QED  BY <1>k, <2>3 DEF FirstServed
<1>u. UNCHANGED gcb /\ INI_PRI \in Pri /\ priority[t] \in Pri /\ priority = [priority EXCEPT ![t] = priority[t]]
  BY <1>0, ObjectAssumption DEF HookedLeave
<1>v. \E p \in Pri : priority' = [priority EXCEPT ![t] = p]
  <2>. HIDE DEF mbf_chg_pri, leave, wake
  <2>. QED  BY <1>u DEF HookedLeave
<1>. HIDE DEF mbf_chg_pri
<1>5. ASSUME NEW s \in {"READY", "DORMANT"}, leave(t, s, mbf_chg_pri)
      PROVE  MbfOK' /\ LeavesInTurn(t)
  <2>1. PICK q : q = QueRemove(wait_queue, t)
    OBVIOUS
  <2>2. q \in Seq(Tasks) /\ ToSet(q) = ToSet(wait_queue) \ {t} /\ IsInjective(q)
    BY <1>0, <2>1, QueRemoveProperties
  <2>3. mbf_chg_pri(q) /\ wake(t, s)
    BY <1>5, <2>1 DEF leave
  <2>4. /\ winfo' \in [Tasks -> MbfMsgs \cup {NULL}]
        /\ \A u \in Tasks : u # t /\ u \notin gets' => winfo'[u] = winfo[u]
    BY <1>3, <2>3, MessageWake
  <2>5. \A u \in ToSet(q) : u \in ToSet(wait_queue) /\ (u \notin gets' => winfo'[u] = winfo[u])
    BY <1>0, <2>2, <2>4
  <2>6. MbfOK' /\ FirstServed(q, gets') /\ wait_queue' = Without(q, gets')
    BY <1>4, <2>2, <2>3, <2>4, <2>5
  <2>. QED  BY <1>2, <1>u, <1>v, <2>1, <2>6 DEF LeavesInTurn
<1>6. ASSUME objatr.tpri, wake(NULL, "READY"), NEW p \in Pri,
             priority' = [priority EXCEPT ![t] = p],
             mbf_chg_pri(gcb_change_priority(wait_queue, t, priority'))
      PROVE  MbfOK' /\ LeavesInTurn(t)
  <2>1. PICK q : q = gcb_change_priority(wait_queue, t, priority')
    OBVIOUS
  <2>2. priority' \in [Tasks -> Pri] /\ \A u \in Tasks : u # t => priority'[u] = priority[u]
    BY <1>0, <1>6
  <2>3. Exact(q, state, waitmask, priority', objatr)
    BY <1>0, <1>2, <1>6, <2>1, <2>2, ExactMoved DEF Current
  <2>4. /\ q \in Seq(Tasks) /\ IsInjective(q) /\ ToSet(q) \subseteq Tasks
        /\ \A u \in Tasks : u \in ToSet(q) <=> state[u] = "WAIT"
    BY <2>3, MemberPosition DEF Exact
  <2>5. mbf_chg_pri(q)
    BY <1>6, <2>1
  <2>6. /\ winfo' \in [Tasks -> MbfMsgs \cup {NULL}]
        /\ \A u \in Tasks : u # NULL /\ u \notin gets' => winfo'[u] = winfo[u]
    BY <1>3, <1>6, MessageWake
  <2>7. \A u \in ToSet(q) : u \in ToSet(wait_queue) /\ (u \notin gets' => winfo'[u] = winfo[u])
    BY <1>0, <2>4, <2>6, ObjectAssumption
  <2>8. MbfOK' /\ FirstServed(q, gets') /\ wait_queue' = Without(q, gets')
    BY <1>4, <2>4, <2>5, <2>6, <2>7
  <2>. QED  BY <1>2, <1>6, <1>u, <2>1, <2>8 DEF LeavesInTurn
<1>. QED  BY <1>1, <1>5, <1>6

\* A message goes straight to the receiver that waits first.
LEMMA MbfGiven ==
  ASSUME MbfOK, GcbOK, RecvOK, NEW m, snd_to_receiver(m), objid, UNCHANGED gcb
  PROVE  MbfOK' /\ accepted = <<>> /\ wait_queue = <<>>
<1>1. /\ recv_queue # <<>> /\ wake(NULL, "READY") /\ recv_queue' = QueRemoveNext(recv_queue)
      /\ UNCHANGED <<wait_queue, bufsz, frbufsz, mbf_head, mbf_tail, buffer, accepted>>
  BY DEF snd_to_receiver
<1>2. wait_queue = <<>> /\ accepted = <<>>
  BY <1>1 DEF MbfOK, NobodyWaitsForBuffer
<1>3. winfo' \in [Tasks -> MbfMsgs \cup {NULL}]
  <2>1. winfo \in [Tasks -> MbfMsgs \cup {NULL}]
    BY DEF MbfOK, MbfTypeOK
  <2>. QED  BY <1>1, <2>1, MessageWake
<1>4. recv_queue' \in Seq(Tasks)
  BY <1>1, QueRemoveNextProperties DEF RecvOK
<1>5. ToSet(<<>>) = {} /\ wait_queue' = <<>> /\ wait_queue' \in Seq(Tasks) /\ objid' = objid
  BY <1>1, <1>2 DEF ToSet, gcb
<1>6. MbfOK'
  BY <1>1, <1>3, <1>4, <1>5, MbfKept
<1>. QED  BY <1>2, <1>6

\* A message joins the others in the ring.
LEMMA MbfStored ==
  ASSUME MbfOK, GcbOK, NEW m \in MbfMsgs, NEW S, snd_to_ring(m, S), objid
  PROVE  MbfOK'
<1>1. PICK k : k = Ring
  OBVIOUS
<1>2. PICK r : r = msg_to_mbf(k, m)
  OBVIOUS
<1>3. /\ recv_queue = <<>> /\ mbf_free(k, m)
      /\ frbufsz' = r.free /\ mbf_tail' = r.tail /\ buffer' = r.buf /\ accepted' = r.acc
      /\ UNCHANGED <<wait_queue, winfo, bufsz, mbf_head, recv_queue>>
  <2>. HIDE DEF msg_to_mbf, mbf_free
  <2>. QED  BY <1>1, <1>2 DEF snd_to_ring, SetRing
<1>4. PICK off : Filled(k, mbf_head, Words, off)
  BY <1>1, MbfFacts
<1>5. Words \in Nat /\ bufsz \in Nat /\ bufsz = Words * HEADERSZ
  BY MbfFacts
<1>6. (\E off2 : Filled(r, mbf_head, Words, off2)) /\ r.free \in Nat /\ k.free \in Nat /\ r.free <= k.free
  <2>. HIDE DEF msg_to_mbf, mbf_free, Words
  <2>. QED  BY <1>2, <1>3, <1>4, <1>5, StoreMsg
<1>7. PICK off2 : Filled(r, mbf_head, Words, off2)
  BY <1>6
<1>8. Words' = Words
  BY <1>3 DEF Words
<1>9. wait_queue # <<>> => ~mbf_free(r, winfo[Head(wait_queue)])
  <2>. SUFFICES ASSUME wait_queue # <<>>  PROVE ~mbf_free(r, winfo[Head(wait_queue)])
    OBVIOUS
  <2>1. ~mbf_free(k, winfo[Head(wait_queue)])
    BY <1>1 DEF MbfOK, NobodyWaitsForBuffer
  <2>2. Head(wait_queue) \in ToSet(wait_queue)
    BY MemberPosition DEF GcbOK, Current, Exact
  <2>3. winfo[Head(wait_queue)] \in MbfMsgs
    BY <2>2 DEF MbfOK
  <2>4. PICK s \in Nat : s = MsgSz[winfo[Head(wait_queue)]]
    BY <2>3, BufferAssumption
  <2>5. PICK H \in Nat : H = HEADERSZ
    BY BufferAssumption
  <2>. QED  BY <1>6, <2>1, <2>4, <2>5 DEF mbf_free
<1>10. /\ recv_queue' \in Seq(Tasks) /\ recv_queue' = <<>> /\ winfo' \in [Tasks -> MbfMsgs \cup {NULL}]
       /\ \A t \in ToSet(wait_queue') : winfo'[t] \in MbfMsgs
       /\ wait_queue' # <<>> => ~mbf_free(r, winfo'[Head(wait_queue')])
  <2>. HIDE DEF mbf_free
  <2>. QED  BY <1>3, <1>9 DEF MbfOK, MbfTypeOK
<1>11. Words' \in Nat /\ bufsz' \in Nat /\ bufsz' = Words' * HEADERSZ /\ Filled(r, mbf_head', Words', off2)
  <2>. HIDE DEF Words
  <2>. QED  BY <1>3, <1>5, <1>7, <1>8
<1>. HIDE DEF Words, mbf_free
<1>. QED  BY <1>3, <1>10, <1>11, MbfFilled

\* A message is read out of the ring: the oldest one; then senders have their turn.
LEMMA MbfRead ==
  ASSUME MbfOK, GcbOK, rcv_from_ring, objid
  PROVE  /\ MbfOK' /\ accepted # <<>> /\ rcvd' = Head(accepted)
         /\ FirstServed(wait_queue, gets') /\ wait_queue' = Without(wait_queue, gets')
<1>0. wait_queue \in Seq(Tasks) /\ IsInjective(wait_queue) /\ ToSet(wait_queue) \subseteq Tasks
  BY MemberPosition DEF GcbOK, Current, Exact
<1>1. PICK k : k = Ring
  OBVIOUS
<1>2. PICK off : Filled(k, mbf_head, Words, off)
  BY <1>1, MbfFacts
<1>3. accepted # <<>> /\ k.acc = accepted /\ recv_queue = <<>>
  <2>1. accepted # <<>>
    BY MbfFacts DEF rcv_from_ring
  <2>. QED  BY <1>1, <2>1, RingOf DEF MbfOK, NobodyWaitsForBuffer
<1>4. PICK m : m = Head(accepted)
  OBVIOUS
<1>5. PICK n : n = Rounded(MsgSz[m])
  OBVIOUS
<1>6. PICK W \in Nat : W = Words
  BY MbfFacts
<1>7. PICK h2 : h2 = (mbf_head + 1 + n) % W
  OBVIOUS
<1>8. PICK k2 : k2 = [k EXCEPT !.free = @ + HEADERSZ + n * HEADERSZ, !.acc = Tail(@)]
  OBVIOUS
<1>9. /\ mbf_head \in 0..W - 1 /\ m \in MbfMsgs
      /\ k.buf[mbf_head] = word(m, 0) /\ k.buf[(mbf_head + 1) % W] = word(m, 1)
      /\ \E off2 : Filled(k2, h2, W, off2)
  <2>1. Filled(k, mbf_head, W, off) /\ k.acc # <<>> /\ m = Head(k.acc) /\ n = Rounded(MsgSz[m]) /\ W \in Nat
    BY <1>2, <1>3, <1>4, <1>5, <1>6
  <2>. QED  BY ONLY <1>7, <1>8, <2>1, ReadMsg
<1>10. HeadSize = MsgSz[m] /\ mbf_to_msg = m
  <2>1. k.buf = buffer
    BY <1>1, RingOf
  <2>2. buffer[mbf_head] = <<"size", MsgSz[m]>> /\ buffer[At(mbf_head + 1)] = <<m, 1>>
    <3>1. word(m, 0) = <<"size", MsgSz[m]>> /\ word(m, 1) = <<m, 1>>
      BY DEF word
    <3>. HIDE DEF word
    <3>. QED  BY <1>6, <1>9, <2>1, <3>1 DEF At
  <2>. QED  BY <2>2 DEF HeadSize, mbf_to_msg
<1>11. /\ mbf_head' = h2 /\ rcvd' = m /\ wake(NULL, "READY") /\ UNCHANGED <<bufsz, recv_queue>>
       /\ mbf_wakeup(wait_queue, k2)
  <2>1. /\ mbf_head' = At(mbf_head + 1 + n) /\ rcvd' = m /\ wake(NULL, "READY") /\ UNCHANGED <<bufsz, recv_queue>>
        /\ mbf_wakeup(wait_queue, [k EXCEPT !.free = @ + HEADERSZ + ROUNDSZ(MsgSz[m]), !.acc = Tail(@)])
    <3>. HIDE DEF mbf_wakeup, At, Rounded, HeadSize, mbf_to_msg
    <3>. QED  BY <1>1, <1>5, <1>10 DEF rcv_from_ring
  <2>. HIDE DEF mbf_wakeup
  <2>. QED  BY <1>5, <1>6, <1>7, <1>8, <2>1 DEF ROUNDSZ, At
<1>12. ~k2.stop /\ k2.freed = {}
  <2>1. DOMAIN k = RingFields /\ ~k.stop /\ k.freed = {}
    BY <1>1, RingOf
  <2>. QED  BY <1>8, <2>1 DEF RingFields
<1>13. /\ winfo' \in [Tasks -> MbfMsgs \cup {NULL}] /\ \A u \in ToSet(wait_queue) : winfo[u] \in MbfMsgs
       /\ \A u \in ToSet(wait_queue) : u \notin gets' => winfo'[u] = winfo[u]
  <2>1. winfo \in [Tasks -> MbfMsgs \cup {NULL}] /\ \A u \in ToSet(wait_queue) : winfo[u] \in MbfMsgs
    BY DEF MbfOK, MbfTypeOK
  <2>2. /\ winfo' \in [Tasks -> MbfMsgs \cup {NULL}]
        /\ \A u \in Tasks : u # NULL /\ u \notin gets' => winfo'[u] = winfo[u]
    BY <1>11, <2>1, MessageWake
  <2>. QED  BY <1>0, <2>1, <2>2, ObjectAssumption
<1>14. MbfOK' /\ FirstServed(wait_queue, gets') /\ wait_queue' = Without(wait_queue, gets')
  <2>1. PICK q : q = wait_queue
    OBVIOUS
  <2>2. /\ q \in Seq(Tasks) /\ IsInjective(q) /\ \A t \in ToSet(q) : winfo[t] \in MbfMsgs /\ t \notin k2.freed
        /\ \A t \in ToSet(q) : t \notin gets' => winfo'[t] = winfo[t]
    BY <1>0, <1>12, <1>13, <2>1
  <2>3. mbf_wakeup(q, k2) /\ h2 = mbf_head' /\ \E o : Filled(k2, h2, Words, o)
    <3>. HIDE DEF mbf_wakeup, Words
    <3>. QED  BY <1>6, <1>9, <1>11, <2>1
  <2>. HIDE DEF mbf_wakeup, Words
  <2>4. /\ MbfOK'
        /\ wait_queue' = Without(q, gets') /\ k2.freed \subseteq gets' /\ gets' \subseteq k2.freed \cup ToSet(q)
        /\ \A i, j \in 1..Len(q) : q[i] \in gets' /\ q[j] \notin gets' => i < j
    BY <1>3, <1>11, <1>12, <1>13, <2>2, <2>3, MbfRung
  <2>5. FirstServed(q, gets')
    BY <1>12, <2>4 DEF FirstServed
  <2>. QED  BY <2>1, <2>4, <2>5
<1>. QED  BY <1>3, <1>4, <1>11, <1>14

\* With an empty ring the message of the first sender is taken.
LEMMA MbfTaken ==
  ASSUME MbfOK, GcbOK, rcv_from_sender, objid
  PROVE  /\ MbfOK' /\ accepted = <<>> /\ wait_queue # <<>> /\ rcvd' = winfo[Head(wait_queue)]
         /\ FirstServed(wait_queue, gets') /\ ToSet(wait_queue') = ToSet(wait_queue) \ gets'
<1>0. /\ wait_queue \in Seq(Tasks) /\ IsInjective(wait_queue) /\ ToSet(wait_queue) \subseteq Tasks
  BY MemberPosition DEF GcbOK, Current, Exact
<1>1. PICK q : q = QueRemoveNext(wait_queue)
  OBVIOUS
<1>2. PICK x : x = Head(wait_queue)
  OBVIOUS
<1>3. PICK k : k = [Ring EXCEPT !.freed = {x}]
  OBVIOUS
<1>4. /\ wait_queue # <<>> /\ rcvd' = winfo[x] /\ mbf_wakeup(q, k) /\ wake(NULL, "READY")
      /\ UNCHANGED <<bufsz, mbf_head, recv_queue>> /\ mbf_empty
  <2>. HIDE DEF mbf_wakeup
  <2>. QED  BY <1>1, <1>2, <1>3 DEF rcv_from_sender, isQueEmpty, QueNext
<1>5. accepted = <<>> /\ recv_queue = <<>>
  BY <1>4, MbfFacts DEF MbfOK, NobodyWaitsForBuffer
<1>6. q \in Seq(Tasks) /\ IsInjective(q) /\ ToSet(q) = ToSet(wait_queue) \ {x}
  BY <1>0, <1>1, <1>2, <1>4, QueRemoveNextProperties DEF QueNext
<1>7. ~k.stop /\ k.freed = {x} /\ \E off : Filled(k, mbf_head, Words, off)
  <2>1. PICK r : r = Ring
    OBVIOUS
  <2>2. PICK off : Filled(r, mbf_head, Words, off)
    BY <2>1, MbfFacts
  <2>3. DOMAIN r = RingFields /\ ~r.stop
    BY <2>1, RingOf
  <2>4. /\ DOMAIN k = RingFields /\ ~k.stop /\ k.freed = {x}
        /\ k.free = r.free /\ k.tail = r.tail /\ k.buf = r.buf /\ k.acc = r.acc
    BY <1>3, <2>1, <2>3 DEF RingFields
  <2>5. Filled(k, mbf_head, Words, off)
    BY <2>2, <2>4, FilledFlags
  <2>. QED  BY <2>4, <2>5
<1>8. /\ winfo' \in [Tasks -> MbfMsgs \cup {NULL}] /\ \A u \in ToSet(q) : winfo[u] \in MbfMsgs /\ u \notin k.freed
      /\ \A u \in ToSet(q) : u \notin gets' => winfo'[u] = winfo[u]
  <2>1. winfo \in [Tasks -> MbfMsgs \cup {NULL}] /\ \A u \in ToSet(wait_queue) : winfo[u] \in MbfMsgs
    BY DEF MbfOK, MbfTypeOK
  <2>2. /\ winfo' \in [Tasks -> MbfMsgs \cup {NULL}]
        /\ \A u \in Tasks : u # NULL /\ u \notin gets' => winfo'[u] = winfo[u]
    BY <1>4, <2>1, MessageWake
  <2>. QED  BY <1>0, <1>6, <1>7, <2>1, <2>2, ObjectAssumption
<1>9. /\ MbfOK'
      /\ wait_queue' = Without(q, gets') /\ x \in gets' /\ gets' \subseteq {x} \cup ToSet(q)
      /\ \A i, j \in 1..Len(q) : q[i] \in gets' /\ q[j] \notin gets' => i < j
  <2>1. PICK h : h = mbf_head
    OBVIOUS
  <2>2. h = mbf_head' /\ \E off : Filled(k, h, Words, off)
    <3>. HIDE DEF Words
    <3>. QED  BY <1>4, <1>7, <2>1
  <2>. HIDE DEF mbf_wakeup, Words
  <2>. QED  BY <1>4, <1>5, <1>6, <1>7, <1>8, <2>2, MbfRung
<1>10. ToSet(wait_queue') = ToSet(wait_queue) \ gets'
  <2>1. ToSet(wait_queue') = ToSet(q) \ gets'
    BY <1>6, <1>9, WithoutProperties
  <2>. QED  BY <1>6, <1>9, <2>1
<1>11. FirstServed(wait_queue, gets')
  <2>1. q = Tail(wait_queue) /\ x \in ToSet(wait_queue) /\ wait_queue[1] = x
    BY <1>0, <1>1, <1>2, <1>4, MemberPosition DEF QueRemoveNext
  <2>2. Len(wait_queue) \in Nat /\ Len(q) = Len(wait_queue) - 1 /\ \A i \in 1..Len(q) : q[i] = wait_queue[i + 1]
    BY <1>0, <1>4, <2>1, HeadTailProperties, LenProperties
  <2>3. gets' \subseteq ToSet(wait_queue)
    BY <1>6, <1>9, <2>1
  <2>4. ASSUME NEW i \in 1..Len(wait_queue), NEW j \in 1..Len(wait_queue),
               wait_queue[i] \in gets', wait_queue[j] \notin gets'
        PROVE  i < j
    <3>1. j # 1
      BY <1>9, <2>1, <2>4
    <3>2. CASE i = 1
      BY <2>2, <3>1, <3>2
    <3>3. CASE i # 1
      <4>1. PICK a \in 1..Len(q) : i = a + 1
        <5>1. i - 1 \in 1..Len(q) /\ i = i - 1 + 1
          BY <2>2, <3>3
        <5>. QED  BY <5>1
      <4>2. PICK b \in 1..Len(q) : j = b + 1
        <5>1. j - 1 \in 1..Len(q) /\ j = j - 1 + 1
          BY <2>2, <3>1
        <5>. QED  BY <5>1
      <4>3. q[a] \in gets' /\ q[b] \notin gets'
        BY <2>2, <2>4, <4>1, <4>2
      <4>4. a < b
        BY <1>9, <4>3
      <4>. QED  BY <2>2, <4>1, <4>2, <4>4
    <3>. QED  BY <3>2, <3>3
  <2>. QED  BY <2>3, <2>4 DEF FirstServed
<1>. QED  BY <1>2, <1>4, <1>5, <1>9, <1>10, <1>11

\* A sender waits: its message does not fit, or it is not the first.
LEMMA MbfWaits ==
  ASSUME MbfOK, GcbOK, GcbOK', NEW t \in Tasks, NEW m \in MbfMsgs, hook_make_wait(t, m),
         state[t] = "READY", objid, ~is_diswai(t), UNCHANGED gcb,
         recv_queue = <<>>, ~(may_send(t) /\ mbf_free(Ring, m)),
         UNCHANGED <<bufsz, frbufsz, mbf_head, mbf_tail, buffer, recv_queue, accepted>>
  PROVE  MbfOK'
<1>0. /\ wait_queue \in Seq(Tasks) /\ ToSet(wait_queue) \subseteq Tasks
      /\ \A u \in Tasks : u \in ToSet(wait_queue) <=> state[u] = "WAIT"
      /\ ToSet(wait_queue') \subseteq Tasks
      /\ \A u \in Tasks : u \in ToSet(wait_queue') <=> state'[u] = "WAIT"
      /\ priority \in [Tasks -> Pri] /\ objatr.tpri \in BOOLEAN
      /\ state \in [Tasks -> {"READY", "WAIT", "RECV", "DORMANT"}]
  BY MemberPosition DEF GcbOK, Current, Exact, ObjAtr
<1>t. winfo \in [Tasks -> MbfMsgs \cup {NULL}] /\ \A u \in ToSet(wait_queue) : winfo[u] \in MbfMsgs
  BY DEF MbfOK, MbfTypeOK
<1>1. make_wait_with_diswai(t) /\ winfo' = [winfo EXCEPT ![t] = m]
  BY DEF hook_make_wait
<1>2. wait_queue' = gcb_make_wait(wait_queue, t, priority, objatr.tpri) /\ state' = [state EXCEPT ![t] = "WAIT"]
  BY <1>1 DEF make_wait_with_diswai
<1>3. Head(wait_queue') = gcb_top_of_wait_queue(wait_queue, t, priority, objatr.tpri)
  BY <1>0, <1>2, TopIsHead
<1>4. t \notin ToSet(wait_queue) /\ winfo'[t] = m
  BY <1>0, <1>t, <1>1
<1>5. \A u \in ToSet(wait_queue') : u = t \/ (u \in ToSet(wait_queue) /\ winfo'[u] = winfo[u])
  BY <1>0, <1>t, <1>1, <1>2
<1>6. \A u \in ToSet(wait_queue') : winfo'[u] \in MbfMsgs
  BY <1>t, <1>4, <1>5
<1>7. winfo' \in [Tasks -> MbfMsgs \cup {NULL}]
  BY <1>t, <1>1
<1>8. PICK k : k = Ring
  OBVIOUS
<1>9. PICK off : Filled(k, mbf_head, Words, off)
  BY <1>8, MbfFacts
<1>10. ~mbf_free(k, winfo'[Head(wait_queue')])
  <2>. HIDE DEF mbf_free
  <2>1. CASE Head(wait_queue') = t
    <3>1. ~mbf_free(k, m)
      BY <1>3, <1>8, <2>1 DEF may_send
    <3>. QED  BY <1>4, <2>1, <3>1
  <2>2. CASE Head(wait_queue') # t
    <3>1. wait_queue # <<>> /\ Head(wait_queue') = Head(wait_queue)
      BY <1>3, <2>2 DEF gcb_top_of_wait_queue, isQueEmpty, QueNext
    <3>2. Head(wait_queue) \in Tasks
      BY <1>0, <3>1, MemberPosition
    <3>3. winfo'[Head(wait_queue)] = winfo[Head(wait_queue)]
      BY <1>t, <1>1, <2>2, <3>1, <3>2
    <3>. QED  BY <1>8, <3>1, <3>3 DEF MbfOK, NobodyWaitsForBuffer
  <2>. QED  BY <2>1, <2>2
<1>11. /\ recv_queue' = <<>> /\ recv_queue' \in Seq(Tasks)
       /\ frbufsz' = k.free /\ mbf_tail' = k.tail /\ buffer' = k.buf /\ accepted' = k.acc
  BY <1>8, RingOf
<1>12. Words' \in Nat /\ bufsz' \in Nat /\ bufsz' = Words' * HEADERSZ /\ Filled(k, mbf_head', Words', off)
  <2>1. Words \in Nat /\ bufsz \in Nat /\ bufsz = Words * HEADERSZ
    BY MbfFacts
  <2>2. Words' = Words
    BY DEF Words
  <2>. HIDE DEF Words
  <2>. QED  BY <1>9, <2>1, <2>2
<1>. HIDE DEF Words, mbf_free
<1>. QED  BY <1>6, <1>7, <1>10, <1>11, <1>12, MbfFilled

\* Every call of the message buffer.
LEMMA MbfServed ==
  ASSUME MbfOK, GcbOK, GcbOK', RecvOK, MbfNext
  PROVE  MbfOK'
<1>0. winfo \in [Tasks -> MbfMsgs \cup {NULL}] /\ recv_queue \in Seq(Tasks)
      /\ wait_queue \in Seq(Tasks) /\ wait_queue' \in Seq(Tasks)
  BY DEF MbfOK, MbfTypeOK, GcbOK, Current, Exact
<1>e. ToSet(<<>>) = {} /\ <<>> \in Seq(Tasks)
  BY DEF ToSet
<1>1. ASSUME NEW atr \in Attributes, NEW sz \in BufSizes, CreMbf(atr, sz)
      PROVE  MbfOK'
  <2>1. /\ wait_queue' = <<>> /\ winfo' = winfo /\ bufsz' = ROUNDSZ(sz) /\ frbufsz' = ROUNDSZ(sz)
        /\ mbf_head' = 0 /\ mbf_tail' = 0 /\ recv_queue' = <<>> /\ accepted' = <<>>
    BY <1>1 DEF CreMbf, create, tasks, GcbOK
  <2>2. PICK k : k = [free |-> ROUNDSZ(sz), tail |-> 0, buf |-> buffer', acc |-> <<>>, freed |-> {}, stop |-> FALSE]
    OBVIOUS
  <2>3. DOMAIN k = RingFields /\ k.acc = <<>> /\ k.tail = 0 /\ k.free = ROUNDSZ(sz) /\ k.buf = buffer'
    BY <2>2 DEF RingFields
  <2>4. /\ Rounded(sz) \in Nat /\ ROUNDSZ(sz) \in Nat /\ ROUNDSZ(sz) \div HEADERSZ = Rounded(sz)
        /\ ROUNDSZ(sz) = Rounded(sz) * HEADERSZ
        /\ \E off : Filled(k, 0, Rounded(sz), off)
    BY <2>3, NewBuffer
  <2>5. PICK off : Filled(k, 0, Rounded(sz), off)
    BY <2>4
  <2>. HIDE DEF Rounded, ROUNDSZ
  <2>6. Words' = Rounded(sz)
    BY <2>1, <2>4 DEF Words
  <2>7. Words' \in Nat /\ bufsz' \in Nat /\ bufsz' = Words' * HEADERSZ /\ Filled(k, mbf_head', Words', off)
    <3>. HIDE DEF Words
    <3>. QED  BY <2>1, <2>4, <2>5, <2>6
  <2>. HIDE DEF Words
  <2>. QED  BY <1>0, <1>e, <2>1, <2>3, <2>7, MbfFilled
<1>2. CASE DelMbf
  <2>1. /\ objid' = FALSE /\ recv_queue' = <<>> /\ winfo' = [t \in Tasks |-> NULL]
        /\ UNCHANGED <<bufsz, frbufsz, mbf_head, mbf_tail, buffer, accepted>>
    BY <1>2 DEF DelMbf
  <2>2. wait_queue' = <<>> /\ winfo' \in [Tasks -> MbfMsgs \cup {NULL}]
    BY <2>1 DEF GcbOK
  <2>. QED  BY <1>e, <2>1, <2>2, MbfKept
<1>3. ASSUME NEW m \in MbfMsgs, SndMbfIndp(m)
      PROVE  MbfOK'
  BY <1>3, MbfGiven, MbfStored DEF SndMbfIndp
<1>4. ASSUME NEW m \in MbfMsgs, NEW t \in Tasks, SndMbf(t, m)
      PROVE  MbfOK'
  <2>1. state[t] = "READY" /\ objid /\ ~is_diswai(t) /\ UNCHANGED gcb
    BY <1>4 DEF SndMbf
  <2>2. CASE snd_to_receiver(m)
    BY <2>1, <2>2, MbfGiven
  <2>3. CASE snd_to_ring(m, {t})
    BY <2>1, <2>3, MbfStored
  <2>4. CASE /\ recv_queue = <<>> /\ ~(may_send(t) /\ mbf_free(Ring, m)) /\ hook_make_wait(t, m)
             /\ UNCHANGED <<bufsz, frbufsz, mbf_head, mbf_tail, buffer, recv_queue, accepted>>
    <3>. HIDE DEF mbf_free, may_send
    <3>. QED  BY <2>1, <2>4, MbfWaits
  <2>. HIDE DEF mbf_free, may_send
  <2>. QED  BY <1>4, <2>2, <2>3, <2>4 DEF SndMbf
<1>5. ASSUME NEW t \in Tasks, RcvMbf(t)
      PROVE  MbfOK'
  <2>1. objid /\ UNCHANGED gcb
    BY <1>5 DEF RcvMbf
  <2>2. CASE rcv_from_ring
    BY <2>1, <2>2, MbfRead
  <2>3. CASE rcv_from_sender
    BY <2>1, <2>3, MbfTaken
  <2>4. CASE /\ mbf_empty /\ isQueEmpty(wait_queue) /\ recv_queue' = QueInsert(recv_queue, t)
             /\ UNCHANGED <<wait_queue, winfo, bufsz, frbufsz, mbf_head, mbf_tail, buffer, accepted>>
    <3>1. wait_queue = <<>> /\ accepted = <<>>
      BY <2>1, <2>4, MbfFacts DEF isQueEmpty
    <3>2. recv_queue' \in Seq(Tasks)
      BY <1>0, <2>4, QueInsertProperties
    <3>3. PICK k : k = Ring
      OBVIOUS
    <3>4. PICK off : Filled(k, mbf_head, Words, off)
      BY <2>1, <3>3, MbfFacts
    <3>5. /\ frbufsz' = k.free /\ mbf_tail' = k.tail /\ buffer' = k.buf /\ accepted' = k.acc /\ k.acc = <<>>
      BY <2>4, <3>1, <3>3, RingOf
    <3>6. Words' \in Nat /\ bufsz' \in Nat /\ bufsz' = Words' * HEADERSZ /\ Filled(k, mbf_head', Words', off)
      <4>1. Words \in Nat /\ bufsz \in Nat /\ bufsz = Words * HEADERSZ
        BY <2>1, MbfFacts
      <4>2. Words' = Words
        BY <2>4 DEF Words
      <4>. HIDE DEF Words
      <4>. QED  BY <2>4, <3>4, <4>1, <4>2
    <3>7. wait_queue' = <<>> /\ winfo' \in [Tasks -> MbfMsgs \cup {NULL}]
      BY <1>0, <2>4, <3>1
    <3>. HIDE DEF Words, mbf_free
    <3>. QED  BY <1>e, <3>2, <3>5, <3>6, <3>7, MbfFilled
  <2>. QED  BY <1>5, <2>2, <2>3, <2>4 DEF RcvMbf
<1>6. ASSUME NEW t \in Tasks, RecvLeave(t)
      PROVE  MbfOK'
  <2>1. /\ state[t] = "RECV" /\ recv_queue' = QueRemove(recv_queue, t) /\ objid' = objid
        /\ UNCHANGED <<wait_queue, winfo, bufsz, frbufsz, mbf_head, mbf_tail, buffer, accepted>>
    BY <1>6 DEF RecvLeave, gcb
  <2>2. recv_queue' \in Seq(Tasks) /\ recv_queue # <<>>
    <3>1. recv_queue' \in Seq(Tasks)
      BY <2>1, QueRemoveProperties DEF RecvOK
    <3>2. t \in ToSet(recv_queue)
      BY <2>1 DEF RecvOK
    <3>. QED  BY <1>e, <3>1, <3>2
  <2>3. wait_queue' = <<>> \/ (wait_queue # <<>> /\ Head(wait_queue') = Head(wait_queue))
    BY <2>1
  <2>. QED  BY <1>0, <2>1, <2>2, <2>3, MbfKept
<1>7. ASSUME NEW t \in Tasks, HookedLeave(t, mbf_chg_pri)
      PROVE  MbfOK'
  <2>. HIDE DEF mbf_chg_pri
  <2>. QED  BY <1>7, MbfLeft
<1>8. ASSUME NEW t \in Tasks, HookedQuiet(t),
             UNCHANGED <<bufsz, frbufsz, mbf_head, mbf_tail, buffer, recv_queue, accepted>>
      PROVE  MbfOK'
  <2>1. /\ UNCHANGED <<objid, objatr>> /\ winfo' = winfo
        /\ wait_queue' \in Seq(Tasks) /\ ToSet(wait_queue') = ToSet(wait_queue)
        /\ wait_queue' = <<>> \/ (wait_queue # <<>> /\ Head(wait_queue') = Head(wait_queue))
    BY <1>8, QuietQueue
  <2>2. winfo' \in [Tasks -> MbfMsgs \cup {NULL}] /\ (objid' => objid) /\ recv_queue' \in Seq(Tasks)
        /\ \A u \in ToSet(wait_queue') : u \in ToSet(wait_queue) /\ winfo'[u] = winfo[u]
    BY <1>0, <1>8, <2>1
  <2>. QED  BY <1>8, <2>1, <2>2, MbfKept
<1>. HIDE DEF mbf_chg_pri
<1>. QED  BY <1>1, <1>2, <1>3, <1>4, <1>5, <1>6, <1>7, <1>8 DEF MbfNext

\* taken counts what the offsets of the messages do.
LEMMA TakenIs ==
  ASSUME NEW off, Offsets(off, accepted), accepted \in Seq(MbfMsgs)
  PROVE  \A j \in 0..Len(accepted) : taken[j] = off[j]
<1>. DEFINE N == Len(accepted)
            F(f, j) == IF j = 0 THEN 0 ELSE f[j - 1] + 1 + Rounded(MsgSz[accepted[j]])
            P == {j \in Nat : j <= N => taken[j] = off[j]}
<1>1. N \in Nat /\ off \in [0..N -> Nat] /\ off[0] = 0
      /\ \A j \in 1..N : off[j] = off[j - 1] + 1 + Rounded(MsgSz[accepted[j]])
  BY LenProperties DEF Offsets
<1>. HIDE DEF N
<1>2. off = [j \in 0..N |-> F(off, j)]
  <2>1. \A j \in 0..N : off[j] = F(off, j)
    <3>1. \A j \in 0..N : j = 0 \/ j \in 1..N
      BY <1>1
    <3>. QED  BY <1>1, <3>1
  <2>2. off = [j \in 0..N |-> off[j]]
    BY <1>1
  <2>. HIDE DEF F
  <2>. QED  BY <2>1, <2>2
<1>3. taken = CHOOSE f : f = [j \in 0..N |-> IF j = 0 THEN 0 ELSE f[j - 1] + 1 + Rounded(MsgSz[accepted[j]])]
  BY DEF taken, N
<1>4. taken = [j \in 0..N |-> IF j = 0 THEN 0 ELSE taken[j - 1] + 1 + Rounded(MsgSz[accepted[j]])]
  BY <1>2, <1>3
<1>. HIDE DEF Rounded
<1>5. 0 \in P
  <2>1. 0 \in 0..N
    BY <1>1
  <2>2. taken[0] = 0
    BY <1>4, <2>1
  <2>. QED  BY <1>1, <2>2
<1>6. ASSUME NEW j \in Nat, j \in P  PROVE j + 1 \in P
  <2>. SUFFICES ASSUME j + 1 <= N  PROVE taken[j + 1] = off[j + 1]
    OBVIOUS
  <2>1. j + 1 \in 0..N /\ j + 1 \in 1..N /\ j + 1 # 0 /\ j + 1 - 1 = j /\ taken[j] = off[j]
    BY <1>1, <1>6
  <2>2. taken[j + 1] = taken[j + 1 - 1] + 1 + Rounded(MsgSz[accepted[j + 1]])
    <3>1. PICK z \in 0..N : z = j + 1
      BY <2>1
    <3>2. taken[z] = taken[z - 1] + 1 + Rounded(MsgSz[accepted[z]])
      BY <1>4, <2>1, <3>1
    <3>. QED  BY <3>1, <3>2
  <2>3. off[j + 1] = off[j + 1 - 1] + 1 + Rounded(MsgSz[accepted[j + 1]])
    BY <1>1, <2>1
  <2>. QED  BY <2>1, <2>2, <2>3
<1>. HIDE DEF P
<1>7. Nat \subseteq P
  BY <1>5, <1>6, SetInduction
<1>. QED  BY <1>1, <1>7 DEF P, N

\* A receiver will find what was accepted.
LEMMA MbfExact ==
  ASSUME MbfOK
  PROVE  RingExact
<1>. SUFFICES ASSUME objid  PROVE RingExact
  BY DEF RingExact
<1>1. PICK k : k = Ring
  OBVIOUS
<1>2. PICK off : Filled(k, mbf_head, Words, off)
  BY <1>1, MbfFacts
<1>3. PICK W \in Nat : W = Words
  BY MbfFacts
<1>4. k.free = frbufsz /\ k.tail = mbf_tail /\ k.buf = buffer /\ k.acc = accepted
  BY <1>1, RingOf
<1>5. Filled(k, mbf_head, W, off) /\ bufsz = W * HEADERSZ
  BY <1>2, <1>3, MbfFacts
<1>6. /\ accepted \in Seq(MbfMsgs) /\ Offsets(off, accepted)
      /\ off[Len(accepted)] <= W /\ frbufsz = (W - off[Len(accepted)]) * HEADERSZ
      /\ W > 0 => mbf_tail = (mbf_head + off[Len(accepted)]) % W
      /\ \A j \in 1..Len(accepted) : \A i \in 0..Rounded(MsgSz[accepted[j]]) :
           buffer[(mbf_head + off[j - 1] + i) % W] = word(accepted[j], i)
  BY <1>4, <1>5 DEF Filled
<1>7. Len(accepted) \in Nat /\ \A j \in 0..Len(accepted) : taken[j] = off[j] /\ off[j] \in Nat
  <2>1. Len(accepted) \in Nat /\ \A j \in 0..Len(accepted) : off[j] \in Nat
    BY <1>6, LenProperties DEF Offsets
  <2>. QED  BY <1>6, <2>1, TakenIs
<1>8. \A j \in 1..Len(accepted) : j - 1 \in 0..Len(accepted)
  BY <1>7
<1>9. Len(accepted) \in 0..Len(accepted)
  BY <1>7
<1>10. frbufsz = bufsz - taken[Len(accepted)] * HEADERSZ /\ (bufsz > 0 => W > 0)
  <2>1. PICK u \in Nat : u = off[Len(accepted)] /\ u = taken[Len(accepted)]
    BY <1>7, <1>9
  <2>2. PICK H \in Nat \ {0} : H = HEADERSZ
    BY BufferAssumption
  <2>3. frbufsz = (W - u) * H /\ bufsz = W * H
    BY <1>5, <1>6, <2>1, <2>2
  <2>4. (W - u) * H = W * H - u * H /\ (W = 0 => W * H = 0)
    OBVIOUS
  <2>. QED  BY <2>1, <2>2, <2>3, <2>4
<1>11. bufsz > 0 => mbf_tail = At(mbf_head + taken[Len(accepted)])
  BY <1>3, <1>6, <1>7, <1>9, <1>10 DEF At
<1>12. ASSUME NEW j \in 1..Len(accepted), NEW i \in 0..Rounded(MsgSz[accepted[j]])
       PROVE  buffer[At(mbf_head + taken[j - 1] + i)] = word(accepted[j], i)
  <2>1. taken[j - 1] = off[j - 1]
    BY <1>7, <1>8
  <2>. HIDE DEF Rounded, word
  <2>. QED  BY <1>3, <1>6, <2>1 DEF At
<1>. HIDE DEF taken, At, word, Rounded
<1>. QED  BY <1>10, <1>11, <1>12 DEF RingExact

\* The members in front of the queue are served, whatever became of the rest.
LEMMA MembersInTurn ==
  ASSUME GcbOK, FirstServed(wait_queue, gets'), ToSet(wait_queue') = ToSet(wait_queue) \ gets',
         UNCHANGED priority
  PROVE  InOrder
<1>0. /\ wait_queue \in Seq(Tasks) /\ IsInjective(wait_queue) /\ priority \in [Tasks -> Int]
      /\ objatr.tpri => Sorted(wait_queue, priority)
      /\ Len(wait_queue) \in Nat
  BY PriNumbers, LenProperties DEF GcbOK, Current, Exact
<1>. SUFFICES ASSUME NEW t \in gets', NEW u \in ToSet(wait_queue) \cap ToSet(wait_queue')
              PROVE  IF objatr.tpri THEN ~(priority'[u] < priority'[t])
                     ELSE t \in ToSet(wait_queue) /\ PositionOf(wait_queue, t) < PositionOf(wait_queue, u)
  BY DEF InOrder
<1>1. t \in ToSet(wait_queue) /\ u \in ToSet(wait_queue) /\ u \notin gets'
  BY DEF FirstServed
<1>2. PICK i \in 1..Len(wait_queue) : wait_queue[i] = t
  BY <1>0, <1>1, MemberPosition
<1>3. PICK j \in 1..Len(wait_queue) : wait_queue[j] = u
  BY <1>0, <1>1, MemberPosition
<1>4. i < j
  BY <1>1, <1>2, <1>3 DEF FirstServed
<1>5. PositionOf(wait_queue, t) = i /\ PositionOf(wait_queue, u) = j
  BY <1>0, <1>2, <1>3, PlaceOf
<1>6. objatr.tpri => priority[t] <= priority[u]
  BY <1>0, <1>2, <1>3, <1>4 DEF Sorted
<1>7. priority[t] \in Int /\ priority[u] \in Int
  BY <1>0, <1>2, <1>3, ElementOfSeq
<1>. QED  BY <1>1, <1>4, <1>5, <1>6, <1>7

\* The message buffer: a receiver gets the oldest message, senders their turn in order.
LEMMA MbfInTurn ==
  ASSUME MbfOK, GcbOK, RecvOK, MbfNext
  PROVE  MessagesInOrder
<1>0. /\ wait_queue \in Seq(Tasks)
      /\ \A u \in Tasks : u \in ToSet(wait_queue) <=> state[u] = "WAIT"
  BY DEF GcbOK, Current, Exact
<1>n. ASSUME rcvd' = NULL, InOrder  PROVE MessagesInOrder
  BY <1>n DEF MessagesInOrder
<1>g. ASSUME NEW m, snd_to_receiver(m), objid, UNCHANGED gcb
      PROVE  MessagesInOrder
  <2>1. accepted = <<>> /\ wait_queue = <<>>
    BY <1>g, MbfGiven
  <2>2. InOrder
    BY <2>1 DEF InOrder, ToSet
  <2>. QED  BY <2>1, <2>2 DEF MessagesInOrder
<1>1. ASSUME NEW atr \in Attributes, NEW sz \in BufSizes, CreMbf(atr, sz)
      PROVE  MessagesInOrder
  BY <1>1, <1>n, NobodyInTurn DEF CreMbf
<1>2. CASE DelMbf
  BY <1>2, <1>n, NobodyInTurn DEF DelMbf
<1>3. ASSUME NEW m \in MbfMsgs, SndMbfIndp(m)
      PROVE  MessagesInOrder
  <2>1. CASE snd_to_ring(m, {})
    BY <1>n, <2>1, NobodyInTurn DEF snd_to_ring
  <2>. QED  BY <1>3, <1>g, <2>1 DEF SndMbfIndp
<1>4. ASSUME NEW m \in MbfMsgs, NEW t \in Tasks, SndMbf(t, m)
      PROVE  MessagesInOrder
  <2>1. state[t] = "READY" /\ objid /\ UNCHANGED <<gcb, priority>> /\ t \notin ToSet(wait_queue)
    BY <1>0, <1>4 DEF SndMbf
  <2>2. CASE snd_to_receiver(m)
    BY <1>g, <2>1, <2>2
  <2>3. CASE may_send(t) /\ snd_to_ring(m, {t})
    <3>1. rcvd' = NULL /\ gets' = {t} /\ UNCHANGED wait_queue
      BY <2>3 DEF snd_to_ring
    <3>. QED  BY <1>n, <2>1, <2>3, <3>1, TopInTurn DEF may_send
  <2>4. CASE rcvd' = NULL /\ hook_make_wait(t, m)
    BY <1>n, <2>4, NobodyInTurn DEF hook_make_wait
  <2>. QED  BY <1>4, <2>2, <2>3, <2>4 DEF SndMbf
<1>5. ASSUME NEW t \in Tasks, RcvMbf(t)
      PROVE  MessagesInOrder
  <2>1. objid /\ UNCHANGED priority
    BY <1>5 DEF RcvMbf
  <2>2. CASE rcv_from_ring
    <3>1. /\ accepted # <<>> /\ rcvd' = Head(accepted)
          /\ FirstServed(wait_queue, gets') /\ wait_queue' = Without(wait_queue, gets')
      BY <2>1, <2>2, MbfRead
    <3>2. InOrder
      BY <2>1, <3>1, ServedInTurn
    <3>. QED  BY <3>1, <3>2 DEF MessagesInOrder
  <2>3. CASE rcv_from_sender
    <3>1. /\ accepted = <<>> /\ wait_queue # <<>> /\ rcvd' = winfo[Head(wait_queue)]
          /\ FirstServed(wait_queue, gets') /\ ToSet(wait_queue') = ToSet(wait_queue) \ gets'
      BY <2>1, <2>3, MbfTaken
    <3>2. InOrder
      BY <2>1, <3>1, MembersInTurn
    <3>. QED  BY <3>1, <3>2 DEF MessagesInOrder
  <2>4. CASE rcvd' = NULL /\ gets' = {}
    BY <1>n, <2>4, NobodyInTurn
  <2>. QED  BY <1>5, <2>2, <2>3, <2>4 DEF RcvMbf
<1>6. ASSUME NEW t \in Tasks, RecvLeave(t)
      PROVE  MessagesInOrder
  BY <1>6, <1>n, NobodyInTurn DEF RecvLeave
<1>7. ASSUME NEW t \in Tasks, HookedLeave(t, mbf_chg_pri)
      PROVE  MessagesInOrder
  <2>1. rcvd' = NULL
    <3>1. \A q : mbf_chg_pri(q) => rcvd' = NULL
      BY DEF mbf_chg_pri
    <3>. HIDE DEF mbf_chg_pri
    <3>. QED  BY <1>7, <3>1 DEF HookedLeave, leave
  <2>2. InOrder
    <3>. HIDE DEF mbf_chg_pri
    <3>. QED  BY <1>7, MbfLeft, LeaveInTurn
  <2>. QED  BY <1>n, <2>1, <2>2
<1>8. ASSUME NEW t \in Tasks, HookedQuiet(t), rcvd' = NULL
      PROVE  MessagesInOrder
  BY <1>8, <1>n, NobodyInTurn DEF HookedQuiet
<1>. HIDE DEF mbf_chg_pri
<1>. QED  BY <1>1, <1>2, <1>3, <1>4, <1>5, <1>6, <1>7, <1>8 DEF MbfNext

-----------------------------------------------------------------------------
(* All of them.                                                            *)

\* The inductive invariant: what each kind of object needs, above ObjInv.
ServInv == /\ ObjInv
           /\ kind = "flg" => FlgOK
           /\ kind = "mbx" => MbxOK
           /\ kind = "mpf" => MpfOK
           /\ kind = "sem" => SemOK
           /\ kind = "mbf" => MbfOK
           /\ kind = "mpl" => MplOK
           /\ kind = "por" => NoneMeet(rtcb)

\* Objects that nobody has created.
LEMMA ServInitial ==
  ASSUME Init
  PROVE  ServInv
<1>0. wait_queue = <<>> /\ objid = FALSE /\ ToSet(<<>>) = {}
  BY DEF Init, GcbInit, ToSet
<1>1. FlgOK
  <2>1. flgptn = {} /\ wmul = FALSE /\ waiflg = [t \in Tasks |-> NoWait] /\ given = <<>>
    BY DEF Init, FlgInit
  <2>2. NoWait \in [waiptn : SUBSET Bits, wfmode : WfMode]
    BY DEF NoWait, WfMode
  <2>3. FlgTypeOK
    BY <2>1, <2>2 DEF FlgTypeOK
  <2>4. Once(given, flgptn)
    BY <2>1 DEF Once
  <2>5. \A t \in ToSet(wait_queue) : Unmet(t, flgptn)
    BY <1>0
  <2>. QED  BY <2>3, <2>4, <2>5 DEF FlgOK
<1>2. MbxOK
  <2>1. mpri = FALSE /\ head = NULL /\ mq_tail = NULL /\ next = [m \in Msgs |-> NULL] /\ pending = <<>>
    BY DEF Init, MbxInit
  <2>2. MbxTypeOK
    <3>1. <<>> \in Seq(Msgs) /\ next \in [Msgs -> Msgs \cup {NULL}]
      BY <2>1
    <3>. QED  BY <2>1, <3>1 DEF MbxTypeOK
  <2>3. NobodyWaitsForMessage
    BY <1>0 DEF NobodyWaitsForMessage
  <2>. QED  BY <1>0, <2>2, <2>3 DEF MbxOK
<1>3. MpfOK
  <2>1. mpfcnt = 0 /\ frbcnt = 0 /\ unused = 0 /\ freelist = <<>> /\ lock = NULL /\ blf = NULL /\ held = {}
    BY DEF Init, MpfInit
  <2>. QED  BY <1>0, <2>1, PoolAssumption DEF MpfOK, MpfTypeOK, PoolExact, NobodyWaitsForBlock
<1>4. SemOK
  <2>1. ta_cnt = FALSE /\ semcnt = 0 /\ maxsem = 0 /\ out = 0 /\ winfo = [t \in Tasks |-> NULL]
    BY DEF Init, SemInit, HookInit
  <2>2. SemTypeOK
    <3>1. 0 \in 0..MaxSem /\ 0 \in 0..0
      BY SemaphoreAssumption
    <3>2. maxsem \in 0..MaxSem /\ semcnt \in 0..maxsem
      BY <2>1, <3>1
    <3>3. ta_cnt \in BOOLEAN
      BY <2>1
    <3>4. winfo \in [Tasks -> (0..MaxSem) \cup {NULL}]
      BY <2>1
    <3>. QED  BY <3>2, <3>3, <3>4 DEF SemTypeOK
  <2>3. out \in Int /\ CountsConserved
    BY <1>0, <2>1 DEF CountsConserved
  <2>4. Unserved(wait_queue, winfo, semcnt)
    BY <1>0, <2>1 DEF Unserved
  <2>5. \A t \in ToSet(wait_queue) : winfo[t] \in Nat \ {0}
    BY <1>0
  <2>. QED  BY <2>2, <2>3, <2>4, <2>5 DEF SemOK
<1>5. NoneMeet(rtcb)
  BY DEF Init, PorInit, NoneMeet
<1>6. MbfOK
  <2>1. /\ bufsz = 0 /\ frbufsz = 0 /\ mbf_head = 0 /\ mbf_tail = 0 /\ recv_queue = <<>>
        /\ winfo = [t \in Tasks |-> NULL]
    BY DEF Init, MbfInit, HookInit
  <2>2. Words = 0 /\ HEADERSZ \in Nat
    BY <2>1, BufferAssumption DEF Words
  <2>3. MbfTypeOK
    BY <2>1, <2>2 DEF MbfTypeOK
  <2>4. NobodyWaitsForBuffer
    BY <1>0, <2>1 DEF NobodyWaitsForBuffer
  <2>5. Words \in Nat /\ bufsz = Words * HEADERSZ
    BY <2>1, <2>2
  <2>. QED  BY <1>0, <2>3, <2>4, <2>5 DEF MbfOK
<1>7. MplOK
  <2>1. /\ mplsz = 0 /\ areaque = <<>> /\ area_use = {} /\ freeque = <<>> /\ blocks = {}
        /\ winfo = [t \in Tasks |-> NULL]
    BY DEF Init, MplInit, HookInit
  <2>2. MplTypeOK
    BY <1>0, <2>1 DEF MplTypeOK
  <2>. QED  BY <1>0, <2>2 DEF MplOK
<1>. QED  BY <1>1, <1>2, <1>3, <1>4, <1>5, <1>6, <1>7, ObjInitial DEF ServInv

\* Every step.
LEMMA ServStep ==
  ASSUME ServInv, [Next]_vars
  PROVE  ServInv'
<1>0. ObjInv /\ ObjInv' /\ GcbOK /\ GcbOK' /\ PorOK /\ Numbered
  BY ObjStep DEF ServInv, ObjInv, RdvOK
<1>1. CASE UNCHANGED vars
  <2>1. UNCHANGED <<kind, gcb, tasks, hook, flg, mbx, mpf, call, sem, mbf, mpl, rtcb>>
    BY <1>1 DEF vars, hookless, hooked, por
  <2>2. FlgOK => FlgOK'
    BY <2>1 DEF FlgOK, FlgTypeOK, Once, Unmet, flg, tasks
  <2>3. MbxOK => MbxOK'
    BY <2>1 DEF MbxOK, MbxTypeOK, NobodyWaitsForMessage, tasks, mbx, gcb
  <2>4. MpfOK => MpfOK'
    BY <2>1 DEF MpfOK, MpfTypeOK, PoolExact, NobodyWaitsForBlock, mpf, call, tasks, gcb
  <2>5. SemOK => SemOK'
    BY <2>1 DEF SemOK, SemTypeOK, CountsConserved, Unserved, sem, hook, tasks, gcb
  <2>6. NoneMeet(rtcb) => NoneMeet(rtcb)'
    BY <2>1 DEF NoneMeet
  <2>7. MbfOK => MbfOK'
    <3>1. UNCHANGED <<bufsz, frbufsz, mbf_head, mbf_tail, buffer, recv_queue, accepted, winfo, wait_queue, objid>>
      BY <2>1 DEF mbf, hook, tasks, gcb
    <3>2. UNCHANGED Ring /\ UNCHANGED Words
      BY <3>1 DEF Ring, Words
    <3>. QED  BY <3>1, <3>2 DEF MbfOK, MbfTypeOK, NobodyWaitsForBuffer
  <2>8. MplOK => MplOK'
    <3>1. UNCHANGED <<mplsz, areaque, area_use, freeque, blocks, winfo, wait_queue, objid>>
      BY <2>1 DEF mpl, hook, tasks, gcb
    <3>2. UNCHANGED Pool
      BY <3>1 DEF Pool
    <3>. QED  BY <3>1, <3>2 DEF MplOK, MplTypeOK
  <2>. QED  BY <1>0, <2>1, <2>2, <2>3, <2>4, <2>5, <2>6, <2>7, <2>8 DEF ServInv
<1>2. CASE Next
  <2>0. UNCHANGED kind
    BY <1>2 DEF Next
  <2>1. CASE kind = "flg" /\ FlgNext
    BY <1>0, <2>0, <2>1, FlgServed DEF ServInv
  <2>2. CASE kind = "mbx" /\ MbxNext
    BY <1>0, <2>0, <2>2, MbxListed DEF ServInv
  <2>3. CASE kind = "mpf" /\ MpfNext
    BY <1>0, <2>0, <2>3, MpfServed DEF ServInv, ObjInv
  <2>4. CASE kind = "sem" /\ SemNext
    BY <1>0, <2>0, <2>4, SemServed DEF ServInv
  <2>5. CASE kind = "por" /\ PorNext
    BY <1>0, <2>0, <2>5, PorMeet DEF ServInv
  <2>6. CASE kind = "mbf" /\ MbfNext
    BY <1>0, <2>0, <2>6, MbfServed DEF ServInv, ObjInv
  <2>7. CASE kind = "mpl" /\ MplNext
    BY <1>0, <2>0, <2>7, MplServed DEF ServInv
  <2>. QED  BY <1>2, <2>1, <2>2, <2>3, <2>4, <2>5, <2>6, <2>7 DEF Next, HooklessNext, HookedNext
<1>. QED  BY <1>1, <1>2

\* The invariant, for every kind of object.
THEOREM ServedInvariant == Spec => []ServInv
<1>1. Init => ServInv
  BY ServInitial
<1>2. ServInv /\ [Next]_vars => ServInv'
  BY ServStep
<1>. QED  BY <1>1, <1>2, PTL DEF Spec

\* Every variable keeps its type, for any tasks, priorities and sizes, and with it
\* the bounds of the counts: a semaphore stays within 0..maxsem, the free bytes of a
\* message buffer within its size, its head and tail within the ring (tk_sig_sem,
\* msg_to_mbf, mbf_to_msg).
THEOREM TypesKept == Spec => []TypeOK
<1>1. ServInv => TypeOK
  <2>1. SUFFICES ASSUME ServInv  PROVE TypeOK
    OBVIOUS
  <2>2. GcbTypeOK
    BY <2>1, GcbExact DEF ServInv, ObjInv
  <2>. QED  BY <2>1, <2>2 DEF ServInv, TypeOK, FlgOK, MbxOK, MpfOK, SemOK, MbfOK, MplOK
<1>. QED  BY <1>1, ServedInvariant, PTL

\* No lost wakeup, for any tasks, priorities, counts and sizes: after a signal, a
\* message, a block, a call, and after a task in front gave up, was terminated or
\* changed its priority, nobody waits for an object who could be served (the loops
\* of tk_set_flg, tk_sig_sem and sem_chg_pri, tk_snd_mbx, tk_rel_mpf, mbf_wakeup,
\* mpl_wakeup, the searches of rendezvous.c).
THEOREM NobodyLeftWaiting == Spec => []NobodyServable
<1>1. ServInv => NobodyServable
  <2>1. SUFFICES ASSUME ServInv  PROVE NobodyServable
    OBVIOUS
  <2>2. ObjInv /\ GcbOK /\ PorOK
    BY <2>1 DEF ServInv, ObjInv
  <2>3. kind = "flg" => NobodyMet
    BY <2>1, FlgExact DEF ServInv
  <2>4. kind = "mbx" => NobodyWaitsForMessage
    BY <2>1 DEF ServInv, MbxOK
  <2>5. kind = "mpf" => NobodyWaitsForBlock
    BY <2>1 DEF ServInv, MpfOK
  <2>6. kind = "sem" => NobodyWaitsForCounts
    BY <2>1, <2>2, SemExact DEF ServInv
  <2>7. kind = "mbf" => NobodyWaitsForBuffer
    BY <2>1 DEF ServInv, MbfOK
  <2>8. kind = "mpl" => NobodyWaitsForArea
    BY <2>1, <2>2, MplUnfit DEF ServInv
  <2>9. kind = "por" => NobodyCouldMeet
    BY <2>1, <2>2, NoneMeetQueues DEF ServInv
  <2>. QED  BY <2>3, <2>4, <2>5, <2>6, <2>7, <2>8, <2>9 DEF NobodyServable
<1>. QED  BY <1>1, ServedInvariant, PTL

\* Nothing is lost or given twice, for any tasks and sizes, whichever path released
\* the tasks: the events of a flag (TWF_CLR, TWF_BITCLR in the loop of tk_set_flg),
\* the messages of a mailbox between its links, those in the ring of a message buffer
\* wherever they wrap, the counts of a semaphore, the blocks of a fixed-size pool
\* between its free list, its unused area and the tasks, and the area of a
\* variable-size pool, tiled by its pieces and with no free ones side by side.
THEOREM NothingLost == Spec => []Conserved
<1>1. ServInv => Conserved
  <2>1. SUFFICES ASSUME ServInv  PROVE Conserved
    OBVIOUS
  <2>2. ObjInv /\ GcbOK
    BY <2>1 DEF ServInv, ObjInv
  <2>3. kind = "flg" => EachEventOnce
    BY <2>1, FlgExact DEF ServInv
  <2>4. kind = "mbx" => ListExact
    BY <2>1, MbxExact DEF ServInv
  <2>5. kind = "mpf" => PoolExact
    BY <2>1 DEF ServInv, MpfOK
  <2>6. kind = "sem" => CountsConserved
    BY <2>1, <2>2, SemExact DEF ServInv
  <2>7. kind = "mbf" => RingExact
    BY <2>1, MbfExact DEF ServInv
  <2>8. kind = "mpl" => AreaExact
    BY <2>1, MplExact DEF ServInv
  <2>. QED  BY <2>3, <2>4, <2>5, <2>6, <2>7, <2>8 DEF Conserved
<1>. QED  BY <1>1, ServedInvariant, PTL

\* Nobody overtakes: who is served at a semaphore without TA_CNT, a message buffer or
\* a variable-size pool, by a signal, by room or a block that comes back or because a
\* task in front left or moved, stands in front of all who go on waiting, by arrival
\* or with TA_TPRI by the priorities of the moment (tk_sig_sem, sem_chg_pri,
\* mbf_wakeup, mpl_wakeup, gcb_top_of_wait_queue); and messages are received in the
\* order in which they were accepted (mbf_to_msg).
THEOREM NobodyOvertakes == Spec => NoOvertaking
<1>1. ServInv /\ [Next]_vars =>
        [ /\ kind = "sem" => CountsInOrder
          /\ kind = "mbf" => MessagesInOrder
          /\ kind = "mpl" => InOrder ]_vars
  <2>1. SUFFICES ASSUME ServInv, Next
                 PROVE  /\ kind = "sem" => CountsInOrder
                        /\ kind = "mbf" => MessagesInOrder
                        /\ kind = "mpl" => InOrder
    OBVIOUS
  <2>2. GcbOK
    BY <2>1 DEF ServInv, ObjInv
  <2>3. ASSUME kind = "sem"  PROVE CountsInOrder
    <3>1. SemNext /\ SemOK
      BY <2>1, <2>3 DEF Next, HooklessNext, HookedNext, ServInv
    <3>. QED  BY <2>2, <3>1, SemInTurn
  <2>4. ASSUME kind = "mbf"  PROVE MessagesInOrder
    <3>1. MbfNext /\ MbfOK /\ RecvOK
      BY <2>1, <2>4 DEF Next, HooklessNext, HookedNext, ServInv, ObjInv
    <3>. QED  BY <2>2, <3>1, MbfInTurn
  <2>5. ASSUME kind = "mpl"  PROVE InOrder
    <3>1. MplNext
      BY <2>1, <2>5 DEF Next, HooklessNext, HookedNext
    <3>. QED  BY <2>2, <3>1, MplInTurn
  <2>. QED  BY <2>3, <2>4, <2>5
<1>. QED  BY <1>1, ServedInvariant, PTL DEF Spec, NoOvertaking

=============================================================================
