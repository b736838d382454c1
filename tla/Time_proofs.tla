---------------------------- MODULE Time_proofs ----------------------------
(***************************************************************************)
(* The timers under their users: the timer queue is exact and in order,    *)
(* nobody waits in vain, the handlers stay in their cycles and nothing is  *)
(* called before its time, for any number of tasks and handlers.           *)
(***************************************************************************)
EXTENDS MCTime, Queue_proofs

-----------------------------------------------------------------------------
(* Arithmetic of cycles.                                                   *)

\* x is a multiple of n.
Multiple(x, n) == \E k \in Int : x = k * n

\* The remainder is in its range and differs from x by a multiple of n.
LEMMA Remainder ==
  ASSUME NEW x \in Int, NEW n \in Nat \ {0}
  PROVE  x % n \in 0 .. n - 1 /\ Multiple(x - (x % n), n)
<1>1. x % n \in 0 .. n - 1 /\ x = n * (x \div n) + (x % n) /\ x \div n \in Int
  OBVIOUS
<1>2. x - (x % n) = (x \div n) * n
  <2>. DEFINE d == x \div n
              r == x % n
  <2>1. d \in Int /\ r \in Int /\ x = n * d + r
    BY <1>1
  <2>. HIDE DEF d, r
  <2>2. x - r = d * n
    BY <2>1
  <2>. QED  BY <2>2 DEF d, r
<1>. QED  BY <1>1, <1>2 DEF Multiple

\* A multiple leaves no remainder.
LEMMA NoRemainder ==
  ASSUME NEW x \in Int, NEW n \in Nat \ {0}, Multiple(x, n)
  PROVE  x % n = 0
<1>1. PICK k \in Int : x = k * n
  BY DEF Multiple
<1>. DEFINE r == x % n
<1>2. r \in 0 .. n - 1 /\ Multiple(x - r, n)
  BY Remainder
<1>3. PICK d \in Int : x - r = d * n
  BY <1>2 DEF Multiple
<1>. HIDE DEF r
<1>4. r = (k - d) * n
  BY <1>1, <1>2, <1>3
<1>5. CASE k - d <= 0
  <2>1. (k - d) * n <= 0
    BY <1>5
  <2>. QED  BY <1>2, <1>4, <2>1 DEF r
<1>6. CASE k - d >= 1
  <2>1. (k - d) * n >= n
    BY <1>6
  <2>. QED  BY <1>2, <1>4, <2>1 DEF r
<1>. QED  BY <1>5, <1>6

\* Multiples are closed under addition and subtraction.
LEMMA MultipleSum ==
  ASSUME NEW x \in Int, NEW y \in Int, NEW n \in Nat, Multiple(x, n), Multiple(y, n)
  PROVE  Multiple(x + y, n) /\ Multiple(x - y, n) /\ Multiple(n, n) /\ Multiple(0, n)
<1>1. PICK k \in Int : x = k * n
  BY DEF Multiple
<1>2. PICK m \in Int : y = m * n
  BY DEF Multiple
<1>3. x + y = (k + m) * n /\ x - y = (k - m) * n /\ n = 1 * n /\ 0 = 0 * n
  BY <1>1, <1>2
<1>4. k + m \in Int /\ k - m \in Int /\ 1 \in Int /\ 0 \in Int
  OBVIOUS
<1>. QED  BY <1>3, <1>4 DEF Multiple

\* cyc_next_time stays in the cycle, is later than now, and is at most one cycle
\* away from the time it starts with.
LEMMA NextTime ==
  ASSUME NEW c, NEW tm \in Int, NEW tim \in Nat \ {0}
  PROVE  LET r == cyc_next_time(c, tm, tim)
         IN  r \in Int /\ r > 0 /\ Multiple(r - tm, tim) /\ (r <= tim \/ r <= tim + tm)
<1>. DEFINE r == cyc_next_time(c, tm, tim)
<1>1. CASE tm + tim > 0
  <2>1. r = tm + tim /\ r - tm = 1 * tim
    BY <1>1 DEF cyc_next_time
  <2>. QED  BY <1>1, <2>1 DEF Multiple
<1>2. CASE ~(tm + tim > 0)
  <2>. DEFINE d == (-tm) \div tim
              m == (-tm) % tim
  <2>1. -tm \in Int /\ d \in Int /\ m \in 0 .. tim - 1 /\ -tm = tim * d + m
    OBVIOUS
  <2>2. r = tm + (d + 1) * tim
    BY <1>2 DEF cyc_next_time
  <2>. HIDE DEF d, m, r
  <2>3. r = tim - m /\ r - tm = (d + 1) * tim /\ d + 1 \in Int
    BY <2>1, <2>2
  <2>4. r \in Int /\ r > 0 /\ r <= tim
    BY <2>1, <2>3
  <2>. QED  BY <2>3, <2>4 DEF Multiple, r
<1>. QED  BY <1>1, <1>2

-----------------------------------------------------------------------------
(* The timer queue.                                                        *)

\* The queue q is exact for the times l and the deadlines d: it is in order,
\* holds no event twice, and exactly the events of tasks and alarms in it have a
\* deadline, which is their time.
TimerOK(q, l, d) ==
    /\ q \in Seq(Events) /\ IsInjective(q) /\ Sorted(q, l)
    /\ l \in [Events -> Int] /\ d \in [Events -> Int \cup {NULL}]
    /\ \A e \in Events : /\ d[e] # NULL <=> e \in ToSet(q) /\ e \notin Cycs
                         /\ d[e] # NULL => d[e] = l[e]

\* enqueue_tmeb puts an event in its place.
LEMMA EnqueueTmeb ==
  ASSUME NEW q \in Seq(Events), NEW l \in [Events -> Int], NEW e \in Events,
         e \notin ToSet(q), IsInjective(q), Sorted(q, l)
  PROVE  LET r == enqueue_tmeb(q, l, e)
         IN  /\ r \in Seq(Events) /\ ToSet(r) = ToSet(q) \cup {e}
             /\ IsInjective(r) /\ Sorted(r, l)
<1>1. enqueue_tmeb(q, l, e) = PutAt(q, Place(q, l, e), e)
  <2>. DEFINE I == {i \in 1..Len(q) : l[e] < l[q[i]]}
              J == {i \in 1..Len(q) : l[q[i]] > l[e]}
  <2>1. \A i \in 1..Len(q) : l[q[i]] \in Int /\ l[e] \in Int
    BY ElementOfSeq
  <2>2. I = J
    BY <2>1
  <2>3. enqueue_tmeb(q, l, e) = PutAt(q, IF I # {} THEN Min(I) ELSE 0, e)
    BY DEF enqueue_tmeb, SelectInSeq, PutAt
  <2>. QED  BY <2>2, <2>3 DEF Place
<1>. QED  BY <1>1, SortedInsert

\* From l and d to l2 and d2 only the time of e changes; e gets no deadline, or,
\* unless it belongs to a cyclic handler, that time.
NewTime(e, l, d, l2, d2) ==
    e \in Events /\ \E x \in Int : /\ l2 = [l EXCEPT ![e] = x]
                                  /\ d2 = [d EXCEPT ![e] = IF e \in Cycs THEN NULL ELSE x]
NoTime(e, l, d, l2, d2) ==
    /\ e \in Events /\ l2 \in [Events -> Int]
    /\ \A y \in Events : y # e => l2[y] = l[y]
    /\ d2 = [d EXCEPT ![e] = NULL]

\* An event that is not queued is inserted with a new time.
LEMMA Inserted ==
  ASSUME NEW q, NEW l, NEW d, TimerOK(q, l, d), NEW e, e \notin ToSet(q),
         NEW l2, NEW d2, NewTime(e, l, d, l2, d2)
  PROVE  LET q2 == enqueue_tmeb(q, l2, e)
         IN  TimerOK(q2, l2, d2) /\ ToSet(q2) = ToSet(q) \cup {e}
<1>. DEFINE q2 == enqueue_tmeb(q, l2, e)
<1>0. PICK x \in Int : /\ e \in Events /\ l2 = [l EXCEPT ![e] = x]
                       /\ d2 = [d EXCEPT ![e] = IF e \in Cycs THEN NULL ELSE x]
  BY DEF NewTime
<1>1. /\ q \in Seq(Events) /\ IsInjective(q) /\ Sorted(q, l)
      /\ l \in [Events -> Int] /\ d \in [Events -> Int \cup {NULL}]
  BY DEF TimerOK
<1>2. l2 \in [Events -> Int] /\ d2 \in [Events -> Int \cup {NULL}]
  BY <1>0, <1>1
<1>3. Sorted(q, l2)
  <2>1. \A y \in ToSet(q) : y # e /\ y \in Events /\ l2[y] = l[y]
    BY <1>0, <1>1, MemberPosition
  <2>. QED  BY <1>1, <2>1, SortedSameOrder
<1>4. q2 \in Seq(Events) /\ ToSet(q2) = ToSet(q) \cup {e} /\ IsInjective(q2) /\ Sorted(q2, l2)
  BY <1>0, <1>1, <1>2, <1>3, EnqueueTmeb
<1>. HIDE DEF q2
<1>5. ASSUME NEW y \in Events
      PROVE  /\ d2[y] # NULL <=> y \in ToSet(q2) /\ y \notin Cycs
             /\ d2[y] # NULL => d2[y] = l2[y]
  <2>1. CASE y = e
    BY <1>0, <1>1, <1>4, <2>1, TimerAssumption
  <2>2. CASE y # e
    <3>1. d2[y] = d[y] /\ l2[y] = l[y] /\ (y \in ToSet(q2) <=> y \in ToSet(q))
      BY <1>0, <1>1, <1>4, <2>2
    <3>. QED  BY <3>1 DEF TimerOK
  <2>. QED  BY <2>1, <2>2
<1>. QED  BY <1>2, <1>4, <1>5 DEF TimerOK, q2

\* An event leaves the queue, if it is in it.
LEMMA Removed ==
  ASSUME NEW q, NEW l, NEW d, TimerOK(q, l, d), NEW e,
         NEW l2, NEW d2, NoTime(e, l, d, l2, d2)
  PROVE  TimerOK(QueRemove(q, e), l2, d2) /\ ToSet(QueRemove(q, e)) = ToSet(q) \ {e}
<1>. DEFINE q2 == QueRemove(q, e)
<1>0. /\ e \in Events /\ l2 \in [Events -> Int]
      /\ \A y \in Events : y # e => l2[y] = l[y]
      /\ d2 = [d EXCEPT ![e] = NULL]
  BY DEF NoTime
<1>1. /\ q \in Seq(Events) /\ IsInjective(q) /\ Sorted(q, l)
      /\ l \in [Events -> Int] /\ d \in [Events -> Int \cup {NULL}]
  BY DEF TimerOK
<1>2. q2 \in Seq(Events) /\ ToSet(q2) = ToSet(q) \ {e} /\ IsInjective(q2) /\ Sorted(q2, l)
  BY <1>1, QueRemoveProperties, QueRemoveSorted
<1>. HIDE DEF q2
<1>3. Sorted(q2, l2)
  <2>1. \A y \in ToSet(q2) : y # e /\ y \in Events /\ l2[y] = l[y]
    BY <1>0, <1>2, MemberPosition
  <2>. QED  BY <1>2, <2>1, SortedSameOrder
<1>4. d2 \in [Events -> Int \cup {NULL}]
  BY <1>0, <1>1
<1>5. ASSUME NEW y \in Events
      PROVE  /\ d2[y] # NULL <=> y \in ToSet(q2) /\ y \notin Cycs
             /\ d2[y] # NULL => d2[y] = l2[y]
  <2>1. CASE y = e
    BY <1>0, <1>1, <1>2, <2>1
  <2>2. CASE y # e
    <3>1. d2[y] = d[y] /\ l2[y] = l[y] /\ (y \in ToSet(q2) <=> y \in ToSet(q))
      BY <1>0, <1>1, <1>2, <2>2
    <3>. QED  BY <3>1 DEF TimerOK
  <2>. QED  BY <2>1, <2>2
<1>. QED  BY <1>0, <1>2, <1>3, <1>4, <1>5 DEF TimerOK, q2

\* The software clock goes on while nothing in the queue is due.
LEMMA Ticked ==
  ASSUME NEW q, NEW l, NEW d, TimerOK(q, l, d), \A e \in ToSet(q) : l[e] > 0,
         NEW l2 \in [Events -> Int], \A e \in ToSet(q) : l2[e] = l[e] - TIMER_PERIOD,
         NEW d2, d2 = [e \in Events |-> IF d[e] = NULL \/ d[e] <= 0 THEN d[e] ELSE d[e] - TIMER_PERIOD]
  PROVE  TimerOK(q, l2, d2)
<1>1. /\ q \in Seq(Events) /\ IsInjective(q) /\ Sorted(q, l)
      /\ l \in [Events -> Int] /\ d \in [Events -> Int \cup {NULL}]
  BY DEF TimerOK
<1>2. TIMER_PERIOD \in Int /\ ToSet(q) \subseteq Events
  BY <1>1, TimerAssumption, MemberPosition
<1>3. Sorted(q, l2)
  <2>1. \A x, y \in ToSet(q) : l[x] <= l[y] => l2[x] <= l2[y]
    BY <1>1, <1>2
  <2>. QED  BY <1>1, <2>1, SortedSameOrder
<1>4. \A e \in Events : d[e] \in Int \cup {NULL}
  BY <1>1
<1>5. d2 \in [Events -> Int \cup {NULL}]
  BY <1>2, <1>4
<1>6. ASSUME NEW e \in Events
      PROVE  /\ d2[e] # NULL <=> e \in ToSet(q) /\ e \notin Cycs
             /\ d2[e] # NULL => d2[e] = l2[e]
  <2>1. /\ d[e] # NULL <=> e \in ToSet(q) /\ e \notin Cycs
        /\ d[e] # NULL => d[e] = l[e]
    BY DEF TimerOK
  <2>2. CASE d[e] = NULL
    BY <2>1, <2>2
  <2>3. CASE d[e] # NULL
    <3>1. d[e] = l[e] /\ l[e] > 0 /\ l2[e] = l[e] - TIMER_PERIOD /\ l[e] \in Int
      BY <1>1, <2>1, <2>3
    <3>2. d2[e] = l[e] - TIMER_PERIOD
      BY <2>3, <3>1
    <3>. QED  BY <1>2, <2>1, <2>3, <3>1, <3>2, TimerAssumption
  <2>. QED  BY <2>2, <2>3
<1>. QED  BY <1>1, <1>3, <1>5, <1>6 DEF TimerOK

-----------------------------------------------------------------------------
(* The inductive invariant.                                                *)

\* The hardware timer and the handlers that run.
ClockOK == /\ elapsed \in 0..TIMER_PERIOD - 1 /\ in_timer \in BOOLEAN
           /\ running \in Seq(Handlers) /\ Len(running) <= MaxNest

\* What time_calls.c keeps of the handlers has its type.
HandlersOK == /\ cycstat \in [Cycs -> {"NOEXS", "STP", "STA"}]
              /\ almstat \in [Alms -> {"NOEXS", "STP", "STA"}]
              /\ cycatr \in [Cycs -> BOOLEAN]
              /\ cyctim \in [Cycs -> Nat] /\ phase \in [Cycs -> Int]

QueueOK == TimerOK(timer_queue, left, deadline)

\* The queued tasks wait; the queued handlers are those that are started.
MembersOK == /\ \A t \in Tasks : t \in ToSet(timer_queue) => waiting(t)
             /\ \A c \in Cycs : c \in ToSet(timer_queue) <=> cycstat[c] = "STA"
             /\ \A a \in Alms : a \in ToSet(timer_queue) <=> almstat[a] = "STA"

NothingDue == ~in_timer => \A e \in ToSet(timer_queue) : left[e] > 0

\* The next time of a cyclic handler is in its cycle, and within one cycle
\* unless it is the first one, which cycphs sets.
CycleOK(c) == /\ cycstat[c] = "NOEXS" <=> cyctim[c] = 0
              /\ cycstat[c] # "NOEXS" => /\ left[c] <= cyctim[c] + elapsed \/ left[c] = phase[c]
                                         /\ Multiple(left[c] - phase[c], cyctim[c])

TimerInv == /\ ClockOK /\ HandlersOK /\ QueueOK /\ MembersOK /\ NothingDue
            /\ \A c \in Cycs : CycleOK(c)

TimeInv == TimerInv /\ SyncTypeOK /\ NobodyWaitsInVain

-----------------------------------------------------------------------------
(* Steps of the timer queue.                                               *)

\* Who owns an event.
LEMMA Owners == /\ \A t \in Tasks : t \in Events /\ t \notin Cycs /\ t \notin Alms
                /\ \A c \in Cycs : c \in Events /\ c \notin Tasks /\ c \notin Alms /\ c \in Handlers
                /\ \A a \in Alms : a \in Events /\ a \notin Tasks /\ a \notin Cycs /\ a \in Handlers
                /\ \A e \in Events : e \in Tasks \/ e \in Cycs \/ e \in Alms
BY TimerAssumption DEF Events, Handlers

\* A queued event leaves the queue in a step.
LEMMA RemovedStep ==
  ASSUME QueueOK, NEW e, NoTime(e, left, deadline, left', deadline'),
         timer_queue' = QueRemove(timer_queue, e)
  PROVE  QueueOK' /\ ToSet(timer_queue') = ToSet(timer_queue) \ {e}
<1>1. TimerOK(timer_queue, left, deadline)
  BY DEF QueueOK
<1>2. TimerOK(timer_queue', left', deadline')
  BY <1>1, Removed
<1>3. ToSet(timer_queue') = ToSet(timer_queue) \ {e}
  BY <1>1, Removed
<1>. QED  BY <1>2, <1>3 DEF QueueOK

\* An event that is not queued is inserted in a step.
LEMMA InsertedStep ==
  ASSUME QueueOK, NEW e, e \notin ToSet(timer_queue),
         NewTime(e, left, deadline, left', deadline'),
         timer_queue' = enqueue_tmeb(timer_queue, left', e)
  PROVE  QueueOK' /\ ToSet(timer_queue') = ToSet(timer_queue) \cup {e}
<1>1. TimerOK(timer_queue, left, deadline)
  BY DEF QueueOK
<1>2. TimerOK(timer_queue', left', deadline')
  BY <1>1, Inserted
<1>3. ToSet(timer_queue') = ToSet(timer_queue) \cup {e}
  BY <1>1, Inserted
<1>. QED  BY <1>2, <1>3 DEF QueueOK

\* A step that leaves the queue alone and starts or ends no wait that is in it
\* keeps the invariant.
LEMMA TimerStill ==
  ASSUME TimerInv, UNCHANGED <<timer, handlers>>,
         \A t \in Tasks : waiting(t) /\ t \in ToSet(timer_queue) => waiting(t)'
  PROVE  TimerInv'
<1>1. ClockOK' /\ HandlersOK' /\ QueueOK' /\ NothingDue'
  BY DEF TimerInv, ClockOK, HandlersOK, QueueOK, NothingDue, timer, handlers
<1>2. MembersOK'
  BY DEF TimerInv, MembersOK, timer, handlers
<1>3. \A c \in Cycs : CycleOK(c)'
  BY DEF TimerInv, CycleOK, timer, handlers
<1>. QED  BY <1>1, <1>2, <1>3 DEF TimerInv

\* The timer part of make_wait.
LEMMA MakeWaitTimer ==
  ASSUME TimerInv, NEW t \in Tasks, NEW w, NEW tmout \in Timeouts \cup {TMO_FEVR},
         ~waiting(t), SyncTypeOK, make_wait(t, w, tmout), UNCHANGED handlers
  PROVE  TimerInv'
<1>1. /\ elapsed \in Nat /\ elapsed' = elapsed /\ in_timer' = in_timer /\ running' = running
      /\ UNCHANGED <<cycstat, almstat, cycatr, cyctim, phase>>
  BY TimerAssumption DEF TimerInv, ClockOK, make_wait, handlers
<1>2. ClockOK' /\ HandlersOK'
  BY <1>1 DEF TimerInv, ClockOK, HandlersOK
<1>3. \A u \in Tasks : waiting(u)' <=> waiting(u) \/ u = t
  BY DEF make_wait, waiting, SyncTypeOK
<1>4. t \in Events /\ t \notin Cycs /\ t \notin Alms /\ t \notin ToSet(timer_queue)
  BY Owners DEF TimerInv, MembersOK
<1>5. /\ timer_queue \in Seq(Events) /\ left \in [Events -> Int] /\ IsInjective(timer_queue)
      /\ deadline \in [Events -> Int \cup {NULL}]
  BY DEF TimerInv, QueueOK, TimerOK
<1>6. CASE tmout = TMO_FEVR
  <2>1. /\ timer_queue' = timer_queue /\ left' = left
        /\ deadline' = [deadline EXCEPT ![t] = NULL]
    BY <1>6 DEF make_wait, timer_insert
  <2>2. deadline[t] = NULL
    BY <1>4 DEF TimerInv, QueueOK, TimerOK
  <2>3. deadline' = deadline
    BY <1>5, <2>1, <2>2
  <2>4. QueueOK' /\ NothingDue'
    BY <1>1, <2>1, <2>3 DEF TimerInv, QueueOK, NothingDue
  <2>5. MembersOK' /\ \A c \in Cycs : CycleOK(c)'
    BY <1>1, <1>3, <2>1 DEF TimerInv, MembersOK, CycleOK
  <2>. QED  BY <1>2, <2>4, <2>5 DEF TimerInv
<1>7. CASE tmout # TMO_FEVR
  <2>. DEFINE x == tmout + elapsed
  <2>1. x \in Int /\ x > 0
    BY <1>1, <1>7, SyncAssumption
  <2>2. /\ left' = [left EXCEPT ![t] = x]
        /\ timer_queue' = enqueue_tmeb(timer_queue, left', t)
        /\ deadline' = [deadline EXCEPT ![t] = x]
    <3>1. elapsed + tmout = x
      BY <1>1, <1>7, SyncAssumption
    <3>. QED  BY <1>7, <3>1 DEF make_wait, timer_insert, insert_reltim, insert, adjust_time
  <2>. HIDE DEF x
  <2>3. deadline' = [deadline EXCEPT ![t] = IF t \in Cycs THEN NULL ELSE x]
    BY <1>4, <2>2
  <2>4. QueueOK' /\ ToSet(timer_queue') = ToSet(timer_queue) \cup {t}
    <3>1. NewTime(t, left, deadline, left', deadline')
      BY <1>4, <2>1, <2>2, <2>3 DEF NewTime
    <3>. QED  BY <1>4, <2>2, <3>1, InsertedStep DEF TimerInv
  <2>5. \A e \in Events : left'[e] = IF e = t THEN x ELSE left[e]
    BY <1>5, <2>2
  <2>6. NothingDue'
    <3>1. \A e \in ToSet(timer_queue) : e \in Events
      BY <1>5, MemberPosition
    <3>. QED  BY <1>1, <1>4, <2>1, <2>4, <2>5, <3>1 DEF TimerInv, NothingDue
  <2>7. MembersOK'
    <3>1. \A e \in Cycs \cup Alms : e # t
      BY <1>4
    <3>. QED  BY <1>1, <1>3, <2>4, <3>1 DEF TimerInv, MembersOK
  <2>8. \A c \in Cycs : CycleOK(c)'
    <3>1. \A c \in Cycs : left'[c] = left[c]
      BY <1>4, <2>5, Owners
    <3>. QED  BY <1>1, <3>1 DEF TimerInv, CycleOK
  <2>. QED  BY <1>2, <2>4, <2>6, <2>7, <2>8 DEF TimerInv
<1>. QED  BY <1>6, <1>7

\* The timer part of wait_release and wait_cancel.
LEMMA EndWaitTimer ==
  ASSUME TimerInv, NEW t \in Tasks, NEW s \in {"READY", "DORMANT"},
         SyncTypeOK, end_wait(t, s), UNCHANGED handlers
  PROVE  TimerInv'
<1>1. /\ elapsed' = elapsed /\ in_timer' = in_timer /\ running' = running
      /\ UNCHANGED <<cycstat, almstat, cycatr, cyctim, phase>>
  BY DEF end_wait, handlers
<1>2. ClockOK' /\ HandlersOK'
  BY <1>1 DEF TimerInv, ClockOK, HandlersOK
<1>3. \A u \in Tasks : waiting(u)' <=> waiting(u) /\ u # t
  BY DEF end_wait, waiting, SyncTypeOK
<1>4. t \in Events /\ t \notin Cycs /\ t \notin Alms
  BY Owners
<1>5. /\ timer_queue \in Seq(Events) /\ left \in [Events -> Int]
  BY DEF TimerInv, QueueOK, TimerOK
<1>6. /\ timer_queue' = QueRemove(timer_queue, t)
      /\ left' = [left EXCEPT ![t] = 0]
      /\ deadline' = [deadline EXCEPT ![t] = NULL]
  BY <1>4 DEF end_wait, timer_delete
<1>7. left' \in [Events -> Int] /\ \A e \in Events : e # t => left'[e] = left[e]
  <2>1. left' = [left EXCEPT ![t] = 0] /\ left \in [Events -> Int]
    BY <1>5, <1>6
  <2>2. 0 \in Int
    OBVIOUS
  <2>3. left' \in [Events -> Int]
    BY <2>1, <2>2
  <2>4. \A e \in Events : e # t => left'[e] = left[e]
    BY <2>1
  <2>. QED  BY <2>3, <2>4
<1>8. QueueOK' /\ ToSet(timer_queue') = ToSet(timer_queue) \ {t}
  <2>1. NoTime(t, left, deadline, left', deadline')
    BY <1>4, <1>6, <1>7 DEF NoTime
  <2>. QED  BY <1>6, <2>1, RemovedStep DEF TimerInv
<1>9. NothingDue'
  <2>1. \A e \in ToSet(timer_queue) : e \in Events
    BY <1>5, MemberPosition
  <2>. QED  BY <1>1, <1>7, <1>8, <2>1 DEF TimerInv, NothingDue
<1>10. MembersOK'
  <2>1. \A e \in Cycs \cup Alms : e # t
    BY <1>4
  <2>. QED  BY <1>1, <1>3, <1>8, <2>1 DEF TimerInv, MembersOK
<1>11. \A c \in Cycs : CycleOK(c)'
  <2>1. \A c \in Cycs : left'[c] = left[c]
    BY <1>4, <1>7, Owners
  <2>. QED  BY <1>1, <2>1 DEF TimerInv, CycleOK
<1>. QED  BY <1>2, <1>8, <1>9, <1>10, <1>11 DEF TimerInv

-----------------------------------------------------------------------------
(* Steps of the tasks.                                                     *)

\* What SyncTypeOK and NobodyWaitsInVain say of one task.
TaskOK(t) == /\ state[t] \in {"READY", "WAIT", "DORMANT"}
             /\ tskwait[t] \in SUBSET TTW
             /\ waiting(t) <=> tskwait[t] # {}
             /\ wupcnt[t] \in 0..WUP_MAX
             /\ tskevt[t] \in SUBSET Evts /\ waitmask[t] \in SUBSET TTW
             /\ waiting(t) => /\ tskwait[t] = {"SLP"} => wupcnt[t] = 0
                              /\ tskevt[t] \cap tskwait[t] = {}
                              /\ waitmask[t] \cap tskwait[t] = {}

SyncDomains == /\ state = [t \in Tasks |-> state[t]] /\ tskwait = [t \in Tasks |-> tskwait[t]]
               /\ wupcnt = [t \in Tasks |-> wupcnt[t]] /\ tskevt = [t \in Tasks |-> tskevt[t]]
               /\ waitmask = [t \in Tasks |-> waitmask[t]]

\* SyncTypeOK and NobodyWaitsInVain, task by task.
LEMMA SyncPointwise ==
  ASSUME SyncTypeOK, NobodyWaitsInVain
  PROVE  SyncDomains /\ \A t \in Tasks : TaskOK(t)
<1>1. SyncDomains
  BY DEF SyncTypeOK, SyncDomains
<1>2. \A t \in Tasks : TaskOK(t)
  BY DEF SyncTypeOK, NobodyWaitsInVain, TaskOK
<1>. QED  BY <1>1, <1>2

\* Only the task t changes.
OnlyTask(t) == /\ state' = [state EXCEPT ![t] = state'[t]]
               /\ tskwait' = [tskwait EXCEPT ![t] = tskwait'[t]]
               /\ wupcnt' = [wupcnt EXCEPT ![t] = wupcnt'[t]]
               /\ tskevt' = [tskevt EXCEPT ![t] = tskevt'[t]]
               /\ waitmask' = [waitmask EXCEPT ![t] = waitmask'[t]]

\* A step of one task keeps the invariant when it keeps it for that task.
LEMMA OnlyTaskStep ==
  ASSUME SyncTypeOK, NobodyWaitsInVain, NEW t \in Tasks, OnlyTask(t), TaskOK(t)'
  PROVE  SyncTypeOK' /\ NobodyWaitsInVain'
<1>1. SyncDomains /\ \A u \in Tasks : TaskOK(u)
  BY SyncPointwise
<1>2. SyncDomains'
  BY <1>1 DEF SyncDomains, OnlyTask
<1>3. ASSUME NEW u \in Tasks, u # t PROVE TaskOK(u)'
  <2>1. /\ state'[u] = state[u] /\ tskwait'[u] = tskwait[u] /\ wupcnt'[u] = wupcnt[u]
        /\ tskevt'[u] = tskevt[u] /\ waitmask'[u] = waitmask[u]
    BY <1>1, <1>3 DEF SyncDomains, OnlyTask
  <2>. QED  BY <1>1, <2>1 DEF TaskOK, waiting
<1>4. \A u \in Tasks : TaskOK(u)'
  BY <1>3
<1>5. state' \in [Tasks -> {"READY", "WAIT", "DORMANT"}]
  BY <1>2, <1>4 DEF SyncDomains, TaskOK
<1>6. tskwait' \in [Tasks -> SUBSET TTW]
  BY <1>2, <1>4 DEF SyncDomains, TaskOK
<1>7. wupcnt' \in [Tasks -> 0..WUP_MAX]
  BY <1>2, <1>4 DEF SyncDomains, TaskOK
<1>8. tskevt' \in [Tasks -> SUBSET Evts]
  BY <1>2, <1>4 DEF SyncDomains, TaskOK
<1>9. waitmask' \in [Tasks -> SUBSET TTW]
  BY <1>2, <1>4 DEF SyncDomains, TaskOK
<1>10. \A u \in Tasks : (waiting(u) <=> tskwait[u] # {})'
  BY <1>4 DEF TaskOK
<1>11. NobodyWaitsInVain'
  BY <1>4 DEF NobodyWaitsInVain, TaskOK
<1>. QED  BY <1>5, <1>6, <1>7, <1>8, <1>9, <1>10, <1>11 DEF SyncTypeOK
\* The step of one task, with what it starts from.
LEMMA TaskStep ==
  ASSUME SyncTypeOK, NobodyWaitsInVain, NEW t \in Tasks
  PROVE  /\ SyncDomains /\ TaskOK(t)
         /\ OnlyTask(t) /\ TaskOK(t)' => SyncTypeOK' /\ NobodyWaitsInVain'
BY SyncPointwise, OnlyTaskStep

\* What make_wait and end_wait do to the tasks.
LEMMA MakeWaitSync ==
  ASSUME SyncDomains, NEW t \in Tasks, NEW w, NEW tmout, make_wait(t, w, tmout)
  PROVE  /\ state' = [state EXCEPT ![t] = state'[t]] /\ state'[t] = "WAIT"
         /\ tskwait' = [tskwait EXCEPT ![t] = tskwait'[t]] /\ tskwait'[t] = w
BY DEF make_wait, SyncDomains

\* wait_release and wait_cancel change the task that waited only.
LEMMA EndWaitSync ==
  ASSUME SyncDomains, NEW t \in Tasks, NEW s, end_wait(t, s)
  PROVE  /\ state' = [state EXCEPT ![t] = state'[t]] /\ state'[t] = s
         /\ tskwait' = [tskwait EXCEPT ![t] = tskwait'[t]] /\ tskwait'[t] = {}
BY DEF end_wait, SyncDomains

\* What does not change.
LEMMA SameFunctions ==
  ASSUME SyncDomains, NEW t \in Tasks
  PROVE  /\ state' = state => state' = [state EXCEPT ![t] = state'[t]]
         /\ tskwait' = tskwait => tskwait' = [tskwait EXCEPT ![t] = tskwait'[t]]
         /\ wupcnt' = wupcnt => wupcnt' = [wupcnt EXCEPT ![t] = wupcnt'[t]]
         /\ tskevt' = tskevt => tskevt' = [tskevt EXCEPT ![t] = tskevt'[t]]
         /\ waitmask' = waitmask => waitmask' = [waitmask EXCEPT ![t] = waitmask'[t]]
BY DEF SyncDomains

-----------------------------------------------------------------------------
(* The calls of the tasks, one lemma per call.                             *)

\* A call that changes neither the timer nor who waits.
LEMMA StillCall ==
  ASSUME TimeInv, NEW t \in Tasks, still, UNCHANGED handlers,
         wupcnt' = [wupcnt EXCEPT ![t] = wupcnt'[t]],
         tskevt' = [tskevt EXCEPT ![t] = tskevt'[t]],
         waitmask' = [waitmask EXCEPT ![t] = waitmask'[t]],
         TaskOK(t)'
  PROVE  TimeInv'
<1>1. UNCHANGED <<timer, handlers>> /\ state' = state /\ tskwait' = tskwait
  BY DEF still
<1>2. TimerInv'
  BY <1>1, TimerStill DEF TimeInv, waiting
<1>3. OnlyTask(t)
  BY <1>1, TaskStep, SameFunctions DEF TimeInv, OnlyTask
<1>. QED  BY <1>2, <1>3, TaskStep DEF TimeInv

\* A call with which t begins to wait, for w.
LEMMA WaitCall ==
  ASSUME TimeInv, NEW t \in Tasks, NEW w, NEW tmout \in Timeouts \cup {TMO_FEVR},
         calls(t, w), make_wait(t, w, tmout), UNCHANGED <<handlers, wupcnt, tskevt, waitmask>>,
         w \in SUBSET TTW, w # {}, w = {"SLP"} => wupcnt[t] = 0, tskevt[t] \cap w = {}
  PROVE  TimeInv'
<1>1. ~waiting(t)
  BY DEF calls, waiting
<1>2. TimerInv'
  BY <1>1, MakeWaitTimer DEF TimeInv
<1>3. SyncDomains /\ TaskOK(t)
  BY TaskStep DEF TimeInv
<1>4. OnlyTask(t)
  BY <1>3, MakeWaitSync, SameFunctions DEF OnlyTask
<1>5. TaskOK(t)'
  <2>1. state'[t] = "WAIT" /\ tskwait'[t] = w
    BY <1>3, MakeWaitSync
  <2>2. waitmask[t] \cap w = {}
    BY DEF calls
  <2>. QED  BY <1>3, <2>1, <2>2 DEF TaskOK, waiting
<1>. QED  BY <1>2, <1>4, <1>5, TaskStep DEF TimeInv

\* A call, or the timer handler, that ends the wait of t.
LEMMA EndCall ==
  ASSUME TimeInv, NEW t \in Tasks, NEW s \in {"READY", "DORMANT"}, end_wait(t, s), UNCHANGED handlers,
         wupcnt' = [wupcnt EXCEPT ![t] = wupcnt'[t]], wupcnt'[t] \in 0..WUP_MAX,
         tskevt' = [tskevt EXCEPT ![t] = tskevt'[t]], tskevt'[t] \in SUBSET Evts,
         waitmask' = [waitmask EXCEPT ![t] = waitmask'[t]], waitmask'[t] \in SUBSET TTW
  PROVE  TimeInv'
<1>1. TimerInv'
  BY EndWaitTimer DEF TimeInv
<1>2. SyncDomains /\ TaskOK(t)
  BY TaskStep DEF TimeInv
<1>3. OnlyTask(t)
  BY <1>2, EndWaitSync DEF OnlyTask
<1>4. TaskOK(t)'
  <2>1. state'[t] = s /\ tskwait'[t] = {}
    BY <1>2, EndWaitSync
  <2>. QED  BY <2>1 DEF TaskOK, waiting
<1>. QED  BY <1>1, <1>3, <1>4, TaskStep DEF TimeInv

\* wait_release beside counters and masks that stay.
LEMMA ReleaseCall ==
  ASSUME TimeInv, NEW t \in Tasks, wait_release(t), UNCHANGED <<handlers, wupcnt, tskevt, waitmask>>
  PROVE  TimeInv'
<1>1. SyncDomains /\ TaskOK(t)
  BY TaskStep DEF TimeInv
<1>. QED  BY <1>1, EndCall, SameFunctions DEF wait_release, TaskOK

\* tk_slp_tsk takes a queued wakeup, or waits when there is none.
LEMMA SlpTsk ==
  ASSUME TimeInv, NEW t \in Tasks, NEW tmout \in Timeouts \cup {TMO_FEVR},
         slp_tsk(t, tmout), UNCHANGED handlers
  PROVE  TimeInv'
<1>1. SyncDomains /\ TaskOK(t)
  BY TaskStep DEF TimeInv
<1>2. CASE wupcnt[t] > 0
  <2>1. /\ wupcnt' = [wupcnt EXCEPT ![t] = wupcnt[t] - 1] /\ still
        /\ UNCHANGED <<tskevt, waitmask>> /\ state[t] = "READY"
    BY <1>2 DEF slp_tsk, calls
  <2>2. wupcnt'[t] = wupcnt[t] - 1 /\ wupcnt[t] - 1 \in 0..WUP_MAX
    BY <1>1, <1>2, <2>1, SyncAssumption DEF SyncDomains, TaskOK
  <2>3. TaskOK(t)'
    BY <1>1, <2>1, <2>2 DEF TaskOK, waiting, still
  <2>4. wupcnt' = [wupcnt EXCEPT ![t] = wupcnt'[t]]
    BY <2>1, <2>2
  <2>. QED  BY <1>1, <2>1, <2>3, <2>4, StillCall, SameFunctions
<1>3. CASE ~(wupcnt[t] > 0)
  <2>1. /\ calls(t, {"SLP"}) /\ make_wait(t, {"SLP"}, tmout)
        /\ UNCHANGED <<wupcnt, tskevt, waitmask>>
    BY <1>3 DEF slp_tsk
  <2>2. wupcnt[t] = 0
    BY <1>1, <1>3, SyncAssumption DEF TaskOK
  <2>3. {"SLP"} \in SUBSET TTW /\ {"SLP"} # {} /\ tskevt[t] \cap {"SLP"} = {}
    BY <1>1, SyncAssumption DEF TaskOK, TTW
  <2>. QED  BY <2>1, <2>2, <2>3, WaitCall
<1>. QED  BY <1>2, <1>3

\* tk_wup_tsk ends a sleep or is queued, up to the limit.
LEMMA WupTsk ==
  ASSUME TimeInv, NEW t \in Tasks, wup_tsk(t), UNCHANGED handlers
  PROVE  TimeInv'
<1>1. SyncDomains /\ TaskOK(t)
  BY TaskStep DEF TimeInv
<1>2. CASE waiting(t) /\ tskwait[t] = {"SLP"}
  BY <1>2, ReleaseCall DEF wup_tsk
<1>3. CASE ~(waiting(t) /\ tskwait[t] = {"SLP"})
  <2>1. /\ wupcnt[t] < WUP_MAX /\ wupcnt' = [wupcnt EXCEPT ![t] = wupcnt[t] + 1] /\ still
        /\ UNCHANGED <<tskevt, waitmask>>
    BY <1>3 DEF wup_tsk, may_queue
  <2>2. wupcnt'[t] = wupcnt[t] + 1 /\ wupcnt[t] + 1 \in 0..WUP_MAX
    BY <1>1, <2>1, SyncAssumption DEF SyncDomains, TaskOK
  <2>3. TaskOK(t)'
    BY <1>1, <1>3, <2>1, <2>2 DEF TaskOK, waiting, still
  <2>4. wupcnt' = [wupcnt EXCEPT ![t] = wupcnt'[t]]
    BY <2>1, <2>2
  <2>. QED  BY <1>1, <2>1, <2>3, <2>4, StillCall, SameFunctions
<1>. QED  BY <1>2, <1>3

\* tk_can_wup forgets the queued wakeups.
LEMMA CanWup ==
  ASSUME TimeInv, NEW t \in Tasks, can_wup(t), UNCHANGED handlers
  PROVE  TimeInv'
<1>1. SyncDomains /\ TaskOK(t)
  BY TaskStep DEF TimeInv
<1>2. /\ wupcnt' = [wupcnt EXCEPT ![t] = 0] /\ still
      /\ UNCHANGED <<tskevt, waitmask>>
  BY DEF can_wup
<1>3. wupcnt'[t] = 0 /\ 0 \in 0..WUP_MAX
  BY <1>1, <1>2, SyncAssumption DEF SyncDomains
<1>4. TaskOK(t)'
  BY <1>1, <1>2, <1>3 DEF TaskOK, waiting, still
<1>5. wupcnt' = [wupcnt EXCEPT ![t] = wupcnt'[t]]
  BY <1>2, <1>3
<1>. QED  BY <1>1, <1>2, <1>4, <1>5, StillCall, SameFunctions

\* tk_wai_tev takes an event that has occurred, or waits when none has.
LEMMA WaiTev ==
  ASSUME TimeInv, NEW t \in Tasks, NEW w \in (SUBSET Evts) \ {{}},
         NEW tmout \in Timeouts \cup {TMO_FEVR}, wai_tev(t, w, tmout), UNCHANGED handlers
  PROVE  TimeInv'
<1>1. SyncDomains /\ TaskOK(t)
  BY TaskStep DEF TimeInv
<1>2. CASE tskevt[t] \cap w # {}
  <2>1. /\ tskevt' = [tskevt EXCEPT ![t] = tskevt[t] \ w] /\ still
        /\ UNCHANGED <<wupcnt, waitmask>> /\ state[t] = "READY"
    BY <1>2 DEF wai_tev, calls
  <2>2. tskevt'[t] = tskevt[t] \ w /\ tskevt[t] \ w \in SUBSET Evts
    BY <1>1, <2>1 DEF SyncDomains, TaskOK
  <2>3. TaskOK(t)'
    BY <1>1, <2>1, <2>2 DEF TaskOK, waiting, still
  <2>4. tskevt' = [tskevt EXCEPT ![t] = tskevt'[t]]
    BY <2>1, <2>2
  <2>. QED  BY <1>1, <2>1, <2>3, <2>4, StillCall, SameFunctions
<1>3. CASE tskevt[t] \cap w = {}
  <2>1. /\ calls(t, w) /\ make_wait(t, w, tmout)
        /\ UNCHANGED <<wupcnt, tskevt, waitmask>>
    BY <1>3 DEF wai_tev
  <2>2. w \in SUBSET TTW /\ w # {}
    BY DEF TTW
  <2>3. w # {"SLP"}
    <3>1. "SLP" \notin w
      BY SyncAssumption
    <3>. QED  BY <3>1
  <2>. QED  BY <1>3, <2>1, <2>2, <2>3, WaitCall
<1>. QED  BY <1>2, <1>3

\* tk_sig_tev ends the wait for the event, or the event is kept.
LEMMA SigTev ==
  ASSUME TimeInv, NEW t \in Tasks, NEW e \in Evts, sig_tev(t, e), UNCHANGED handlers
  PROVE  TimeInv'
<1>1. SyncDomains /\ TaskOK(t)
  BY TaskStep DEF TimeInv
<1>2. CASE waiting(t) /\ e \in tskwait[t]
  BY <1>2, ReleaseCall DEF sig_tev
<1>3. CASE ~(waiting(t) /\ e \in tskwait[t])
  <2>1. /\ tskevt' = [tskevt EXCEPT ![t] = tskevt[t] \cup {e}] /\ still
        /\ UNCHANGED <<wupcnt, waitmask>>
    BY <1>3 DEF sig_tev
  <2>2. tskevt'[t] = tskevt[t] \cup {e} /\ tskevt[t] \cup {e} \in SUBSET Evts
    BY <1>1, <2>1 DEF SyncDomains, TaskOK
  <2>3. TaskOK(t)'
    BY <1>1, <1>3, <2>1, <2>2 DEF TaskOK, waiting, still
  <2>4. tskevt' = [tskevt EXCEPT ![t] = tskevt'[t]]
    BY <2>1, <2>2
  <2>. QED  BY <1>1, <2>1, <2>3, <2>4, StillCall, SameFunctions
<1>. QED  BY <1>2, <1>3

\* tk_dly_tsk waits for its time only.
LEMMA DlyTsk ==
  ASSUME TimeInv, NEW t \in Tasks, NEW dlytim \in Timeouts, dly_tsk(t, dlytim), UNCHANGED handlers
  PROVE  TimeInv'
<1>1. SyncDomains /\ TaskOK(t)
  BY TaskStep DEF TimeInv
<1>2. /\ calls(t, {"DLY"}) /\ make_wait(t, {"DLY"}, dlytim)
      /\ UNCHANGED <<wupcnt, tskevt, waitmask>>
  BY DEF dly_tsk
<1>3. {"DLY"} \in SUBSET TTW /\ {"DLY"} # {} /\ {"DLY"} # {"SLP"} /\ tskevt[t] \cap {"DLY"} = {}
  BY <1>1, SyncAssumption DEF TaskOK, TTW
<1>. QED  BY <1>2, <1>3, WaitCall

\* tk_dis_wai ends the wait that it disables.
LEMMA DisWai ==
  ASSUME TimeInv, NEW t \in Tasks, NEW mask \in DisMasks, dis_wai(t, mask), UNCHANGED handlers
  PROVE  TimeInv'
<1>1. SyncDomains /\ TaskOK(t)
  BY TaskStep DEF TimeInv
<1>2. /\ waitmask' = [waitmask EXCEPT ![t] = mask] /\ UNCHANGED <<wupcnt, tskevt>>
  BY DEF dis_wai
<1>3. waitmask'[t] = mask /\ mask \in SUBSET TTW
  BY <1>1, <1>2, SyncAssumption DEF SyncDomains
<1>4. waitmask' = [waitmask EXCEPT ![t] = waitmask'[t]]
  BY <1>2, <1>3
<1>5. CASE waiting(t) /\ tskwait[t] \cap mask # {}
  <2>1. end_wait(t, "READY")
    BY <1>5 DEF dis_wai, wait_release
  <2>. QED  BY <1>1, <1>2, <1>3, <1>4, <2>1, EndCall, SameFunctions DEF TaskOK
<1>6. CASE ~(waiting(t) /\ tskwait[t] \cap mask # {})
  <2>1. still
    BY <1>6 DEF dis_wai
  <2>2. TaskOK(t)'
    BY <1>1, <1>2, <1>3, <1>6, <2>1 DEF TaskOK, waiting, still
  <2>. QED  BY <1>1, <1>2, <1>4, <2>1, <2>2, StillCall, SameFunctions
<1>. QED  BY <1>5, <1>6

\* tk_ena_wai clears the mask.
LEMMA EnaWai ==
  ASSUME TimeInv, NEW t \in Tasks, ena_wai(t), UNCHANGED handlers
  PROVE  TimeInv'
<1>1. SyncDomains /\ TaskOK(t)
  BY TaskStep DEF TimeInv
<1>2. /\ waitmask' = [waitmask EXCEPT ![t] = {}] /\ still
      /\ UNCHANGED <<wupcnt, tskevt>>
  BY DEF ena_wai
<1>3. waitmask'[t] = {}
  BY <1>1, <1>2 DEF SyncDomains
<1>4. TaskOK(t)'
  BY <1>1, <1>2, <1>3 DEF TaskOK, waiting, still
<1>5. waitmask' = [waitmask EXCEPT ![t] = waitmask'[t]]
  BY <1>2, <1>3
<1>. QED  BY <1>1, <1>2, <1>4, <1>5, StillCall, SameFunctions

\* tk_ter_tsk cancels the wait and clears what was queued for the task.
LEMMA TerTsk ==
  ASSUME TimeInv, NEW t \in Tasks, ter_tsk(t), UNCHANGED handlers
  PROVE  TimeInv'
<1>1. SyncDomains /\ TaskOK(t)
  BY TaskStep DEF TimeInv
<1>2. /\ end_wait(t, "DORMANT")
      /\ wupcnt' = [wupcnt EXCEPT ![t] = 0]
      /\ tskevt' = [tskevt EXCEPT ![t] = {}]
      /\ waitmask' = [waitmask EXCEPT ![t] = {}]
  BY DEF ter_tsk
<1>3. wupcnt'[t] = 0 /\ tskevt'[t] = {} /\ waitmask'[t] = {} /\ 0 \in 0..WUP_MAX
  BY <1>1, <1>2, SyncAssumption DEF SyncDomains
<1>4. /\ wupcnt' = [wupcnt EXCEPT ![t] = wupcnt'[t]]
      /\ tskevt' = [tskevt EXCEPT ![t] = tskevt'[t]]
      /\ waitmask' = [waitmask EXCEPT ![t] = waitmask'[t]]
  BY <1>2, <1>3
<1>. QED  BY <1>2, <1>3, <1>4, EndCall

\* tk_sta_tsk starts a task that does not wait.
LEMMA StaTsk ==
  ASSUME TimeInv, NEW t \in Tasks, sta_tsk(t), UNCHANGED handlers
  PROVE  TimeInv'
<1>1. SyncDomains /\ TaskOK(t)
  BY TaskStep DEF TimeInv
<1>2. /\ state' = [state EXCEPT ![t] = "READY"] /\ state[t] = "DORMANT"
      /\ UNCHANGED <<timer, tskwait, wupcnt, tskevt, waitmask>>
  BY DEF sta_tsk, alive
<1>3. state'[t] = "READY" /\ \A u \in Tasks : u # t => state'[u] = state[u]
  BY <1>1, <1>2 DEF SyncDomains
<1>4. TimerInv'
  <2>1. \A u \in Tasks : waiting(u) => waiting(u)'
    BY <1>2, <1>3 DEF waiting
  <2>. QED  BY <1>2, <2>1, TimerStill DEF TimeInv
<1>5. OnlyTask(t)
  BY <1>1, <1>2, <1>3, SameFunctions DEF OnlyTask
<1>6. TaskOK(t)'
  BY <1>1, <1>2, <1>3 DEF TaskOK, waiting
<1>. QED  BY <1>4, <1>5, <1>6, TaskStep DEF TimeInv

\* Every call of a task keeps the invariant.
LEMMA TaskCallsKeep ==
  ASSUME TimeInv, TaskCalls, UNCHANGED handlers
  PROVE  TimeInv'
<1>1. ASSUME NEW t \in Tasks, SleepCalls(t) PROVE TimeInv'
  BY <1>1, SlpTsk, WupTsk, CanWup DEF SleepCalls
<1>2. ASSUME NEW t \in Tasks, EventCalls(t) PROVE TimeInv'
  BY <1>2, WaiTev, SigTev DEF EventCalls
<1>3. ASSUME NEW t \in Tasks, rel_wai(t) PROVE TimeInv'
  BY <1>3, ReleaseCall DEF rel_wai
<1>4. ASSUME NEW t \in Tasks, WaitCalls(t) PROVE TimeInv'
  BY <1>3, <1>4, EnaWai, TerTsk, StaTsk, DisWai DEF WaitCalls
<1>. QED  BY <1>1, <1>2, <1>3, <1>4, DlyTsk, StaTsk DEF TaskCalls

-----------------------------------------------------------------------------
(* Steps of the handlers.                                                  *)

\* The tasks stay as they are.
LEMMA SyncStill ==
  ASSUME SyncTypeOK, NobodyWaitsInVain, UNCHANGED tsk
  PROVE  SyncTypeOK' /\ NobodyWaitsInVain'
BY DEF SyncTypeOK, NobodyWaitsInVain, waiting, tsk

\* A handler is called, or none is.
LEMMA CalledClock ==
  ASSUME ClockOK, UNCHANGED <<elapsed, in_timer>>, NEW h \in Handlers,
         running' = running \/ (Len(running) < MaxNest /\ call(h))
  PROVE  ClockOK'
<1>1. CASE running' = running
  BY <1>1 DEF ClockOK
<1>2. CASE Len(running) < MaxNest /\ call(h)
  <2>1. <<h>> \in Seq(Handlers) /\ Len(<<h>>) = 1 /\ running \in Seq(Handlers)
    BY DEF ClockOK
  <2>2. running' \in Seq(Handlers) /\ Len(running') = 1 + Len(running)
    BY <1>2, <2>1, ConcatProperties DEF call
  <2>3. Len(running) \in Nat /\ MaxNest \in Nat
    BY <2>1, LenProperties, TimerAssumption
  <2>. QED  BY <1>2, <2>2, <2>3 DEF ClockOK
<1>. QED  BY <1>1, <1>2

\* A handler is queued at a time x to come, whether it was queued or not.
LEMMA Requeued ==
  ASSUME TimerInv, NEW h \in Events, NEW x \in Int, x > 0,
         left' = [left EXCEPT ![h] = x],
         timer_queue' = enqueue_tmeb(QueRemove(timer_queue, h), left', h),
         deadline' = [deadline EXCEPT ![h] = IF h \in Cycs THEN NULL ELSE x],
         in_timer' = in_timer
  PROVE  /\ QueueOK' /\ NothingDue'
         /\ ToSet(timer_queue') = ToSet(timer_queue) \cup {h}
         /\ left'[h] = x /\ \A e \in Events : e # h => left'[e] = left[e]
<1>. DEFINE d0 == [deadline EXCEPT ![h] = NULL]
            q0 == QueRemove(timer_queue, h)
<1>1. TimerOK(timer_queue, left, deadline)
  BY DEF TimerInv, QueueOK
<1>2. /\ timer_queue \in Seq(Events) /\ left \in [Events -> Int]
      /\ deadline \in [Events -> Int \cup {NULL}]
  BY <1>1 DEF TimerOK
<1>3. NoTime(h, left, deadline, left, d0)
  BY <1>2 DEF NoTime
<1>4. TimerOK(q0, left, d0)
  BY <1>1, <1>3, Removed
<1>5. ToSet(q0) = ToSet(timer_queue) \ {h}
  BY <1>1, <1>3, Removed
<1>6. NewTime(h, left, d0, left', deadline')
  <2>1. deadline' = [d0 EXCEPT ![h] = IF h \in Cycs THEN NULL ELSE x]
    BY <1>2
  <2>. HIDE DEF d0
  <2>. QED  BY <2>1 DEF NewTime
<1>. HIDE DEF d0, q0
<1>7. h \notin ToSet(q0) /\ timer_queue' = enqueue_tmeb(q0, left', h)
  BY <1>5 DEF q0
<1>8. TimerOK(timer_queue', left', deadline')
  BY <1>4, <1>6, <1>7, Inserted
<1>9. ToSet(timer_queue') = ToSet(q0) \cup {h}
  BY <1>4, <1>6, <1>7, Inserted
<1>10. ToSet(timer_queue') = ToSet(timer_queue) \cup {h}
  BY <1>5, <1>9
<1>11. left'[h] = x /\ \A e \in Events : e # h => left'[e] = left[e]
  BY <1>2
<1>12. NothingDue'
  <2>1. \A e \in ToSet(timer_queue) : e \in Events
    BY <1>2, MemberPosition
  <2>. QED  BY <1>10, <1>11, <2>1 DEF TimerInv, NothingDue
<1>. QED  BY <1>8, <1>10, <1>11, <1>12 DEF QueueOK

\* A handler leaves the queue, if it is in it.
LEMMA Dequeued ==
  ASSUME TimerInv, NEW h \in Events, timer_delete(h), in_timer' = in_timer
  PROVE  /\ QueueOK' /\ NothingDue'
         /\ ToSet(timer_queue') = ToSet(timer_queue) \ {h}
         /\ \A c \in Cycs : left'[c] = left[c]
<1>1. timer_queue \in Seq(Events) /\ left \in [Events -> Int]
  BY DEF TimerInv, QueueOK, TimerOK
<1>2. left' \in [Events -> Int] /\ \A e \in Events : e # h \/ e \in Cycs => left'[e] = left[e]
  <2>1. CASE h \in Cycs
    BY <1>1, <2>1 DEF timer_delete
  <2>2. CASE h \notin Cycs
    <3>1. left' = [left EXCEPT ![h] = 0] /\ 0 \in Int
      BY <2>2 DEF timer_delete
    <3>2. left' \in [Events -> Int]
      BY <1>1, <3>1
    <3>3. \A e \in Events : e # h \/ e \in Cycs => left'[e] = left[e]
      BY <1>1, <2>2, <3>1
    <3>. QED  BY <3>2, <3>3
  <2>. QED  BY <2>1, <2>2
<1>3. NoTime(h, left, deadline, left', deadline')
  BY <1>2 DEF NoTime, timer_delete
<1>4. QueueOK' /\ ToSet(timer_queue') = ToSet(timer_queue) \ {h}
  BY <1>3, RemovedStep DEF TimerInv, timer_delete
<1>5. NothingDue'
  <2>1. \A e \in ToSet(timer_queue) : e \in Events
    BY <1>1, MemberPosition
  <2>. QED  BY <1>2, <1>4, <2>1 DEF TimerInv, NothingDue
<1>. QED  BY <1>2, <1>4, <1>5, Owners


\* Only the cyclic handler c changes, and so that the invariant holds for it.
CycChange(c) ==
    /\ UNCHANGED <<elapsed, in_timer, almstat>>
    /\ running' = running \/ (Len(running) < MaxNest /\ call(c))
    /\ cycstat' = [cycstat EXCEPT ![c] = cycstat'[c]] /\ cycstat'[c] \in {"NOEXS", "STP", "STA"}
    /\ cycatr' = [cycatr EXCEPT ![c] = cycatr'[c]] /\ cycatr'[c] \in BOOLEAN
    /\ cyctim' = [cyctim EXCEPT ![c] = cyctim'[c]] /\ cyctim'[c] \in Nat
    /\ phase' = [phase EXCEPT ![c] = phase'[c]] /\ phase'[c] \in Int
    /\ QueueOK' /\ NothingDue'
    /\ ToSet(timer_queue') = IF cycstat'[c] = "STA" THEN ToSet(timer_queue) \cup {c}
                                                    ELSE ToSet(timer_queue) \ {c}
    /\ \A d \in Cycs : d # c => left'[d] = left[d]
    /\ CycleOK(c)'

\* A step of one cyclic handler keeps the invariant when it keeps it for that
\* handler; so does one of an alarm handler.
LEMMA CycStep ==
  ASSUME TimeInv, NEW c \in Cycs, UNCHANGED tsk, CycChange(c)
  PROVE  TimeInv'
<1>. USE DEF CycChange
<1>1. TimerInv /\ SyncTypeOK /\ NobodyWaitsInVain /\ HandlersOK /\ ClockOK /\ MembersOK
  BY DEF TimeInv, TimerInv
<1>2. SyncTypeOK' /\ NobodyWaitsInVain'
  BY <1>1, SyncStill
<1>3. ClockOK'
  BY <1>1, CalledClock, Owners
<1>4. HandlersOK'
  <2>1. cycstat' \in [Cycs -> {"NOEXS", "STP", "STA"}]
    BY <1>1 DEF HandlersOK
  <2>2. cycatr' \in [Cycs -> BOOLEAN]
    BY <1>1 DEF HandlersOK
  <2>3. cyctim' \in [Cycs -> Nat]
    BY <1>1 DEF HandlersOK
  <2>4. phase' \in [Cycs -> Int]
    BY <1>1 DEF HandlersOK
  <2>. QED  BY <1>1, <2>1, <2>2, <2>3, <2>4 DEF HandlersOK
<1>5. \A d \in Cycs : d # c => /\ cycstat'[d] = cycstat[d] /\ cyctim'[d] = cyctim[d]
                               /\ phase'[d] = phase[d]
  BY <1>1 DEF HandlersOK
<1>6. MembersOK'
  <2>1. \A t \in Tasks : t \in ToSet(timer_queue') => waiting(t)'
    BY <1>1, Owners DEF MembersOK, waiting, tsk
  <2>2. \A d \in Cycs : d \in ToSet(timer_queue') <=> cycstat'[d] = "STA"
    BY <1>1, <1>5 DEF MembersOK
  <2>3. \A a \in Alms : a \in ToSet(timer_queue') <=> almstat'[a] = "STA"
    BY <1>1, Owners DEF MembersOK
  <2>. QED  BY <2>1, <2>2, <2>3 DEF MembersOK
<1>7. \A d \in Cycs : CycleOK(d)'
  <2>1. ASSUME NEW d \in Cycs, d # c PROVE CycleOK(d)'
    BY <1>5, <2>1 DEF TimeInv, TimerInv, CycleOK
  <2>. QED  BY <2>1
<1>. QED  BY <1>2, <1>3, <1>4, <1>6, <1>7 DEF TimeInv, TimerInv

\* Only the alarm handler a changes, to the state s.
AlmChange(a, s) ==
    /\ UNCHANGED <<elapsed, in_timer, cycstat, cycatr, cyctim, phase>>
    /\ running' = running \/ (Len(running) < MaxNest /\ call(a))
    /\ s \in {"NOEXS", "STP", "STA"} /\ almstat' = [almstat EXCEPT ![a] = s]
    /\ QueueOK' /\ NothingDue'
    /\ ToSet(timer_queue') = IF s = "STA" THEN ToSet(timer_queue) \cup {a}
                                          ELSE ToSet(timer_queue) \ {a}
    /\ \A c \in Cycs : left'[c] = left[c]

\* A step of one alarm handler keeps the invariant.
LEMMA AlmStep ==
  ASSUME TimeInv, NEW a \in Alms, NEW s, UNCHANGED tsk, AlmChange(a, s)
  PROVE  TimeInv'
<1>. USE DEF AlmChange
<1>1. TimerInv /\ SyncTypeOK /\ NobodyWaitsInVain /\ HandlersOK /\ ClockOK /\ MembersOK
  BY DEF TimeInv, TimerInv
<1>2. SyncTypeOK' /\ NobodyWaitsInVain'
  BY <1>1, SyncStill
<1>3. ClockOK'
  BY <1>1, CalledClock, Owners
<1>4. HandlersOK'
  <2>1. almstat' \in [Alms -> {"NOEXS", "STP", "STA"}]
    BY <1>1 DEF HandlersOK
  <2>. QED  BY <1>1, <2>1 DEF HandlersOK
<1>5. \A b \in Alms : almstat'[b] = IF b = a THEN s ELSE almstat[b]
  BY <1>1 DEF HandlersOK
<1>6. MembersOK'
  <2>1. \A t \in Tasks : t \in ToSet(timer_queue') => waiting(t)'
    BY <1>1, Owners DEF MembersOK, waiting, tsk
  <2>2. \A d \in Cycs : d \in ToSet(timer_queue') <=> cycstat'[d] = "STA"
    BY <1>1, Owners DEF MembersOK
  <2>3. \A b \in Alms : b \in ToSet(timer_queue') <=> almstat'[b] = "STA"
    BY <1>1, <1>5 DEF MembersOK
  <2>. QED  BY <2>1, <2>2, <2>3 DEF MembersOK
<1>7. \A d \in Cycs : CycleOK(d)'
  BY DEF TimeInv, TimerInv, CycleOK
<1>. QED  BY <1>2, <1>3, <1>4, <1>6, <1>7 DEF TimeInv, TimerInv

-----------------------------------------------------------------------------
(* The calls on the handlers, one lemma per call.                          *)

\* What the invariant says of a cyclic handler.
LEMMA CycFacts ==
  ASSUME TimeInv, NEW c \in Cycs
  PROVE  /\ TimerInv /\ c \in Events /\ c \in Handlers /\ c \notin Tasks /\ c \notin Alms
         /\ elapsed \in 0..TIMER_PERIOD - 1 /\ elapsed \in Nat
         /\ timer_queue \in Seq(Events) /\ IsInjective(timer_queue)
         /\ left \in [Events -> Int] /\ left[c] \in Int /\ \A d \in Cycs : d \in Events
         /\ deadline \in [Events -> Int \cup {NULL}] /\ deadline[c] = NULL
         /\ cycstat \in [Cycs -> {"NOEXS", "STP", "STA"}] /\ cycatr \in [Cycs -> BOOLEAN]
         /\ cyctim \in [Cycs -> Nat] /\ phase \in [Cycs -> Int]
         /\ CycleOK(c) /\ (c \in ToSet(timer_queue) <=> cycstat[c] = "STA")
BY Owners, TimerAssumption
   DEF TimeInv, TimerInv, ClockOK, QueueOK, TimerOK, HandlersOK, MembersOK

\* What does not change.
LEMMA SameHandlers ==
  ASSUME TimeInv, NEW c \in Cycs
  PROVE  /\ cycstat' = cycstat => cycstat' = [cycstat EXCEPT ![c] = cycstat'[c]]
         /\ cycatr' = cycatr => cycatr' = [cycatr EXCEPT ![c] = cycatr'[c]]
         /\ cyctim' = cyctim => cyctim' = [cyctim EXCEPT ![c] = cyctim'[c]]
         /\ phase' = phase => phase' = [phase EXCEPT ![c] = phase'[c]]
BY CycFacts

\* A cyclic handler is queued, whether it was queued or not.
LEMMA CycInserted ==
  ASSUME TimeInv, NEW c \in Cycs, NEW x \in Int, x > 0, insert(QueRemove(timer_queue, c), c, x),
         deadline' = deadline, in_timer' = in_timer
  PROVE  /\ QueueOK' /\ NothingDue'
         /\ ToSet(timer_queue') = ToSet(timer_queue) \cup {c}
         /\ left'[c] = x /\ \A d \in Cycs : d # c => left'[d] = left[d]
<1>1. deadline' = [deadline EXCEPT ![c] = IF c \in Cycs THEN NULL ELSE x]
  BY CycFacts
<1>2. /\ left' = [left EXCEPT ![c] = x]
      /\ timer_queue' = enqueue_tmeb(QueRemove(timer_queue, c), left', c)
  BY DEF insert
<1>. QED  BY <1>1, <1>2, CycFacts, Requeued

\* cyc_next_time keeps a handler in its cycle.
LEMMA NextTimeInCycle ==
  ASSUME NEW c, NEW tm \in Int, NEW p \in Int, NEW n \in Nat \ {0}, Multiple(tm - p, n)
  PROVE  LET r == cyc_next_time(c, tm, n)
         IN  r \in Int /\ r > 0 /\ Multiple(r - p, n) /\ (r <= n \/ r <= n + tm)
<1>. DEFINE r == cyc_next_time(c, tm, n)
<1>1. r \in Int /\ r > 0 /\ Multiple(r - tm, n) /\ (r <= n \/ r <= n + tm)
  BY NextTime
<1>. HIDE DEF r
<1>2. Multiple((r - tm) + (tm - p), n)
  <2>1. r - tm \in Int /\ tm - p \in Int /\ n \in Nat
    BY <1>1
  <2>. QED  BY <1>1, <2>1, MultipleSum
<1>3. (r - tm) + (tm - p) = r - p
  BY <1>1
<1>4. Multiple(r - p, n)
  BY <1>2, <1>3
<1>. QED  BY <1>1, <1>4 DEF r

\* tk_cre_cyc begins the cycle, with a first call at once, after cycphs, or not
\* before tk_sta_cyc.
LEMMA CreCyc ==
  ASSUME TimeInv, NEW c \in Cycs, NEW k \in CycKinds, cre_cyc(c, k), UNCHANGED tsk
  PROVE  TimeInv'
<1>. DEFINE tm == k.cycphs + elapsed
            n == k.cyctim
            p == elapsed + k.cycphs
<1>1. k.phs \in BOOLEAN /\ k.sta \in BOOLEAN /\ n \in Nat \ {0} /\ k.cycphs \in Nat
  BY HandlerAssumption
<1>2. elapsed \in Nat /\ tm \in Nat /\ p = tm
  BY <1>1, CycFacts
<1>3. p \in Int /\ Multiple(tm - p, n)
  <2>1. tm - p = 0
    BY <1>2
  <2>2. 0 \in Int /\ n \in Nat /\ 0 = 0 * n
    BY <1>1
  <2>3. Multiple(0, n)
    BY <2>2 DEF Multiple
  <2>. QED  BY <1>2, <2>1, <2>3
<1>. HIDE DEF tm, n, p
<1>4. /\ cycstat[c] = "NOEXS"
      /\ cycatr' = [cycatr EXCEPT ![c] = k.phs] /\ cyctim' = [cyctim EXCEPT ![c] = n]
      /\ cycstat' = [cycstat EXCEPT ![c] = IF k.sta THEN "STA" ELSE "STP"]
      /\ phase' = [phase EXCEPT ![c] = p]
      /\ UNCHANGED <<elapsed, in_timer, deadline, almstat>>
  BY DEF cre_cyc, set_phase, n, p
<1>5. /\ cycatr'[c] = k.phs /\ cyctim'[c] = n /\ phase'[c] = p
      /\ cycstat'[c] = IF k.sta THEN "STA" ELSE "STP"
  BY <1>4, CycFacts
<1>6. /\ cycatr' = [cycatr EXCEPT ![c] = cycatr'[c]] /\ cyctim' = [cyctim EXCEPT ![c] = cyctim'[c]]
      /\ cycstat' = [cycstat EXCEPT ![c] = cycstat'[c]] /\ phase' = [phase EXCEPT ![c] = phase'[c]]
  BY <1>4, <1>5
<1>7. c \notin ToSet(timer_queue) /\ QueRemove(timer_queue, c) = timer_queue
  <2>1. c \notin ToSet(timer_queue)
    BY <1>4, CycFacts
  <2>. QED  BY <2>1, CycFacts, QueRemoveHead
<1>8. /\ QueueOK' /\ NothingDue'
      /\ ToSet(timer_queue') = IF cycstat'[c] = "STA" THEN ToSet(timer_queue) \cup {c}
                                                      ELSE ToSet(timer_queue) \ {c}
      /\ \A d \in Cycs : d # c => left'[d] = left[d]
      /\ running' = running \/ (Len(running) < MaxNest /\ call(c))
      /\ left'[c] \in Int /\ (left'[c] <= n + elapsed \/ left'[c] = p)
      /\ Multiple(left'[c] - p, n)
  <2>1. CASE ~k.sta
    <3>1. left' = [left EXCEPT ![c] = tm] /\ UNCHANGED <<timer_queue, running>>
      BY <2>1 DEF cre_cyc, tm, adjust_time
    <3>2. left' \in [Events -> Int] /\ left'[c] = tm /\ \A y \in Events : y # c => left'[y] = left[y]
      <4>1. tm \in Int /\ c \in Events /\ left \in [Events -> Int]
        BY <1>2, CycFacts
      <4>2. left' \in [Events -> Int]
        BY <3>1, <4>1
      <4>. QED  BY <3>1, <4>1, <4>2
    <3>3. NoTime(c, left, deadline, left', deadline')
      BY <1>4, <3>2, CycFacts DEF NoTime
    <3>4. timer_queue' = QueRemove(timer_queue, c) /\ QueueOK
      BY <1>7, <3>1 DEF TimeInv, TimerInv
    <3>5. QueueOK' /\ ToSet(timer_queue') = ToSet(timer_queue) \ {c}
      BY <3>3, <3>4, RemovedStep
    <3>6. NothingDue'
      <4>1. \A e \in ToSet(timer_queue) : e \in Events /\ e # c
        BY <1>7, CycFacts, MemberPosition
      <4>. QED  BY <1>4, <3>1, <3>2, <4>1 DEF TimeInv, TimerInv, NothingDue
    <3>. QED  BY <1>2, <1>3, <1>5, <2>1, <3>1, <3>2, <3>5, <3>6, CycFacts
  <2>2. CASE k.sta /\ k.cycphs > 0
    <3>1. insert(QueRemove(timer_queue, c), c, tm) /\ UNCHANGED running
      BY <1>7, <2>2 DEF cre_cyc, tm, adjust_time
    <3>2. tm \in Int /\ tm > 0
      BY <1>1, <1>2, <2>2 DEF tm
    <3>3. /\ QueueOK' /\ NothingDue' /\ ToSet(timer_queue') = ToSet(timer_queue) \cup {c}
          /\ left'[c] = tm /\ \A d \in Cycs : d # c => left'[d] = left[d]
      BY <1>4, <3>1, <3>2, CycInserted
    <3>. QED  BY <1>2, <1>3, <1>5, <2>2, <3>1, <3>3
  <2>3. CASE k.sta /\ k.cycphs = 0
    <3>. DEFINE r == cyc_next_time(c, tm, n)
    <3>1. insert(QueRemove(timer_queue, c), c, r) /\ Len(running) < MaxNest /\ call(c)
      BY <1>7, <2>3 DEF cre_cyc, tm, n, adjust_time, immediate_call
    <3>2. r \in Int /\ r > 0 /\ Multiple(r - p, n) /\ (r <= n \/ r <= n + tm)
      BY <1>1, <1>2, <1>3, NextTimeInCycle
    <3>. HIDE DEF r
    <3>3. /\ QueueOK' /\ NothingDue' /\ ToSet(timer_queue') = ToSet(timer_queue) \cup {c}
          /\ left'[c] = r /\ \A d \in Cycs : d # c => left'[d] = left[d]
      BY <1>4, <3>1, <3>2, CycInserted
    <3>4. r <= n + elapsed
      BY <1>1, <1>2, <2>3, <3>2 DEF tm
    <3>. QED  BY <1>5, <2>3, <3>1, <3>2, <3>3, <3>4
  <2>4. k.cycphs > 0 \/ k.cycphs = 0
    BY <1>1
  <2>. QED  BY <1>1, <2>1, <2>2, <2>3, <2>4
<1>9. CycleOK(c)'
  <2>1. cycstat'[c] # "NOEXS" /\ n # 0
    BY <1>1, <1>5
  <2>. QED  BY <1>4, <1>5, <1>8, <2>1 DEF CycleOK
<1>10. cycstat'[c] \in {"NOEXS", "STP", "STA"} /\ cycatr'[c] \in BOOLEAN /\ cyctim'[c] \in Nat /\ phase'[c] \in Int
  BY <1>1, <1>3, <1>5
<1>11. CycChange(c)
  BY <1>4, <1>6, <1>8, <1>9, <1>10 DEF CycChange
<1>. QED  BY <1>11, CycStep

\* tk_del_cyc takes the handler from the queue, from within itself too.
LEMMA DelCyc ==
  ASSUME TimeInv, NEW c \in Cycs, del_cyc(c), UNCHANGED tsk
  PROVE  TimeInv'
<1>1. /\ cycstat' = [cycstat EXCEPT ![c] = "NOEXS"] /\ cycatr' = [cycatr EXCEPT ![c] = FALSE]
      /\ cyctim' = [cyctim EXCEPT ![c] = 0] /\ phase' = [phase EXCEPT ![c] = 0]
      /\ UNCHANGED <<elapsed, in_timer, running, almstat>>
  BY DEF del_cyc
<1>2. cycstat'[c] = "NOEXS" /\ cycatr'[c] = FALSE /\ cyctim'[c] = 0 /\ phase'[c] = 0
  BY <1>1, CycFacts
<1>3. /\ cycatr' = [cycatr EXCEPT ![c] = cycatr'[c]] /\ cyctim' = [cyctim EXCEPT ![c] = cyctim'[c]]
      /\ cycstat' = [cycstat EXCEPT ![c] = cycstat'[c]] /\ phase' = [phase EXCEPT ![c] = phase'[c]]
  BY <1>1, <1>2
<1>4. /\ QueueOK' /\ NothingDue' /\ ToSet(timer_queue') = ToSet(timer_queue) \ {c}
      /\ \A d \in Cycs : left'[d] = left[d]
  <2>1. CASE cycstat[c] = "STA"
    <3>1. timer_delete(c)
      BY <2>1 DEF del_cyc
    <3>. QED  BY <1>1, <3>1, CycFacts, Dequeued
  <2>2. CASE cycstat[c] # "STA"
    <3>1. UNCHANGED <<timer_queue, left, deadline>>
      BY <2>2 DEF del_cyc
    <3>2. c \notin ToSet(timer_queue)
      BY <2>2, CycFacts
    <3>3. QueueOK' /\ NothingDue'
      BY <1>1, <3>1 DEF TimeInv, TimerInv, QueueOK, NothingDue
    <3>. QED  BY <3>1, <3>2, <3>3
  <2>. QED  BY <2>1, <2>2
<1>5. CycleOK(c)'
  BY <1>2 DEF CycleOK
<1>6. /\ cycstat'[c] \in {"NOEXS", "STP", "STA"} /\ cycatr'[c] \in BOOLEAN
      /\ cyctim'[c] \in Nat /\ phase'[c] \in Int
  <2>1. 0 \in Nat /\ 0 \in Int
    OBVIOUS
  <2>. QED  BY <1>2, <2>1
<1>7. /\ ToSet(timer_queue') = IF cycstat'[c] = "STA" THEN ToSet(timer_queue) \cup {c}
                                                      ELSE ToSet(timer_queue) \ {c}
      /\ \A d \in Cycs : d # c => left'[d] = left[d]
  <2>1. cycstat'[c] # "STA"
    BY <1>2
  <2>. QED  BY <1>4, <2>1
<1>8. UNCHANGED <<elapsed, in_timer, running, almstat>>
  BY <1>1
<1>9. QueueOK' /\ NothingDue'
  BY <1>4
<1>10. CycChange(c)
  BY <1>3, <1>5, <1>6, <1>7, <1>8, <1>9 DEF CycChange
<1>. QED  BY <1>10, CycStep

\* tk_sta_cyc goes on in the cycle with TA_PHS, and begins a new one without.
LEMMA StaCyc ==
  ASSUME TimeInv, NEW c \in Cycs, sta_cyc(c), UNCHANGED tsk
  PROVE  TimeInv'
<1>. DEFINE n == cyctim[c]
<1>1. /\ cycstat[c] # "NOEXS" /\ cycstat' = [cycstat EXCEPT ![c] = "STA"]
      /\ UNCHANGED <<elapsed, in_timer, running, deadline, almstat, cycatr, cyctim>>
  BY DEF sta_cyc
<1>2. /\ n \in Nat \ {0} /\ left[c] \in Int /\ elapsed \in Nat /\ phase[c] \in Int
      /\ left[c] <= n + elapsed \/ left[c] = phase[c]
      /\ Multiple(left[c] - phase[c], n)
  BY <1>1, CycFacts DEF CycleOK
<1>3. /\ cycstat'[c] = "STA" /\ cycstat' = [cycstat EXCEPT ![c] = cycstat'[c]]
      /\ cycatr'[c] = cycatr[c] /\ cycatr[c] \in BOOLEAN /\ cyctim'[c] = n
  BY <1>1, CycFacts
<1>4. /\ QueueOK' /\ NothingDue' /\ ToSet(timer_queue') = ToSet(timer_queue) \cup {c}
      /\ \A d \in Cycs : d # c => left'[d] = left[d]
      /\ phase' = [phase EXCEPT ![c] = phase'[c]] /\ phase'[c] \in Int
      /\ left'[c] <= n + elapsed \/ left'[c] = phase'[c]
      /\ Multiple(left'[c] - phase'[c], n)
  <2>1. CASE cycatr[c] /\ cycstat[c] = "STA"
    <3>1. UNCHANGED <<timer_queue, left, phase>>
      BY <2>1 DEF sta_cyc
    <3>2. QueueOK' /\ NothingDue'
      BY <1>1, <3>1 DEF TimeInv, TimerInv, QueueOK, NothingDue
    <3>3. c \in ToSet(timer_queue)
      BY <2>1, CycFacts
    <3>. QED  BY <1>2, <3>1, <3>2, <3>3, SameHandlers
  <2>2. CASE cycatr[c] /\ cycstat[c] # "STA"
    <3>. DEFINE r == IF left[c] > 0 THEN left[c] ELSE cyc_next_time(c, left[c], n)
    <3>1. c \notin ToSet(timer_queue)
      BY <2>2, CycFacts
    <3>2. QueRemove(timer_queue, c) = timer_queue
      BY <3>1, CycFacts, QueRemoveHead
    <3>3. insert(QueRemove(timer_queue, c), c, r) /\ UNCHANGED phase
      BY <2>2, <3>2 DEF sta_cyc
    <3>4. /\ r \in Int /\ r > 0 /\ Multiple(r - phase[c], n)
          /\ r <= n + elapsed \/ r = phase[c]
      <4>1. CASE left[c] > 0
        BY <1>2, <4>1
      <4>2. CASE ~(left[c] > 0)
        <5>. DEFINE s == cyc_next_time(c, left[c], n)
        <5>1. s \in Int /\ s > 0 /\ Multiple(s - phase[c], n) /\ (s <= n \/ s <= n + left[c])
          BY <1>2, NextTimeInCycle
        <5>2. r = s
          BY <4>2
        <5>. HIDE DEF s, r, n
        <5>. QED  BY <1>2, <4>2, <5>1, <5>2
      <4>. QED  BY <4>1, <4>2
    <3>. HIDE DEF r, n
    <3>5. /\ QueueOK' /\ NothingDue' /\ ToSet(timer_queue') = ToSet(timer_queue) \cup {c}
          /\ left'[c] = r /\ \A d \in Cycs : d # c => left'[d] = left[d]
      BY <1>1, <3>3, <3>4, CycInserted
    <3>. QED  BY <1>2, <3>3, <3>4, <3>5, SameHandlers
  <2>3. CASE ~cycatr[c]
    <3>. DEFINE p == elapsed
    <3>1. /\ insert(QueRemove(timer_queue, c), c, n + elapsed)
          /\ phase' = [phase EXCEPT ![c] = p]
      BY <2>3 DEF sta_cyc, sta_cyc_stop, adjust_time, set_phase
    <3>2. p \in Int /\ Multiple(elapsed - p, n)
      <4>1. elapsed - p = 0
        BY <1>2
      <4>2. 0 \in Int /\ n \in Nat /\ 0 = 0 * n
        BY <1>2
      <4>3. Multiple(0, n)
        BY <4>2 DEF Multiple
      <4>. QED  BY <1>2, <4>1, <4>3
    <3>. HIDE DEF p, n
    <3>3. n + elapsed \in Int /\ n + elapsed > 0
      BY <1>2
    <3>4. /\ QueueOK' /\ NothingDue' /\ ToSet(timer_queue') = ToSet(timer_queue) \cup {c}
          /\ left'[c] = n + elapsed /\ \A d \in Cycs : d # c => left'[d] = left[d]
      BY <1>1, <3>1, <3>3, CycInserted
    <3>5. phase'[c] = p
      BY <3>1, CycFacts
    <3>6. phase' = [phase EXCEPT ![c] = phase'[c]]
      BY <3>1, <3>5
    <3>7. Multiple(n + (elapsed - p), n)
      <4>1. n \in Int /\ n \in Nat /\ elapsed - p \in Int /\ Multiple(n, n)
        BY <1>2, <3>2, MultipleSum
      <4>. QED  BY <3>2, <4>1, MultipleSum
    <3>8. n + (elapsed - p) = (n + elapsed) - p
      BY <1>2, <3>2
    <3>9. Multiple(left'[c] - phase'[c], n) /\ left'[c] <= n + elapsed
      BY <1>2, <3>4, <3>5, <3>7, <3>8
    <3>. QED  BY <3>2, <3>4, <3>5, <3>6, <3>9
  <2>. QED  BY <1>3, <2>1, <2>2, <2>3
<1>. HIDE DEF n
<1>5. CycleOK(c)'
  <2>1. n # 0
    BY <1>2
  <2>. QED  BY <1>1, <1>3, <1>4, <2>1 DEF CycleOK
<1>6. cycatr' = [cycatr EXCEPT ![c] = cycatr'[c]] /\ cyctim' = [cyctim EXCEPT ![c] = cyctim'[c]]
  BY <1>1, SameHandlers
<1>7. cycatr'[c] \in BOOLEAN /\ cyctim'[c] \in Nat
  BY <1>2, <1>3
<1>8. UNCHANGED <<elapsed, in_timer, running, almstat>>
  BY <1>1
<1>9. QueueOK' /\ NothingDue'
  BY <1>4
<1>10. CycChange(c)
  BY <1>3, <1>4, <1>5, <1>6, <1>7, <1>8, <1>9 DEF CycChange
<1>. QED  BY <1>10, CycStep

\* tk_stp_cyc keeps the place in the cycle.
LEMMA StpCyc ==
  ASSUME TimeInv, NEW c \in Cycs, stp_cyc(c), UNCHANGED tsk
  PROVE  TimeInv'
<1>1. /\ cycstat[c] = "STA" /\ timer_delete(c) /\ cycstat' = [cycstat EXCEPT ![c] = "STP"]
      /\ UNCHANGED <<elapsed, in_timer, running, almstat, cycatr, cyctim, phase>>
  BY DEF stp_cyc
<1>2. cycstat'[c] = "STP" /\ cycstat' = [cycstat EXCEPT ![c] = cycstat'[c]]
  BY <1>1, CycFacts
<1>3. /\ QueueOK' /\ NothingDue' /\ ToSet(timer_queue') = ToSet(timer_queue) \ {c}
      /\ \A d \in Cycs : left'[d] = left[d]
  BY <1>1, CycFacts, Dequeued
<1>4. CycleOK(c)'
  BY <1>1, <1>2, <1>3, CycFacts DEF CycleOK
<1>5. cycatr'[c] \in BOOLEAN /\ cyctim'[c] \in Nat /\ phase'[c] \in Int
  BY <1>1, CycFacts
<1>6. /\ cycatr' = [cycatr EXCEPT ![c] = cycatr'[c]] /\ cyctim' = [cyctim EXCEPT ![c] = cyctim'[c]]
      /\ phase' = [phase EXCEPT ![c] = phase'[c]]
  BY <1>1, SameHandlers
<1>7. CycChange(c)
  BY <1>1, <1>2, <1>3, <1>4, <1>5, <1>6 DEF CycChange
<1>. QED  BY <1>7, CycStep

\* What the invariant says of an alarm handler.
LEMMA AlmFacts ==
  ASSUME TimeInv, NEW a \in Alms
  PROVE  /\ TimerInv /\ a \in Events /\ a \in Handlers /\ a \notin Tasks /\ a \notin Cycs
         /\ elapsed \in Nat /\ timer_queue \in Seq(Events)
         /\ almstat \in [Alms -> {"NOEXS", "STP", "STA"}]
         /\ (a \in ToSet(timer_queue) <=> almstat[a] = "STA")
BY Owners, TimerAssumption
   DEF TimeInv, TimerInv, ClockOK, QueueOK, TimerOK, HandlersOK, MembersOK

\* tk_cre_alm queues nothing.
LEMMA CreAlm ==
  ASSUME TimeInv, NEW a \in Alms, cre_alm(a), UNCHANGED tsk
  PROVE  TimeInv'
<1>1. /\ almstat[a] = "NOEXS" /\ almstat' = [almstat EXCEPT ![a] = "STP"]
      /\ UNCHANGED <<timer, cycstat, cycatr, cyctim, phase>>
  BY DEF cre_alm
<1>2. UNCHANGED <<elapsed, timer_queue, left, in_timer, running, deadline>>
  BY <1>1 DEF timer
<1>3. QueueOK' /\ NothingDue'
  BY <1>2 DEF TimeInv, TimerInv, QueueOK, NothingDue
<1>4. a \notin ToSet(timer_queue)
  BY <1>1, AlmFacts
<1>5. AlmChange(a, "STP")
  BY <1>1, <1>2, <1>3, <1>4 DEF AlmChange
<1>. QED  BY <1>5, AlmStep

\* An alarm handler is stopped or deleted, or its time has come.
LEMMA AlmStopped ==
  ASSUME TimeInv, NEW a \in Alms, NEW s \in {"NOEXS", "STP"}, timer_delete(a),
         almstat' = [almstat EXCEPT ![a] = s], UNCHANGED tsk,
         UNCHANGED <<elapsed, in_timer, cycstat, cycatr, cyctim, phase>>,
         running' = running \/ (Len(running) < MaxNest /\ call(a))
  PROVE  TimeInv'
<1>1. /\ QueueOK' /\ NothingDue' /\ ToSet(timer_queue') = ToSet(timer_queue) \ {a}
      /\ \A c \in Cycs : left'[c] = left[c]
  BY AlmFacts, Dequeued
<1>2. s # "STA" /\ s \in {"NOEXS", "STP", "STA"}
  OBVIOUS
<1>3. AlmChange(a, s)
  BY <1>1, <1>2 DEF AlmChange
<1>. QED  BY <1>3, AlmStep

\* tk_sta_alm sets an alarm anew, or calls its handler at once.
LEMMA StaAlm ==
  ASSUME TimeInv, NEW a \in Alms, NEW almtim \in AlmTimes, sta_alm(a, almtim), UNCHANGED tsk
  PROVE  TimeInv'
<1>1. UNCHANGED <<elapsed, in_timer, cycstat, cycatr, cyctim, phase>>
  BY DEF sta_alm
<1>2. CASE almtim > 0
  <2>. DEFINE x == almtim + elapsed
  <2>1. x \in Int /\ x > 0 /\ elapsed + almtim = x
    BY <1>2, AlmFacts, HandlerAssumption
  <2>2. /\ left' = [left EXCEPT ![a] = x]
        /\ timer_queue' = enqueue_tmeb(QueRemove(timer_queue, a), left', a)
        /\ almstat' = [almstat EXCEPT ![a] = "STA"] /\ running' = running
        /\ deadline' = [deadline EXCEPT ![a] = elapsed + almtim]
    BY <1>2 DEF sta_alm, alm_timer_insert, insert_reltim, insert, adjust_time
  <2>. HIDE DEF x
  <2>3. deadline' = [deadline EXCEPT ![a] = IF a \in Cycs THEN NULL ELSE x]
    BY <2>1, <2>2, AlmFacts
  <2>4. /\ QueueOK' /\ NothingDue' /\ ToSet(timer_queue') = ToSet(timer_queue) \cup {a}
        /\ \A e \in Events : e # a => left'[e] = left[e]
    BY <1>1, <2>1, <2>2, <2>3, AlmFacts, Requeued
  <2>5. \A c \in Cycs : left'[c] = left[c]
    BY <2>4, AlmFacts, Owners
  <2>6. AlmChange(a, "STA")
    BY <1>1, <2>2, <2>4, <2>5 DEF AlmChange
  <2>. QED  BY <2>6, AlmStep
<1>3. CASE ~(almtim > 0)
  <2>1. /\ timer_delete(a) /\ almstat' = [almstat EXCEPT ![a] = "STP"]
        /\ Len(running) < MaxNest /\ call(a)
    BY <1>3 DEF sta_alm, immediate_call
  <2>. QED  BY <1>1, <2>1, AlmStopped
<1>. QED  BY <1>2, <1>3

\* Every call on a handler keeps the invariant.
LEMMA HandlerCallsKeep ==
  ASSUME TimeInv, HandlerCalls, UNCHANGED tsk
  PROVE  TimeInv'
<1>1. ASSUME NEW a \in Alms, del_alm(a) PROVE TimeInv'
  BY <1>1, AlmStopped DEF del_alm
<1>2. ASSUME NEW a \in Alms, stp_alm(a) PROVE TimeInv'
  BY <1>2, AlmStopped DEF stp_alm
<1>. QED  BY <1>1, <1>2, CreCyc, DelCyc, StaCyc, StpCyc, StaAlm, CreAlm DEF HandlerCalls

-----------------------------------------------------------------------------
(* timer_handler.                                                          *)

\* The event that expires is the first of the queue, and due.
LEMMA ExpiresFacts ==
  ASSUME TimeInv, NEW e \in Events, Expires(e)
  PROVE  /\ in_timer /\ running = <<>> /\ 0 < MaxNest /\ Len(running) = 0
         /\ e \in ToSet(timer_queue) /\ left[e] <= 0
         /\ QueueOK /\ QueRemoveNext(timer_queue) = QueRemove(timer_queue, e)
<1>1. /\ in_timer /\ running = <<>> /\ timer_queue # <<>> /\ e = Head(timer_queue) /\ left[e] <= 0
  BY DEF Expires, due, isQueEmpty, QueNext
<1>2. QueueOK /\ timer_queue \in Seq(Events) /\ IsInjective(timer_queue)
  BY DEF TimeInv, TimerInv, QueueOK, TimerOK
<1>3. e \in ToSet(timer_queue) /\ QueRemove(timer_queue, e) = Tail(timer_queue)
  BY <1>1, <1>2, MemberPosition, QueRemoveHead
<1>. QED  BY <1>1, <1>2, <1>3, TimerAssumption DEF QueRemoveNext

\* The callbacks of timer_handler: the timeout of a wait, a cyclic handler, whose
\* next call is queued, and an alarm handler.
LEMMA CallbacksKeep ==
  ASSUME TimeInv, Callbacks
  PROVE  TimeInv'
<1>1. ASSUME NEW t \in Tasks, WaitReleaseTmout(t), UNCHANGED handlers PROVE TimeInv'
  BY <1>1, ReleaseCall DEF WaitReleaseTmout
<1>2. ASSUME NEW c \in Cycs, CallCychdr(c), UNCHANGED tsk PROVE TimeInv'
  <2>. DEFINE n == cyctim[c]
              r == cyc_next_time(c, left[c], n)
  <2>1. /\ in_timer /\ Len(running) < MaxNest /\ call(c) /\ c \in ToSet(timer_queue) /\ left[c] <= 0
        /\ insert(QueRemove(timer_queue, c), c, r)
    <3>1. Expires(c) /\ call(c) /\ insert(QueRemoveNext(timer_queue), c, r)
      BY <1>2 DEF CallCychdr
    <3>. QED  BY <3>1, CycFacts, ExpiresFacts
  <2>2. UNCHANGED <<elapsed, in_timer, deadline, cycstat, almstat, cycatr, cyctim, phase>>
    BY <1>2 DEF CallCychdr, handlers
  <2>3. cycstat[c] = "STA"
    BY <2>1, CycFacts
  <2>4. /\ n \in Nat \ {0} /\ left[c] \in Int /\ elapsed \in Nat /\ phase[c] \in Int
        /\ Multiple(left[c] - phase[c], n)
    BY <2>3, CycFacts DEF CycleOK
  <2>5. r \in Int /\ r > 0 /\ Multiple(r - phase[c], n) /\ (r <= n \/ r <= n + left[c])
    BY <2>4, NextTimeInCycle
  <2>. HIDE DEF r, n
  <2>6. /\ QueueOK' /\ NothingDue' /\ ToSet(timer_queue') = ToSet(timer_queue) \cup {c}
        /\ left'[c] = r /\ \A d \in Cycs : d # c => left'[d] = left[d]
    BY <2>1, <2>2, <2>5, CycInserted
  <2>7. r <= n + elapsed
    BY <2>1, <2>4, <2>5
  <2>8. CycleOK(c)'
    <3>1. n = cyctim'[c] /\ n # 0 /\ cycstat'[c] # "NOEXS"
      BY <2>2, <2>3, <2>4 DEF n
    <3>. QED  BY <2>2, <2>5, <2>6, <2>7, <3>1 DEF CycleOK
  <2>9. /\ cycstat'[c] \in {"NOEXS", "STP", "STA"} /\ cycatr'[c] \in BOOLEAN
        /\ cyctim'[c] \in Nat /\ phase'[c] \in Int /\ cycstat'[c] = "STA"
    BY <2>2, <2>3, CycFacts
  <2>10. CycChange(c)
    BY <2>1, <2>2, <2>6, <2>8, <2>9, SameHandlers DEF CycChange
  <2>. QED  BY <1>2, <2>10, CycStep
<1>3. ASSUME NEW a \in Alms, CallAlmhdr(a), UNCHANGED tsk PROVE TimeInv'
  <2>1. Len(running) < MaxNest
    BY <1>3, AlmFacts, ExpiresFacts DEF CallAlmhdr
  <2>. QED  BY <1>3, <2>1, AlmStopped DEF CallAlmhdr
<1>. QED  BY <1>1, <1>2, <1>3 DEF Callbacks

\* The hardware timer goes on between two interrupts.
LEMMA ElapseKeeps ==
  ASSUME TimeInv, Elapse, UNCHANGED <<tsk, handlers>>
  PROVE  TimeInv'
<1>1. /\ elapsed < TIMER_PERIOD - 1 /\ elapsed' = elapsed + 1
      /\ UNCHANGED <<timer_queue, left, in_timer, running, deadline>>
      /\ UNCHANGED <<cycstat, almstat, cycatr, cyctim, phase>>
  BY DEF Elapse, handlers
<1>2. SyncTypeOK' /\ NobodyWaitsInVain'
  BY SyncStill DEF TimeInv
<1>3. ClockOK'
  BY <1>1, TimerAssumption DEF TimeInv, TimerInv, ClockOK
<1>4. HandlersOK' /\ QueueOK' /\ NothingDue'
  BY <1>1 DEF TimeInv, TimerInv, HandlersOK, QueueOK, NothingDue
<1>5. MembersOK'
  BY <1>1 DEF TimeInv, TimerInv, MembersOK, waiting, tsk
<1>6. ASSUME NEW c \in Cycs PROVE CycleOK(c)'
  <2>1. elapsed \in Nat /\ left[c] \in Int /\ cyctim[c] \in Nat /\ CycleOK(c)
    BY CycFacts
  <2>. QED  BY <1>1, <2>1 DEF CycleOK
<1>. QED  BY <1>2, <1>3, <1>4, <1>5, <1>6 DEF TimeInv, TimerInv

\* timer_handler returns when the head of the queue is not due: nothing is.
LEMMA TimerReturnKeeps ==
  ASSUME TimeInv, TimerReturn, UNCHANGED <<tsk, handlers>>
  PROVE  TimeInv'
<1>1. /\ ~due /\ in_timer' = FALSE
      /\ UNCHANGED <<elapsed, timer_queue, left, running, deadline>>
      /\ UNCHANGED <<cycstat, almstat, cycatr, cyctim, phase>>
  BY DEF TimerReturn, handlers
<1>2. SyncTypeOK' /\ NobodyWaitsInVain'
  BY SyncStill DEF TimeInv
<1>3. ClockOK' /\ HandlersOK' /\ QueueOK'
  BY <1>1 DEF TimeInv, TimerInv, ClockOK, HandlersOK, QueueOK
<1>4. \A e \in ToSet(timer_queue) : left[e] > 0
  <2>1. timer_queue \in Seq(Events) /\ Sorted(timer_queue, left) /\ left \in [Events -> Int]
    BY DEF TimeInv, TimerInv, QueueOK, TimerOK
  <2>2. CASE timer_queue = <<>>
    BY <2>1, <2>2, MemberPosition
  <2>3. CASE timer_queue # <<>>
    <3>1. ~(left[Head(timer_queue)] <= 0)
      BY <1>1, <2>3 DEF due, isQueEmpty, QueNext
    <3>2. Head(timer_queue) \in Events /\ \A e \in ToSet(timer_queue) : e \in Events
      BY <2>1, <2>3, MemberPosition
    <3>3. \A e \in ToSet(timer_queue) : left[Head(timer_queue)] <= left[e]
      BY <2>1, <2>3, SortedHead
    <3>4. \A e \in Events : left[e] \in Int
      BY <2>1
    <3>. QED  BY <3>1, <3>2, <3>3, <3>4
  <2>. QED  BY <2>2, <2>3
<1>5. NothingDue'
  BY <1>1, <1>4 DEF NothingDue
<1>6. MembersOK' /\ \A c \in Cycs : CycleOK(c)'
  BY <1>1 DEF TimeInv, TimerInv, MembersOK, CycleOK, waiting, tsk
<1>. QED  BY <1>2, <1>3, <1>5, <1>6 DEF TimeInv, TimerInv

\* The return of a handler changes nothing else.
LEMMA HandlerReturnsKeeps ==
  ASSUME TimeInv, HandlerReturns, UNCHANGED tsk
  PROVE  TimeInv'
<1>1. /\ running # <<>> /\ running' = Tail(running)
      /\ UNCHANGED <<elapsed, timer_queue, left, in_timer, deadline>>
      /\ UNCHANGED <<cycstat, almstat, cycatr, cyctim, phase>>
  BY DEF HandlerReturns, handlers
<1>2. SyncTypeOK' /\ NobodyWaitsInVain'
  BY SyncStill DEF TimeInv
<1>3. ClockOK'
  <2>1. running \in Seq(Handlers) /\ Len(running) <= MaxNest /\ MaxNest \in Nat
    BY TimerAssumption DEF TimeInv, TimerInv, ClockOK
  <2>2. running' \in Seq(Handlers) /\ Len(running') <= MaxNest
    BY <1>1, <2>1
  <2>. QED  BY <1>1, <2>2 DEF TimeInv, TimerInv, ClockOK
<1>4. HandlersOK' /\ QueueOK' /\ NothingDue'
  BY <1>1 DEF TimeInv, TimerInv, HandlersOK, QueueOK, NothingDue
<1>5. MembersOK' /\ \A c \in Cycs : CycleOK(c)'
  BY <1>1 DEF TimeInv, TimerInv, MembersOK, CycleOK, waiting, tsk
<1>. QED  BY <1>2, <1>3, <1>4, <1>5 DEF TimeInv, TimerInv

\* The time of a cyclic handler after a timer interrupt is still in its cycle.
LEMMA TickInCycle ==
  ASSUME NEW l \in Int, NEW ph \in Int, NEW n \in Nat \ {0}, NEW P \in Int,
         Multiple(l - ph, n), NEW p, p = ph - P \/ p = (ph - P) % n
  PROVE  LET m == l - P
         IN  /\ p \in Int /\ Multiple(m - p, n)
             /\ LET s == (m % n) - n IN s \in Int /\ s <= 0 /\ Multiple(s - p, n)
<1>. DEFINE m == l - P
            o == ph - P
            u == m % n
<1>1. m \in Int /\ o \in Int /\ n \in Nat /\ n > 0 /\ m - o = l - ph
  OBVIOUS
<1>0. p = o \/ p = o % n
  OBVIOUS
<1>. HIDE DEF m, o
<1>2. p \in Int /\ Multiple(o - p, n)
  <2>1. CASE p = o
    <3>1. o - p = 0 /\ 0 \in Int /\ 0 = 0 * n
      BY <1>1, <2>1
    <3>. QED  BY <1>1, <2>1, <3>1 DEF Multiple
  <2>2. CASE p = o % n
    <3>1. o % n \in 0..n-1 /\ Multiple(o - (o % n), n)
      BY <1>1, Remainder, Zenon
    <3>. QED  BY <2>2, <3>1
  <2>. QED  BY <1>0, <2>1, <2>2
<1>3. u \in 0..n-1 /\ Multiple(m - u, n)
  BY <1>1, Remainder, Zenon
<1>. HIDE DEF u
<1>4. p \in Int /\ u \in Int /\ u < n
  BY <1>1, <1>2, <1>3
<1>5. Multiple(m - p, n)
  <2>1. Multiple((m - o) + (o - p), n)
    <3>1. Multiple(m - o, n) /\ m - o \in Int /\ o - p \in Int
      BY <1>1, <1>4
    <3>. QED  BY <1>1, <1>2, <3>1, MultipleSum
  <2>2. (m - o) + (o - p) = m - p
    BY <1>1, <1>4
  <2>. QED  BY <2>1, <2>2
<1>6. Multiple((u - n) - p, n)
  <2>. DEFINE a == m - p
              b == m - u
              d == a - b
  <2>1. a \in Int /\ b \in Int /\ n \in Int
    BY <1>1, <1>4
  <2>2. Multiple(d, n) /\ Multiple(n, n)
    BY <1>1, <1>3, <1>5, <2>1, MultipleSum
  <2>3. d \in Int /\ (u - n) - p = d - n
    BY <1>1, <1>4
  <2>. HIDE DEF d
  <2>4. Multiple(d - n, n)
    BY <1>1, <2>1, <2>2, <2>3, MultipleSum
  <2>. QED  BY <2>3, <2>4
<1>7. u - n \in Int /\ u - n <= 0
  BY <1>1, <1>4
<1>. QED  BY <1>4, <1>5, <1>6, <1>7 DEF m, u

\* The timer interrupt lowers the times together: the order and the places in the
\* cycles stay, and a stopped handler is kept within one cycle.
LEMMA TimerTickKeeps ==
  ASSUME TimeInv, TimerTick, UNCHANGED tsk
  PROVE  TimeInv'
<1>1. /\ ~in_timer /\ running = <<>> /\ in_timer' = TRUE /\ elapsed' = 0 /\ left' = tick(cyctim)
      /\ deadline' = [e \in Events |-> IF deadline[e] = NULL \/ deadline[e] <= 0 THEN deadline[e]
                                       ELSE deadline[e] - TIMER_PERIOD]
      /\ UNCHANGED <<timer_queue, running, cycstat, almstat, cycatr, cyctim>>
      /\ phase' = [c \in Cycs |->
                      LET o == phase[c] - TIMER_PERIOD
                      IN  IF cyctim[c] = 0 THEN 0 ELSE IF o > 0 THEN o ELSE o % cyctim[c]]
  BY DEF TimerTick, TimerInterrupt
<1>2. SyncTypeOK' /\ NobodyWaitsInVain'
  BY SyncStill DEF TimeInv
<1>3. TIMER_PERIOD \in Nat /\ TIMER_PERIOD > 0 /\ TIMER_PERIOD \in Int
  BY TimerAssumption
<1>4. /\ timer_queue \in Seq(Events) /\ left \in [Events -> Int]
      /\ TimerOK(timer_queue, left, deadline)
      /\ cycstat \in [Cycs -> {"NOEXS", "STP", "STA"}]
      /\ cyctim \in [Cycs -> Nat] /\ phase \in [Cycs -> Int]
      /\ \A c \in Cycs : c \in ToSet(timer_queue) <=> cycstat[c] = "STA"
      /\ \A c \in Cycs : CycleOK(c)
  BY DEF TimeInv, TimerInv, QueueOK, TimerOK, HandlersOK, MembersOK
<1>5. ASSUME NEW e \in Events
      PROVE  /\ left'[e] \in Int
             /\ e \in ToSet(timer_queue) => left'[e] = left[e] - TIMER_PERIOD
             /\ e \in Cycs /\ cyctim[e] # 0 =>
                  \/ left'[e] = left[e] - TIMER_PERIOD
                  \/ left'[e] = ((left[e] - TIMER_PERIOD) % cyctim[e]) - cyctim[e]
  <2>. DEFINE l == left[e] - TIMER_PERIOD
  <2>1. l \in Int
    BY <1>3, <1>4
  <2>2. left'[e] = IF e \in ToSet(timer_queue) THEN l
                   ELSE IF e \notin Cycs \/ cyctim[e] = 0 THEN 0
                   ELSE IF l > 0 THEN l ELSE (l % cyctim[e]) - cyctim[e]
    BY <1>1 DEF tick
  <2>3. e \in Cycs /\ cyctim[e] # 0 => (l % cyctim[e]) - cyctim[e] \in Int
    <3>. SUFFICES ASSUME e \in Cycs, cyctim[e] # 0 PROVE (l % cyctim[e]) - cyctim[e] \in Int
      OBVIOUS
    <3>1. cyctim[e] \in Nat \ {0}
      BY <1>4
    <3>. HIDE DEF l
    <3>. QED  BY <2>1, <3>1
  <2>. HIDE DEF l
  <2>4. 0 \in Int
    OBVIOUS
  <2>5. left'[e] \in Int
    BY <2>1, <2>2, <2>3, <2>4
  <2>6. /\ e \in ToSet(timer_queue) => left'[e] = l
        /\ e \in Cycs /\ cyctim[e] # 0 => left'[e] = l \/ left'[e] = (l % cyctim[e]) - cyctim[e]
    BY <2>2
  <2>. QED  BY <2>5, <2>6 DEF l
<1>6. left' \in [Events -> Int]
  <2>1. left' = [e \in Events |-> left'[e]]
    BY <1>1 DEF tick
  <2>. QED  BY <1>5, <2>1
<1>7. QueueOK'
  <2>1. \A e \in ToSet(timer_queue) : e \in Events /\ left[e] > 0
    BY <1>1, <1>4, MemberPosition DEF TimeInv, TimerInv, NothingDue
  <2>2. \A e \in ToSet(timer_queue) : left'[e] = left[e] - TIMER_PERIOD
    BY <1>5, <2>1
  <2>3. TimerOK(timer_queue, left', deadline')
    BY <1>1, <1>4, <1>6, <2>1, <2>2, Ticked
  <2>. QED  BY <1>1, <2>3 DEF QueueOK
<1>8. NothingDue' /\ MembersOK'
  BY <1>1 DEF TimeInv, TimerInv, NothingDue, MembersOK, waiting, tsk
<1>9. ClockOK'
  <2>1. 0 \in 0..TIMER_PERIOD - 1
    BY <1>3
  <2>. QED  BY <1>1, <2>1 DEF TimeInv, TimerInv, ClockOK
<1>10. ASSUME NEW c \in Cycs, cyctim[c] # 0
       PROVE  /\ phase'[c] \in Int /\ Multiple(left'[c] - phase'[c], cyctim[c])
              /\ left'[c] <= cyctim[c] \/ left'[c] = phase'[c]
  <2>. DEFINE n == cyctim[c]
              m == left[c] - TIMER_PERIOD
              o == phase[c] - TIMER_PERIOD
              p == IF o > 0 THEN o ELSE o % n
              s == (m % n) - n
  <2>1. /\ n \in Nat \ {0} /\ left[c] \in Int /\ phase[c] \in Int /\ c \in Events
        /\ cycstat[c] # "NOEXS" /\ Multiple(left[c] - phase[c], n)
        /\ left[c] <= n + elapsed \/ left[c] = phase[c]
        /\ elapsed \in 0..TIMER_PERIOD - 1
    BY <1>4, <1>10, CycFacts DEF CycleOK
  <2>2. /\ p \in Int /\ Multiple(m - p, n)
        /\ s \in Int /\ s <= 0 /\ Multiple(s - p, n)
    <3>1. p = phase[c] - TIMER_PERIOD \/ p = (phase[c] - TIMER_PERIOD) % n
      OBVIOUS
    <3>. HIDE DEF p
    <3>. QED  BY <1>3, <2>1, <3>1, TickInCycle, Zenon
  <2>3. phase'[c] = p
    BY <1>1, <1>10
  <2>4. left'[c] = m \/ left'[c] = s
    BY <1>5, <1>10, <2>1
  <2>5. (m <= n \/ m = p) /\ n \in Nat
    <3>1. m \in Int /\ o \in Int
      BY <1>3, <2>1
    <3>2. m <= n \/ m = o
      BY <1>3, <2>1
    <3>. HIDE DEF m, o
    <3>3. CASE o > 0
      BY <2>1, <3>2, <3>3
    <3>4. CASE ~(o > 0)
      BY <2>1, <3>1, <3>2, <3>4
    <3>. QED  BY <3>3, <3>4
  <2>. HIDE DEF p, s, m
  <2>6. /\ left'[c] <= n \/ left'[c] = phase'[c]
        /\ Multiple(left'[c] - phase'[c], n) /\ phase'[c] \in Int
    BY <2>2, <2>3, <2>4, <2>5
  <2>. QED  BY <2>6
<1>11. HandlersOK'
  <2>1. \A c \in Cycs : phase'[c] \in Int
    <3>1. \A c \in Cycs : cyctim[c] = 0 => phase'[c] = 0
      BY <1>1
    <3>2. 0 \in Int
      OBVIOUS
    <3>. QED  BY <1>10, <3>1, <3>2
  <2>2. phase' = [c \in Cycs |-> phase'[c]]
    BY <1>1
  <2>3. phase' \in [Cycs -> Int]
    BY <2>1, <2>2
  <2>. QED  BY <1>1, <2>3 DEF TimeInv, TimerInv, HandlersOK
<1>12. \A c \in Cycs : CycleOK(c)'
  <2>. SUFFICES ASSUME NEW c \in Cycs PROVE CycleOK(c)'
    OBVIOUS
  <2>1. (cycstat[c] = "NOEXS" <=> cyctim[c] = 0) /\ cycstat'[c] = cycstat[c] /\ cyctim'[c] = cyctim[c]
        /\ elapsed' = 0 /\ cyctim[c] \in Nat
    BY <1>1, <1>4 DEF CycleOK
  <2>2. cyctim[c] # 0 => /\ left'[c] <= cyctim[c] + 0 \/ left'[c] = phase'[c]
                         /\ Multiple(left'[c] - phase'[c], cyctim[c])
    BY <1>10, <2>1
  <2>. QED  BY <2>1, <2>2 DEF CycleOK
<1>. QED  BY <1>2, <1>7, <1>8, <1>9, <1>11, <1>12 DEF TimeInv, TimerInv

-----------------------------------------------------------------------------
\* The invariant holds at the start.
LEMMA InitTime == Init => TimeInv
<1>. SUFFICES ASSUME Init PROVE TimeInv
  OBVIOUS
<1>1. /\ elapsed = 0 /\ timer_queue = <<>> /\ left = [e \in Events |-> 0]
      /\ in_timer = FALSE /\ running = <<>> /\ deadline = [e \in Events |-> NULL]
  BY DEF Init, timer_initialize
<1>2. 0 \in Int /\ 0 \in Nat /\ 0 \in 0..TIMER_PERIOD - 1 /\ 0 \in 0..WUP_MAX /\ 0 <= MaxNest
  BY TimerAssumption, SyncAssumption
<1>3. ClockOK
  <2>1. <<>> \in Seq(Handlers) /\ Len(<<>>) = 0
    OBVIOUS
  <2>. QED  BY <1>1, <1>2, <2>1 DEF ClockOK
<1>4. HandlersOK
  BY <1>2 DEF Init, HandlersInit, HandlersOK
<1>5. ToSet(timer_queue) = {} /\ timer_queue \in Seq(Events) /\ IsInjective(timer_queue) /\ Sorted(timer_queue, left)
  <2>1. <<>> \in Seq(Events) /\ Len(<<>>) = 0
    OBVIOUS
  <2>2. ToSet(timer_queue) = {}
    BY <1>1, <2>1, MemberPosition
  <2>3. IsInjective(timer_queue)
    <3>1. IsInjective(<<>>)
      BY DEF IsInjective
    <3>. QED  BY <1>1, <3>1
  <2>4. Sorted(timer_queue, left)
    BY <1>1, <2>1 DEF Sorted
  <2>. QED  BY <1>1, <2>1, <2>2, <2>3, <2>4
<1>6. QueueOK
  <2>1. left \in [Events -> Int] /\ deadline \in [Events -> Int \cup {NULL}]
    BY <1>1, <1>2
  <2>2. \A e \in Events : deadline[e] = NULL
    BY <1>1
  <2>. QED  BY <1>5, <2>1, <2>2 DEF QueueOK, TimerOK
<1>7. MembersOK /\ NothingDue
  BY <1>5 DEF Init, HandlersInit, MembersOK, NothingDue
<1>8. \A c \in Cycs : CycleOK(c)
  BY DEF Init, HandlersInit, CycleOK
<1>9. SyncTypeOK
  BY <1>2 DEF Init, SyncInit, SyncTypeOK, waiting
<1>10. NobodyWaitsInVain
  BY DEF Init, SyncInit, NobodyWaitsInVain, waiting
<1>. QED  BY <1>3, <1>4, <1>6, <1>7, <1>8, <1>9, <1>10 DEF TimeInv, TimerInv

\* Every step keeps it.
LEMMA NextTimeInv == TimeInv /\ [Next]_vars => TimeInv'
<1>. SUFFICES ASSUME TimeInv, [Next]_vars PROVE TimeInv'
  OBVIOUS
<1>1. CASE UNCHANGED vars
  <2>1. UNCHANGED <<timer, handlers>> /\ UNCHANGED tsk
    BY <1>1 DEF vars
  <2>2. TimerInv'
    BY <2>1, TimerStill DEF TimeInv, waiting, tsk
  <2>3. SyncTypeOK' /\ NobodyWaitsInVain'
    BY <2>1, SyncStill DEF TimeInv
  <2>. QED  BY <2>2, <2>3 DEF TimeInv
<1>2. CASE Next
  BY <1>2, ElapseKeeps, TimerTickKeeps, CallbacksKeep, TimerReturnKeeps, HandlerReturnsKeeps,
     TaskCallsKeep, HandlerCallsKeep DEF Next
<1>. QED  BY <1>1, <1>2

\* TimeInv is an invariant of the timers under their users, for any number of
\* tasks and handlers, any period, timeouts and cycles.
THEOREM TimeInvariant == Spec => []TimeInv
<1>. QED  BY InitTime, NextTimeInv, PTL DEF Spec

\* Type correctness of the timers and of the tasks that wait on them.
THEOREM TypeCorrect == Spec => []TypeOK
<1>1. TimeInv => TypeOK
  BY DEF TimeInv, TimerInv, ClockOK, HandlersOK, QueueOK, TimerOK, TypeOK
<1>. QED  BY <1>1, TimeInvariant, PTL

\* timer_handler may trust the timer queue: it holds exactly the events of the
\* tasks with a timeout and of the started handlers, each once and in order, and
\* between two interrupts nothing in it is due.
THEOREM QueueTrue == Spec => []TimerQueueTrue
<1>1. TimeInv => TimerQueueTrue
  <2>. SUFFICES ASSUME TimeInv PROVE TimerQueueTrue
    OBVIOUS
  <2>1. /\ timer_queue \in Seq(Events) /\ IsInjective(timer_queue) /\ Sorted(timer_queue, left)
        /\ \A e \in Events : /\ deadline[e] # NULL <=> e \in ToSet(timer_queue) /\ e \notin Cycs
                             /\ deadline[e] # NULL => deadline[e] = left[e]
    BY DEF TimeInv, TimerInv, QueueOK, TimerOK
  <2>2. MembersOK /\ NothingDue
    BY DEF TimeInv, TimerInv
  <2>3. ToSet(timer_queue) = {t \in Tasks : waiting(t) /\ deadline[t] # NULL}
                             \cup {c \in Cycs : cycstat[c] = "STA"}
                             \cup {a \in Alms : almstat[a] = "STA"}
    <3>1. \A e \in ToSet(timer_queue) : e \in Events
      BY <2>1, MemberPosition
    <3>2. \A t \in Tasks : t \in ToSet(timer_queue) <=> waiting(t) /\ deadline[t] # NULL
      BY <2>1, <2>2, Owners DEF MembersOK
    <3>. QED  BY <2>2, <3>1, <3>2, Owners DEF MembersOK
  <2>4. \A i, j \in DOMAIN timer_queue : i < j => left[timer_queue[i]] <= left[timer_queue[j]]
    <3>1. DOMAIN timer_queue = 1..Len(timer_queue)
      BY <2>1, LenProperties
    <3>. QED  BY <2>1, <3>1 DEF Sorted
  <2>5. NothingOverdue
    <3>1. \A e \in ToSet(timer_queue) : e \in Events
      BY <2>1, MemberPosition
    <3>. QED  BY <2>1, <2>2, <3>1 DEF NothingDue, NothingOverdue
  <2>. QED  BY <2>1, <2>3, <2>4, <2>5 DEF TimerQueueTrue, TimerQueueExact
<1>. QED  BY <1>1, TimeInvariant, PTL

\* Nobody sleeps over a queued wakeup, waits for an event that has occurred, or
\* for something whose wait is disabled.
THEOREM NoVainWait == Spec => []NobodyWaitsInVain
<1>1. TimeInv => NobodyWaitsInVain
  BY DEF TimeInv
<1>. QED  BY <1>1, TimeInvariant, PTL

\* The calls of a cyclic handler stay in its cycle, the first one at its phase
\* and the next one within a cycle, and what tk_ref_alm tells is true.
THEOREM TimesTrue == Spec => []HandlerTimesTrue
<1>1. TimeInv => HandlerTimesTrue
  <2>. SUFFICES ASSUME TimeInv PROVE HandlerTimesTrue
    OBVIOUS
  <2>1. ASSUME NEW c \in Cycs, cycstat[c] # "NOEXS"
        PROVE  /\ (left[c] - phase[c]) % cyctim[c] = 0
               /\ lfttim(c) <= cyctim[c] \/ left[c] = phase[c]
    <3>. DEFINE n == cyctim[c]
    <3>1. /\ n \in Nat \ {0} /\ left[c] \in Int /\ phase[c] \in Int /\ elapsed \in Nat
          /\ left[c] <= n + elapsed \/ left[c] = phase[c]
          /\ Multiple(left[c] - phase[c], n)
      BY <2>1, CycFacts DEF CycleOK
    <3>2. (left[c] - phase[c]) % n = 0
      <4>1. left[c] - phase[c] \in Int
        BY <3>1
      <4>. QED  BY <3>1, <4>1, NoRemainder, Zenon
    <3>3. ASSUME left[c] # phase[c] PROVE lfttim(c) <= n
      <4>. DEFINE r == cyc_next_time(c, left[c], n)
                  tm == IF cycstat[c] = "STP" /\ left[c] <= 0 THEN r ELSE left[c]
      <4>1. r \in Int /\ (r <= n \/ r <= n + left[c])
        BY <3>1, NextTimeInCycle
      <4>2. lfttim(c) = IF tm > elapsed THEN tm - elapsed ELSE 0
        BY DEF lfttim
      <4>. HIDE DEF r, n
      <4>3. tm \in Int /\ tm <= n + elapsed
        BY <3>1, <3>3, <4>1
      <4>. HIDE DEF tm
      <4>. QED  BY <3>1, <4>2, <4>3
    <3>. QED  BY <3>2, <3>3
  <2>2. ASSUME NEW a \in Alms, almstat[a] = "STA"
        PROVE  lfttim_alm(a) = IF deadline[a] > elapsed THEN deadline[a] - elapsed ELSE 0
    <3>1. a \in Events /\ a \notin Cycs /\ a \in ToSet(timer_queue)
      BY <2>2, AlmFacts
    <3>2. deadline[a] = left[a]
      BY <3>1 DEF TimeInv, TimerInv, QueueOK, TimerOK
    <3>. QED  BY <2>2, <3>2 DEF lfttim_alm
  <2>. QED  BY <2>1, <2>2 DEF HandlerTimesTrue
<1>. QED  BY <1>1, TimeInvariant, PTL

-----------------------------------------------------------------------------
(* OnTime, a property of the steps.                                        *)

\* timer_handler takes from the queue only what is due.
LEMMA TakesDue ==
  ASSUME TimeInv, Next, in_timer, running = <<>>, timer_queue' # timer_queue
  PROVE  deadline[Head(timer_queue)] = NULL \/ deadline[Head(timer_queue)] <= 0
<1>1. ~Callable /\ ~TaskRuns
  BY DEF Callable, TaskRuns
<1>2. ~TaskCalls
  BY <1>1 DEF TaskCalls, SleepCalls, EventCalls, WaitCalls, slp_tsk, wup_tsk, can_wup, wai_tev, sig_tev,
              dly_tsk, rel_wai, ena_wai, ter_tsk, sta_tsk, dis_wai, calls
<1>3. ~HandlerCalls
  BY <1>1 DEF HandlerCalls, cre_cyc, del_cyc, sta_cyc, stp_cyc, cre_alm, del_alm, sta_alm, stp_alm
<1>4. ~Elapse /\ ~TimerTick /\ ~TimerReturn /\ ~HandlerReturns
  BY DEF Elapse, TimerTick, TimerInterrupt, TimerReturn, HandlerReturns
<1>5. PICK e \in Events : Expires(e)
  BY <1>2, <1>3, <1>4, Owners DEF Next, Callbacks, WaitReleaseTmout, CallCychdr, CallAlmhdr
<1>6. e = Head(timer_queue) /\ left[e] <= 0
  BY <1>5 DEF Expires, due, QueNext
<1>. QED  BY <1>6 DEF TimeInv, TimerInv, QueueOK, TimerOK

\* With TA_PHS tk_sta_cyc starts a handler with the remaining time that
\* tk_ref_cyc told.
LEMMA StartsAsTold ==
  ASSUME TimeInv, Next, NEW c \in Cycs, cycatr[c], cycstat[c] = "STP", cycstat'[c] = "STA"
  PROVE  lfttim(c)' = lfttim(c)
<1>1. cycstat \in [Cycs -> {"NOEXS", "STP", "STA"}] /\ left \in [Events -> Int] /\ c \in Events
  BY CycFacts
<1>2. cycstat' # cycstat
  OBVIOUS
<1>3. HandlerCalls /\ UNCHANGED tsk
  <2>1. ~(Elapse /\ UNCHANGED <<tsk, handlers>>) /\ ~(TimerTick /\ UNCHANGED tsk)
    BY <1>2 DEF TimerTick, handlers
  <2>2. ~Callbacks
    BY <1>2 DEF Callbacks, CallCychdr, CallAlmhdr, handlers
  <2>3. ~(TimerReturn /\ UNCHANGED <<tsk, handlers>>) /\ ~(HandlerReturns /\ UNCHANGED tsk)
    BY <1>2 DEF HandlerReturns, handlers
  <2>4. ~(TaskCalls /\ UNCHANGED handlers)
    BY <1>2 DEF handlers
  <2>. QED  BY <2>1, <2>2, <2>3, <2>4 DEF Next
<1>4. PICK d \in Cycs : (\E k \in CycKinds : cre_cyc(d, k)) \/ del_cyc(d) \/ sta_cyc(d) \/ stp_cyc(d)
  BY <1>2, <1>3 DEF HandlerCalls, cre_alm, del_alm, sta_alm, stp_alm
<1>5. \E s \in {"NOEXS", "STP", "STA"} : cycstat' = [cycstat EXCEPT ![d] = s]
  BY <1>4 DEF cre_cyc, del_cyc, sta_cyc, stp_cyc
<1>6. d = c
  BY <1>1, <1>5
<1>7. sta_cyc(c)
  <2>1. ~(\E k \in CycKinds : cre_cyc(c, k))
    BY DEF cre_cyc
  <2>2. ~del_cyc(c)
    BY <1>1 DEF del_cyc
  <2>3. ~stp_cyc(c)
    BY DEF stp_cyc
  <2>. QED  BY <1>4, <1>6, <2>1, <2>2, <2>3
<1>8. elapsed' = elapsed
  BY <1>7 DEF sta_cyc
<1>9. left'[c] = IF left[c] > 0 THEN left[c] ELSE cyc_next_time(c, left[c], cyctim[c])
  BY <1>1, <1>7 DEF sta_cyc, insert
<1>10. lfttim(c)' = IF left'[c] > elapsed' THEN left'[c] - elapsed' ELSE 0
  BY DEF lfttim
<1>. QED  BY <1>1, <1>8, <1>9, <1>10 DEF lfttim

\* timer_handler ends no wait and calls no alarm handler before its time, and a
\* handler with TA_PHS starts with the remaining time that tk_ref_cyc told.
THEOREM StepsOnTime == Spec => OnTime
<1>1. ASSUME TimeInv, [Next]_vars
      PROVE  [ /\ in_timer /\ running = <<>> /\ timer_queue' # timer_queue
                    => deadline[Head(timer_queue)] = NULL \/ deadline[Head(timer_queue)] <= 0
               /\ \A c \in Cycs : cycatr[c] /\ cycstat[c] = "STP" /\ cycstat'[c] = "STA"
                    => lfttim(c)' = lfttim(c) ]_vars
  BY <1>1, TakesDue, StartsAsTold
<1>. QED  BY <1>1, TimeInvariant, PTL DEF Spec, OnTime

=============================================================================
