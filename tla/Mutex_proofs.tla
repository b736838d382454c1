---------------------------- MODULE Mutex_proofs ----------------------------
(***************************************************************************)
(* The mutexes, when tasks lock them in the order of their IDs: for any    *)
(* number of tasks, mutexes and priorities the queues and the lists of     *)
(* holders stay exact, and priorities are passed on along every chain.     *)
(***************************************************************************)
EXTENDS Mutex, Queue_proofs, FiniteSetTheorems

KStates == [mtxtsk : [Mutexes -> Tasks \cup {NULL}], wait_queue : [Mutexes -> Seq(Tasks)],
            mtxlist : [Tasks -> Seq(Mutexes)], state : [Tasks -> {"READY", "WAIT", "DORMANT"}],
            wid : [Tasks -> Mutexes \cup {NULL}], priority : [Tasks -> Pri], bpriority : [Tasks -> Pri]]

AtrTypes == [Mutexes -> MtxAtr \cup {NONE}]

Live(A) == {m \in Mutexes : A[m] # NONE}

\* The tasks in a queue: those that wait but x, which is on its way out.
Waits(k, x, u, m) == u \in Tasks /\ k.state[u] = "WAIT" /\ u # x /\ k.wid[u] = m

Queued(A, k, x) ==
    \A m \in Mutexes :
        /\ IsInjective(k.wait_queue[m])
        /\ \A u : u \in ToSet(k.wait_queue[m]) <=> Waits(k, x, u, m)
        /\ A[m].atr # "TFIFO" => Sorted(k.wait_queue[m], k.priority)

\* The lists hold the mutexes of E; that of d, which ends, may hold more than d does.
Lists(k, E, d) ==
    \A u \in Tasks :
        /\ IsInjective(k.mtxlist[u])
        /\ \A m \in E : k.mtxtsk[m] = u => m \in ToSet(k.mtxlist[u])
        /\ \A m \in ToSet(k.mtxlist[u]) : m \in E /\ (u # d => k.mtxtsk[m] = u)

\* A task waits for a mutex that another task holds and that comes after all it
\* holds itself.
Climbs(A, k) ==
    \A u \in Tasks : k.state[u] = "WAIT" =>
        /\ k.wid[u] \in Live(A) /\ k.mtxtsk[k.wid[u]] \in Tasks
        /\ \A h \in Live(A) : k.mtxtsk[h] = u => h < k.wid[u]

Awake(A, k) == \A m \in Live(A) : k.mtxtsk[m] \in Tasks => k.state[k.mtxtsk[m]] # "DORMANT"

Below(A, k) ==
    \A u \in Tasks : \A m \in Live(A) :
        /\ A[m].atr = "CEILING"
        /\ m \in ToSet(k.mtxlist[u]) \/ (k.state[u] = "WAIT" /\ k.wid[u] = m)
        => k.bpriority[u] >= A[m].ceilpri

\* The priorities u has a right to.
Bound(A, k, x, u, p) ==
    \/ p = k.bpriority[u]
    \/ \E m \in ToSet(k.mtxlist[u]) :
          \/ A[m].atr = "CEILING" /\ p = A[m].ceilpri
          \/ A[m].atr = "INHERIT" /\ \E v \in Tasks : Waits(k, x, v, m) /\ p = k.priority[v]

\* p is the highest of them and of those in P.
Least(A, k, x, P, u, p) ==
    /\ Bound(A, k, x, u, p) \/ p \in P
    /\ \A y : Bound(A, k, x, u, y) \/ y \in P => p <= y

Shape(A, k, x, E, d) == /\ k \in KStates /\ Queued(A, k, x) /\ Lists(k, E, d)
                        /\ Climbs(A, k) /\ Awake(A, k) /\ Below(A, k)

Good(A, k, x, E, d) == /\ Shape(A, k, x, E, d)
                       /\ \A u \in Tasks : u # d => Least(A, k, x, {}, u, k.priority[u])

MutexInv == mtxatr \in AtrTypes /\ Good(mtxatr, Kernel, NULL, Live(mtxatr), NULL)

-----------------------------------------------------------------------------
(* Priorities.                                                             *)

\* Priorities are numbers from 0.
LEMMA PriNumbers ==
  /\ Pri \subseteq Nat /\ INI_PRI \in Pri /\ NONE.ceilpri \in Pri
  /\ \A A \in AtrTypes : \A m \in Mutexes : A[m].ceilpri \in Pri
<1>1. Pri \subseteq Nat /\ INI_PRI \in Pri /\ 0 \in Pri
  BY MutexAssumption DEF Pri
<1>2. ASSUME NEW A \in AtrTypes, NEW m \in Mutexes  PROVE A[m].ceilpri \in Pri
  <2>1. A[m] \in MtxAtr \cup {NONE}
    BY DEF AtrTypes
  <2>. QED  BY <1>1, <2>1 DEF MtxAtr, NONE
<1>. QED  BY <1>1, <1>2 DEF NONE

\* They order the queues.
LEMMA KeyTypes ==
  ASSUME NEW k \in KStates
  PROVE  k.priority \in [Tasks -> Pri] /\ k.priority \in [Tasks -> Int]
<1>1. k.priority \in [Tasks -> Pri]
  BY DEF KStates
<1>2. Pri \subseteq Int
  BY PriNumbers
<1>. QED  BY <1>1, <1>2

\* The least of a set that has one.
LEMMA LeastIsMin ==
  ASSUME NEW S, NEW p \in S, S \subseteq Int, \A y \in S : p <= y
  PROVE  Min(S) = p
<1>1. \E x \in S : \A y \in S : x =< y
  OBVIOUS
<1>2. Min(S) \in S /\ \A y \in S : Min(S) =< y
  BY <1>1, Zenon DEF Min
<1>3. Min(S) \in Int /\ p \in Int /\ Min(S) <= p /\ p <= Min(S)
  BY <1>2
<1>. QED  BY <1>3

\* What a task has a right to is a priority.
LEMMA BoundTypes ==
  ASSUME NEW A \in AtrTypes, NEW k \in KStates, NEW x, NEW u \in Tasks, NEW p, Bound(A, k, x, u, p)
  PROVE  p \in Pri
<1>1. \A m \in ToSet(k.mtxlist[u]) : m \in Mutexes
  BY MemberPosition DEF KStates
<1>. QED  BY <1>1, PriNumbers DEF Bound, KStates

\* release_mutex finds the highest of them, by the heads of the queues.
LEMMA Recalculated ==
  ASSUME mtxatr \in AtrTypes, NEW k \in KStates, NEW x, Queued(mtxatr, k, x), NEW u \in Tasks,
         NEW b, b = k.bpriority[u]
  PROVE  LET p == Min({b} \cup ImposedOn(k, u))
         IN  p \in Pri /\ Least(mtxatr, k, x, {}, u, p)
<1>. DEFINE S == {b} \cup ImposedOn(k, u)
            p == Min(S)
            L == ToSet(k.mtxlist[u])
<1>1. L \subseteq Mutexes
  BY MemberPosition DEF KStates
<1>2. \A y \in ImposedOn(k, u) : \E m \in L : y \in Imposed(k, m)
  BY DEF ImposedOn
<1>3. \A m \in L : Imposed(k, m) \subseteq S
  BY DEF ImposedOn
<1>4. ASSUME NEW m \in L, mtxatr[m].atr = "CEILING"
      PROVE  Imposed(k, m) = {mtxatr[m].ceilpri}
  BY <1>4 DEF Imposed, Ceiling
<1>5. ASSUME NEW m \in L, mtxatr[m].atr = "INHERIT", k.wait_queue[m] # <<>>
      PROVE  LET h == Head(k.wait_queue[m])
             IN  Imposed(k, m) = {k.priority[h]} /\ h \in Tasks /\ Waits(k, x, h, m)
  <2>1. k.wait_queue[m] \in Seq(Tasks)
    BY <1>1 DEF KStates
  <2>2. Head(k.wait_queue[m]) \in ToSet(k.wait_queue[m])
    BY <1>5, <2>1, MemberPosition
  <2>3. Waits(k, x, Head(k.wait_queue[m]), m)
    BY <1>1, <2>2 DEF Queued
  <2>4. Imposed(k, m) = {k.priority[Head(k.wait_queue[m])]}
    BY <1>5 DEF Imposed, Ceiling, Inherit, isQueEmpty, QueNext
  <2>. QED  BY <2>3, <2>4 DEF Waits
<1>6. ASSUME NEW m \in L, mtxatr[m].atr = "INHERIT", NEW v, Waits(k, x, v, m)
      PROVE  k.wait_queue[m] # <<>> /\ k.priority[Head(k.wait_queue[m])] <= k.priority[v]
  <2>1. k.wait_queue[m] \in Seq(Tasks) /\ Sorted(k.wait_queue[m], k.priority)
    BY <1>1, <1>6 DEF KStates, Queued
  <2>2. v \in ToSet(k.wait_queue[m])
    BY <1>1, <1>6 DEF Queued
  <2>3. k.wait_queue[m] # <<>>
    BY <2>1, <2>2, MemberPosition
  <2>4. k.priority \in [Tasks -> Int]
    BY KeyTypes
  <2>. QED  BY <2>1, <2>2, <2>3, <2>4, SortedHead
<1>7. ASSUME NEW m \in L, mtxatr[m].atr # "CEILING",
             mtxatr[m].atr # "INHERIT" \/ k.wait_queue[m] = <<>>
      PROVE  Imposed(k, m) = {}
  BY <1>7 DEF Imposed, Ceiling, Inherit, isQueEmpty
<1>8. \A y \in S : Bound(mtxatr, k, x, u, y)
  <2>1. ASSUME NEW m \in L, NEW y \in Imposed(k, m)  PROVE Bound(mtxatr, k, x, u, y)
    <3>1. CASE mtxatr[m].atr = "CEILING"
      BY <1>4, <2>1, <3>1 DEF Bound
    <3>2. CASE mtxatr[m].atr = "INHERIT" /\ k.wait_queue[m] # <<>>
      BY <1>5, <2>1, <3>2 DEF Bound
    <3>. QED  BY <1>7, <2>1, <3>1, <3>2
  <2>. QED  BY <1>2, <2>1 DEF Bound
<1>9. S \subseteq Nat /\ S \in SUBSET Nat /\ S # {}
  BY <1>8, BoundTypes, PriNumbers
<1>10. p \in S /\ \A y \in S : p <= y
  BY <1>9, MinPosition
<1>11. ASSUME NEW y, Bound(mtxatr, k, x, u, y)  PROVE p <= y
  <2>. HIDE DEF p
  <2>1. CASE y = k.bpriority[u]
    BY <1>10, <2>1
  <2>2. ASSUME NEW m \in L, mtxatr[m].atr = "CEILING", y = mtxatr[m].ceilpri  PROVE p <= y
    BY <1>3, <1>4, <1>10, <2>2
  <2>3. ASSUME NEW m \in L, mtxatr[m].atr = "INHERIT", NEW v \in Tasks, Waits(k, x, v, m), y = k.priority[v]
        PROVE  p <= y
    <3>. DEFINE h == Head(k.wait_queue[m])
    <3>1. k.wait_queue[m] # <<>> /\ k.priority[h] <= k.priority[v]
      BY <1>6, <2>3
    <3>2. k.priority[h] \in S /\ h \in Tasks
      BY <1>3, <1>5, <2>3, <3>1
    <3>3. p <= k.priority[h] /\ p \in Nat /\ k.priority[h] \in Nat
      BY <1>9, <1>10, <3>2
    <3>4. y \in Nat
      BY <2>3, PriNumbers DEF KStates
    <3>. HIDE DEF h
    <3>. QED  BY <2>3, <3>1, <3>3, <3>4
  <2>. QED  BY <1>11, <2>1, <2>2, <2>3 DEF Bound
<1>12. p \in Pri
  BY <1>8, <1>10, BoundTypes
<1>. HIDE DEF p, S
<1>13. Least(mtxatr, k, x, {}, u, p)
  BY <1>8, <1>10, <1>11 DEF Least
<1>. QED  BY <1>12, <1>13 DEF p, S

-----------------------------------------------------------------------------
(* The steps of a state in which only priorities and places change.        *)

\* What a chain of priority changes leaves alone.
Fixed(k, r) == /\ r.mtxtsk = k.mtxtsk /\ r.mtxlist = k.mtxlist /\ r.state = k.state
               /\ r.wid = k.wid /\ r.bpriority = k.bpriority

\* One priority changes.
LEMMA PriSet ==
  ASSUME NEW k \in KStates, NEW t \in Tasks, NEW p \in Pri
  PROVE  LET r == [k EXCEPT !.priority[t] = p]
         IN  /\ r \in KStates /\ Fixed(k, r) /\ r.wait_queue = k.wait_queue
             /\ r.priority = [k.priority EXCEPT ![t] = p]
BY DEF KStates, Fixed

\* queue_insert_tpri inserts where the order puts the task.
LEMMA InsertTpri ==
  ASSUME NEW q \in Seq(Tasks), NEW key \in [Tasks -> Int], NEW t \in Tasks, t \notin ToSet(q),
         IsInjective(q), Sorted(q, key)
  PROVE  LET r == queue_insert_tpri(q, t, key)
         IN  r \in Seq(Tasks) /\ ToSet(r) = ToSet(q) \cup {t} /\ IsInjective(r) /\ Sorted(r, key)
<1>1. queue_insert_tpri(q, t, key) = PutAt(q, Place(q, key, t), t)
  BY DEF queue_insert_tpri, PutAt, Place, SelectInSeq
<1>. QED  BY <1>1, SortedInsert

\* gcb_change_priority moves a task whose priority has changed.
LEMMA Reordered ==
  ASSUME NEW q \in Seq(Tasks), IsInjective(q), NEW t \in ToSet(q), NEW key, Sorted(q, key),
         NEW key2 \in [Tasks -> Int], \A u \in Tasks : u # t => key2[u] = key[u]
  PROVE  LET r == gcb_change_priority(q, t, key2)
         IN  r \in Seq(Tasks) /\ ToSet(r) = ToSet(q) /\ IsInjective(r) /\ Sorted(r, key2)
<1>. DEFINE w == QueRemove(q, t)
<1>1. w \in Seq(Tasks) /\ ToSet(w) = ToSet(q) \ {t} /\ IsInjective(w) /\ Sorted(w, key)
      /\ ToSet(q) \subseteq Tasks
  BY QueRemoveProperties, QueRemoveSorted, MemberPosition
<1>. HIDE DEF w
<1>2. Sorted(w, key2)
  <2>1. \A y, z \in ToSet(w) : key[y] <= key[z] => key2[y] <= key2[z]
    BY <1>1
  <2>. QED  BY <1>1, <2>1, SortedSameOrder
<1>3. t \notin ToSet(w) /\ ToSet(w) \cup {t} = ToSet(q) /\ t \in Tasks
  BY <1>1
<1>. DEFINE r == queue_insert_tpri(w, t, key2)
<1>4. gcb_change_priority(q, t, key2) = r
  BY DEF gcb_change_priority, w
<1>5. r \in Seq(Tasks) /\ ToSet(r) = ToSet(w) \cup {t} /\ IsInjective(r) /\ Sorted(r, key2)
  BY <1>1, <1>2, <1>3, InsertTpri
<1>. HIDE DEF r
<1>. QED  BY <1>3, <1>4, <1>5

\* A queue keeps its order when no priority of a member changes.
LEMMA SortedSame ==
  ASSUME NEW q \in Seq(Tasks), NEW key, Sorted(q, key), NEW key2, \A u \in ToSet(q) : key2[u] = key[u]
  PROVE  Sorted(q, key2)
<1>1. \A y, z \in ToSet(q) : key[y] <= key[z] => key2[y] <= key2[z]
  OBVIOUS
<1>. QED  BY <1>1, SortedSameOrder

\* A task that waits, but not where a holder inherits, and one that does not wait
\* change their priority without any effect on others.
LEMMA RequeueOne ==
  ASSUME NEW A \in AtrTypes, NEW k \in KStates, NEW x, Queued(A, k, x), NEW t \in Tasks, NEW p \in Pri,
         NEW r \in KStates, Fixed(k, r), r.priority = [k.priority EXCEPT ![t] = p],
         NEW m \in Mutexes, Waits(k, x, t, m), A[m].atr # "TFIFO",
         r.wait_queue = [k.wait_queue EXCEPT ![m] = gcb_change_priority(@, t, r.priority)]
  PROVE  Queued(A, r, x)
<1>. DEFINE q == k.wait_queue[m]
            q2 == gcb_change_priority(q, t, r.priority)
<1>1. q \in Seq(Tasks) /\ IsInjective(q) /\ t \in ToSet(q) /\ Sorted(q, k.priority)
  BY DEF Queued, KStates
<1>2. r.priority \in [Tasks -> Int] /\ \A u \in Tasks : u # t => r.priority[u] = k.priority[u]
  BY KeyTypes
<1>3. q2 \in Seq(Tasks) /\ ToSet(q2) = ToSet(q) /\ IsInjective(q2) /\ Sorted(q2, r.priority)
  BY <1>1, <1>2, Reordered
<1>. HIDE DEF q2
<1>4. \A n \in Mutexes : r.wait_queue[n] = IF n = m THEN q2 ELSE k.wait_queue[n]
  BY DEF KStates, q2
<1>5. \A u, n : Waits(r, x, u, n) <=> Waits(k, x, u, n)
  BY DEF Waits, Fixed
<1>6. ASSUME NEW n \in Mutexes
      PROVE  /\ IsInjective(r.wait_queue[n])
             /\ \A u : u \in ToSet(r.wait_queue[n]) <=> Waits(r, x, u, n)
             /\ A[n].atr # "TFIFO" => Sorted(r.wait_queue[n], r.priority)
  <2>1. CASE n = m
    BY <1>3, <1>4, <1>5, <2>1 DEF Queued
  <2>2. CASE n # m
    <3>1. r.wait_queue[n] = k.wait_queue[n] /\ k.wait_queue[n] \in Seq(Tasks)
      BY <1>4, <2>2 DEF KStates
    <3>2. IsInjective(k.wait_queue[n]) /\ \A u : u \in ToSet(k.wait_queue[n]) <=> Waits(k, x, u, n)
      BY DEF Queued
    <3>3. \A u \in ToSet(k.wait_queue[n]) : u \in Tasks /\ u # t
      BY <2>2, <3>2 DEF Waits
    <3>4. A[n].atr # "TFIFO" => Sorted(k.wait_queue[n], k.priority)
      BY DEF Queued
    <3>5. A[n].atr # "TFIFO" => Sorted(k.wait_queue[n], r.priority)
      BY <1>2, <3>1, <3>3, <3>4, SortedSame
    <3>. QED  BY <1>5, <3>1, <3>2, <3>5
  <2>. QED  BY <2>1, <2>2
<1>. QED  BY <1>6 DEF Queued

\* ... and the queues stay as they are, when it is in none that priorities order.
LEMMA KeepPlaces ==
  ASSUME NEW A \in AtrTypes, NEW k \in KStates, NEW x, Queued(A, k, x), NEW t \in Tasks,
         NEW r \in KStates, Fixed(k, r), \A u \in Tasks : u # t => r.priority[u] = k.priority[u],
         r.wait_queue = k.wait_queue,
         \A m \in Mutexes : Waits(k, x, t, m) => A[m].atr = "TFIFO"
  PROVE  Queued(A, r, x)
<1>1. \A u, n : Waits(r, x, u, n) <=> Waits(k, x, u, n)
  BY DEF Waits, Fixed
<1>2. ASSUME NEW n \in Mutexes, A[n].atr # "TFIFO"
      PROVE  Sorted(r.wait_queue[n], r.priority)
  <2>1. k.wait_queue[n] \in Seq(Tasks) /\ Sorted(k.wait_queue[n], k.priority)
    BY <1>2 DEF KStates, Queued
  <2>2. \A u \in ToSet(k.wait_queue[n]) : r.priority[u] = k.priority[u]
    BY <1>2 DEF Queued, Waits
  <2>. QED  BY <2>1, <2>2, SortedSame
<1>. QED  BY <1>1, <1>2 DEF Queued

\* What a task has a right to depends on those that wait for what it holds.
LEMMA BoundSame ==
  ASSUME NEW A \in AtrTypes, NEW k, NEW r, Fixed(k, r), NEW x, NEW u,
         \A m \in ToSet(k.mtxlist[u]) : \A v \in Tasks :
            A[m].atr = "INHERIT" /\ Waits(k, x, v, m) => r.priority[v] = k.priority[v]
  PROVE  \A p : Bound(A, r, x, u, p) <=> Bound(A, k, x, u, p)
<1>1. \A v, m : Waits(r, x, v, m) <=> Waits(k, x, v, m)
  BY DEF Waits, Fixed
<1>2. r.mtxlist[u] = k.mtxlist[u] /\ r.bpriority[u] = k.bpriority[u]
  BY DEF Fixed
<1>. QED  BY <1>1, <1>2 DEF Bound

-----------------------------------------------------------------------------
(* A chain of priority changes.                                            *)

\* The mutexes that come after all that u holds.
Up(A, k, u) == {m \in Mutexes : \A h \in Live(A) : k.mtxtsk[h] = u => h < m}

\* z has a right to the priorities in P too.
Extra(z, P, u) == IF u = z THEN P ELSE {}

\* The chain begins at z or above it; a mutex that z is giving back is in no list.
Setting(A, k0, x, z, P, E) ==
    /\ A \in AtrTypes /\ k0 \in KStates /\ z \in Tasks /\ x \in {NULL, z} /\ P \subseteq Pri
    /\ E \subseteq Live(A) /\ Lists(k0, E, NULL) /\ Climbs(A, k0)
    /\ \A y \in Live(A) \ E : k0.mtxtsk[y] = z

Changes == [k : KStates, to : Tasks \cup {NULL}, pri : Pri]

\* Every priority is right but that of o.
AllBut(A, k0, x, z, P, r, o) ==
    /\ r \in KStates /\ Fixed(k0, r) /\ Queued(A, r, x)
    /\ \A u \in Tasks : u # o => Least(A, r, x, Extra(z, P, u), u, r.priority[u])
    /\ \A u \in Tasks : ~(Up(A, k0, u) \subseteq Up(A, k0, z)) => r.priority[u] = k0.priority[u]

\* The chain may go on to o.
Above(A, k0, x, z, o) == o \in Tasks /\ o # x /\ Up(A, k0, o) \subseteq Up(A, k0, z)

\* Every priority is right but that of c.to, which is to be c.pri.
Pending(A, k0, x, z, P, c) ==
    /\ c \in Changes /\ AllBut(A, k0, x, z, P, c.k, c.to)
    /\ c.to # NULL => /\ Above(A, k0, x, z, c.to)
                      /\ Least(A, c.k, x, Extra(z, P, c.to), c.to, c.pri)

\* r follows k with the one priority of t changed to p.
Follows(A, k, x, r, t, p) ==
    /\ r \in KStates /\ Fixed(k, r) /\ Queued(A, r, x)
    /\ t \in Tasks /\ p \in Pri /\ r.priority = [k.priority EXCEPT ![t] = p]

\* Only o inherits the priority of t.
Heir(A, k, x, t, o) ==
    \A u \in Tasks : \A m \in ToSet(k.mtxlist[u]) :
        A[m].atr = "INHERIT" /\ Waits(k, x, t, m) => u = o

\* o holds the mutex m that t waits for, and nobody else does.
Holder(A, k0, x, z, E, t, m, o) ==
    /\ m \in E /\ m \in Mutexes /\ o \in Tasks /\ m \in ToSet(k0.mtxlist[o])
    /\ \A u \in Tasks : m \in ToSet(k0.mtxlist[u]) => u = o
    /\ Up(A, k0, o) \subseteq Up(A, k0, t) /\ m \in Up(A, k0, t) /\ m \notin Up(A, k0, o)
    /\ Up(A, k0, o) \subseteq Up(A, k0, z)
    /\ o # t /\ o # z /\ o # x

\* A waiting task in the chain is not the one where it began, and so is its holder.
LEMMA NextHolder ==
  ASSUME NEW A, NEW k0, NEW x, NEW z, NEW P, NEW E, Setting(A, k0, x, z, P, E),
         NEW t \in Tasks, Up(A, k0, t) \subseteq Up(A, k0, z), k0.state[t] = "WAIT"
  PROVE  Holder(A, k0, x, z, E, t, k0.wid[t], k0.mtxtsk[k0.wid[t]])
<1>. DEFINE m == k0.wid[t]
            o == k0.mtxtsk[m]
<1>1. m \in Live(A) /\ o \in Tasks /\ \A h \in Live(A) : k0.mtxtsk[h] = t => h < m
  BY DEF Setting, Climbs
<1>2. m \in Mutexes /\ \A n \in Live(A) : n \in Int
  BY <1>1, MutexAssumption DEF Live
<1>3. m \in Up(A, k0, t)
  BY <1>1, <1>2 DEF Up
<1>4. ASSUME NEW u, k0.mtxtsk[m] = u  PROVE m \notin Up(A, k0, u)
  <2>1. ~(m < m)
    BY <1>1, <1>2
  <2>. QED  BY <1>1, <1>4, <2>1 DEF Up
<1>5. m \in E
  BY <1>1, <1>3, <1>4 DEF Setting
<1>6. Up(A, k0, o) \subseteq Up(A, k0, t)
  <2>1. ASSUME NEW n \in Up(A, k0, o), NEW h \in Live(A), k0.mtxtsk[h] = t  PROVE h < n
    <3>1. h < m /\ m < n /\ n \in Int /\ h \in Int /\ m \in Int
      BY <1>1, <1>2, <2>1, MutexAssumption DEF Up
    <3>. QED  BY <3>1
  <2>. QED  BY <2>1 DEF Up
<1>7. o # t /\ o # z /\ o # x
  BY <1>1, <1>3, <1>4, MutexAssumption DEF Setting
<1>8. m \in ToSet(k0.mtxlist[o]) /\ \A u \in Tasks : m \in ToSet(k0.mtxlist[u]) => u = o
  BY <1>1, <1>5, MutexAssumption DEF Setting, Lists
<1>. QED  BY <1>1, <1>2, <1>3, <1>4, <1>5, <1>6, <1>7, <1>8 DEF Holder

\* What a task has a right to stays, and so does the highest of it.
LEMMA LeastSame ==
  ASSUME NEW A, NEW k, NEW r, NEW x, NEW y, NEW u, NEW P, NEW p, Least(A, k, x, P, u, p),
         \A b : Bound(A, r, y, u, b) <=> Bound(A, k, x, u, b)
  PROVE  Least(A, r, y, P, u, p)
BY DEF Least

\* The change of one priority is felt by the task that inherits it.
LEMMA LastChange ==
  ASSUME NEW A \in AtrTypes, NEW k0, NEW x, NEW z, NEW P, NEW k, NEW t, AllBut(A, k0, x, z, P, k, t),
         NEW r, NEW p, Follows(A, k, x, r, t, p), NEW o, Heir(A, k, x, t, o),
         Up(A, k0, t) \subseteq Up(A, k0, z), Least(A, k, x, Extra(z, P, t), t, p)
  PROVE  AllBut(A, k0, x, z, P, r, o)
<1>1. k \in KStates /\ Fixed(k0, k) /\ p \in Pri /\ r \in KStates /\ Fixed(k, r) /\ Queued(A, r, x) /\ t \in Tasks
  BY DEF AllBut, Follows
<1>2. Fixed(k0, r)
  BY <1>1 DEF Fixed
<1>3. \A v \in Tasks : r.priority[v] = IF v = t THEN p ELSE k.priority[v]
  BY <1>1 DEF KStates, Follows
<1>4. ASSUME NEW u \in Tasks, u # o
      PROVE  \A y : Bound(A, r, x, u, y) <=> Bound(A, k, x, u, y)
  <2>1. \A m \in ToSet(k.mtxlist[u]) : \A v \in Tasks :
            A[m].atr = "INHERIT" /\ Waits(k, x, v, m) => r.priority[v] = k.priority[v]
    BY <1>3, <1>4 DEF Heir
  <2>. QED  BY <1>1, <2>1, BoundSame
<1>5. ASSUME NEW u \in Tasks, u # o
      PROVE  Least(A, r, x, Extra(z, P, u), u, r.priority[u])
  <2>1. Least(A, k, x, Extra(z, P, u), u, r.priority[u])
    BY <1>3 DEF AllBut
  <2>. QED  BY <1>4, <1>5, <2>1, LeastSame
<1>6. ASSUME NEW u \in Tasks, ~(Up(A, k0, u) \subseteq Up(A, k0, z))
      PROVE  r.priority[u] = k0.priority[u]
  BY <1>3, <1>6 DEF AllBut
<1>. QED  BY <1>1, <1>2, <1>5, <1>6 DEF AllBut

\* The two ends of a change: none is left, or the next one.
LEMMA NoNext ==
  ASSUME NEW A, NEW k0, NEW x, NEW z, NEW P, NEW r, NEW o, AllBut(A, k0, x, z, P, r, o),
         o \in Tasks => Least(A, r, x, Extra(z, P, o), o, r.priority[o])
  PROVE  Pending(A, k0, x, z, P, done(r)) /\ done(r).to = NULL
<1>1. done(r) = [k |-> r, to |-> NULL, pri |-> INI_PRI]
  BY DEF done, change
<1>2. done(r) \in Changes /\ done(r).k = r /\ done(r).to = NULL
  BY <1>1, PriNumbers DEF Changes, AllBut
<1>3. AllBut(A, k0, x, z, P, r, NULL)
  <2>1. \A u \in Tasks : Least(A, r, x, Extra(z, P, u), u, r.priority[u])
    BY DEF AllBut
  <2>. QED  BY <2>1 DEF AllBut
<1>. QED  BY <1>2, <1>3 DEF Pending

\* One task is left to be changed: the change of a call of change_task_priority to
\* the priority it is to have.
LEMMA OneNext ==
  ASSUME NEW A, NEW k0, NEW x, NEW z, NEW P, NEW r, NEW o, AllBut(A, k0, x, z, P, r, o),
         Above(A, k0, x, z, o), NEW p \in Pri, Least(A, r, x, Extra(z, P, o), o, p)
  PROVE  Pending(A, k0, x, z, P, change(r, o, p)) /\ change(r, o, p).to = o
<1>1. change(r, o, p) = [k |-> r, to |-> o, pri |-> p]
  BY DEF change
<1>2. change(r, o, p) \in Changes /\ change(r, o, p).k = r /\ change(r, o, p).to = o /\ change(r, o, p).pri = p
  BY <1>1 DEF Changes, AllBut, Above
<1>. QED  BY <1>2 DEF Pending

\* Without a mutex, release_mutex takes none from the list.
LEMMA NothingRemoved ==
  ASSUME NEW r \in KStates, NEW o \in Tasks
  PROVE  [r EXCEPT !.mtxlist[o] = QueRemove(@, NULL)] = r
<1>1. r.mtxlist[o] \in Seq(Mutexes) /\ ToSet(r.mtxlist[o]) \subseteq Mutexes
  BY MemberPosition DEF KStates
<1>2. ~\E i \in 1..Len(r.mtxlist[o]) : r.mtxlist[o][i] = NULL
  BY <1>1, MutexAssumption, MemberPosition
<1>3. QueRemove(r.mtxlist[o], NULL) = r.mtxlist[o]
  BY <1>2 DEF QueRemove
<1>. QED  BY <1>3 DEF KStates

\* release_mutex finds what o has a right to.
LEMMA LookAgain ==
  ASSUME mtxatr \in AtrTypes, NEW k0, NEW x, NEW z, NEW P, NEW r, NEW o,
         AllBut(mtxatr, k0, x, z, P, r, o), Above(mtxatr, k0, x, z, o), Extra(z, P, o) = {},
         NEW k \in KStates, NEW m, r = [k EXCEPT !.mtxlist[o] = QueRemove(@, m)]
  PROVE  Pending(mtxatr, k0, x, z, P, release_one(k, o, m)) /\ release_one(k, o, m).to \in {o, NULL}
<1>. DEFINE p == Min({r.bpriority[o]} \cup ImposedOn(r, o))
<1>0. r \in KStates /\ Queued(mtxatr, r, x) /\ o \in Tasks
  BY DEF AllBut, Above
<1>1. p \in Pri /\ Least(mtxatr, r, x, {}, o, p)
  BY <1>0, Recalculated
<1>. HIDE DEF p
<1>2. r.bpriority[o] = k.bpriority[o] /\ r.priority[o] = k.priority[o]
  BY DEF KStates
<1>3. release_one(k, o, m) = IF p # r.priority[o] THEN change(r, o, p) ELSE done(r)
  BY <1>2 DEF release_one, p
<1>4. CASE p # r.priority[o]
  BY <1>1, <1>3, <1>4, OneNext
<1>5. CASE p = r.priority[o]
  <2>1. Least(mtxatr, r, x, Extra(z, P, o), o, r.priority[o])
    BY <1>1, <1>5
  <2>2. Pending(mtxatr, k0, x, z, P, done(r)) /\ done(r).to = NULL
    BY <2>1, NoNext, Zenon
  <2>. QED  BY <1>3, <1>5, <2>2
<1>. QED  BY <1>4, <1>5

\* requeue moves a task in the queue it waits in.
LEMMA RequeueParts ==
  ASSUME NEW k \in KStates, NEW t \in Tasks, NEW m, m = k.wid[t], m \in Mutexes,
         gcb_change_priority(k.wait_queue[m], t, k.priority) \in Seq(Tasks)
  PROVE  LET r == requeue(k, t)
         IN  /\ r \in KStates /\ Fixed(k, r) /\ r.priority = k.priority
             /\ r.wait_queue = [k.wait_queue EXCEPT ![m] = gcb_change_priority(@, t, k.priority)]
<1>. DEFINE w == [k.wait_queue EXCEPT ![m] = gcb_change_priority(@, t, k.priority)]
<1>1. requeue(k, t) = [k EXCEPT !.wait_queue = w]
  BY DEF requeue, KStates
<1>2. w \in [Mutexes -> Seq(Tasks)]
  BY DEF KStates
<1>. HIDE DEF w
<1>3. requeue(k, t) \in KStates /\ Fixed(k, requeue(k, t)) /\ requeue(k, t).priority = k.priority
      /\ requeue(k, t).wait_queue = w
  BY <1>1, <1>2 DEF KStates, Fixed
<1>. QED  BY <1>3 DEF w


\* The step of the chain at a task whose holder inherits its priority.
LEMMA InheritStep ==
  ASSUME mtxatr \in AtrTypes, NEW k0, NEW x, NEW z, NEW P, NEW k, NEW t, AllBut(mtxatr, k0, x, z, P, k, t),
         NEW r, NEW p, Follows(mtxatr, k, x, r, t, p), NEW o, AllBut(mtxatr, k0, x, z, P, r, o),
         Above(mtxatr, k0, x, z, o), o # t, o # z,
         NEW m \in ToSet(k.mtxlist[o]), mtxatr[m].atr = "INHERIT", Waits(k, x, t, m)
  PROVE  LET d == IF r.priority[o] > r.priority[t] THEN change(r, o, r.priority[t])
                  ELSE IF r.priority[o] = k.priority[t] THEN release_one(r, o, NULL) ELSE done(r)
         IN  Pending(mtxatr, k0, x, z, P, d) /\ d.to \in {o, NULL}
<1>. DEFINE A == mtxatr
            old == k.priority[t]
            new == r.priority[t]
            po == r.priority[o]
<1>1. k \in KStates /\ r \in KStates /\ Fixed(k, r) /\ p \in Pri /\ t \in Tasks /\ o \in Tasks
  BY DEF AllBut, Above, Follows
<1>4. new = p /\ po = k.priority[o] /\ \A v \in Tasks : v # t => r.priority[v] = k.priority[v]
  BY <1>1 DEF KStates, Follows
<1>5. new \in Nat /\ old \in Nat /\ po \in Nat /\ new \in Pri
  BY <1>1, <1>4, KeyTypes, PriNumbers
<1>6. Least(A, k, x, {}, o, po) /\ Extra(z, P, o) = {}
  BY <1>1, <1>4 DEF AllBut, Extra
<1>7. r.mtxlist[o] = k.mtxlist[o] /\ r.bpriority[o] = k.bpriority[o]
      /\ \A v, n : Waits(r, x, v, n) <=> Waits(k, x, v, n)
  BY <1>1 DEF Fixed, Waits
<1>8. Bound(A, r, x, o, new)
  BY <1>1, <1>7 DEF Bound
<1>9. ASSUME NEW y, Bound(A, r, x, o, y), y # new  PROVE Bound(A, k, x, o, y)
  BY <1>1, <1>4, <1>7, <1>9 DEF Bound
<1>10. ASSUME NEW y, Bound(A, k, x, o, y), y # old  PROVE Bound(A, r, x, o, y)
  BY <1>1, <1>4, <1>7, <1>10 DEF Bound
<1>11. \A y : Bound(A, r, x, o, y) => y \in Nat /\ (y = new \/ po <= y)
  BY <1>1, <1>6, <1>9, BoundTypes, PriNumbers DEF Least
<1>. HIDE DEF old, new, po
<1>13. CASE po > new
  <2>2. \A y : Bound(A, r, x, o, y) => new <= y
    BY <1>5, <1>11, <1>13
  <2>. HIDE DEF A
  <2>3. Least(A, r, x, Extra(z, P, o), o, new)
    BY <1>6, <1>8, <2>2 DEF Least
  <2>4. Pending(A, k0, x, z, P, change(r, o, new)) /\ change(r, o, new).to = o
    BY <1>5, <2>3, OneNext DEF A
  <2>. QED  BY <1>13, <2>4 DEF new, po, A
<1>14. CASE ~(po > new) /\ po = old
  <2>1. Pending(A, k0, x, z, P, release_one(r, o, NULL)) /\ release_one(r, o, NULL).to \in {o, NULL}
    BY <1>1, <1>6, NothingRemoved, LookAgain
  <2>. QED  BY <1>14, <2>1 DEF new, old, po
<1>15. CASE ~(po > new) /\ po # old
  <2>3. \A y : Bound(A, r, x, o, y) => po <= y
    BY <1>5, <1>11, <1>15
  <2>. HIDE DEF A
  <2>2. Bound(A, r, x, o, po)
    BY <1>6, <1>10, <1>15 DEF Least
  <2>4. Least(A, r, x, Extra(z, P, o), o, r.priority[o])
    BY <1>6, <2>2, <2>3 DEF Least, po
  <2>5. Pending(A, k0, x, z, P, done(r)) /\ done(r).to = NULL
    BY <2>4, NoNext DEF A
  <2>. QED  BY <1>15, <2>5 DEF new, old, po, A
<1>. QED  BY <1>13, <1>14, <1>15

\* The chain goes up strictly.
Closer(A, k0, s, t) == Up(A, k0, s) \subseteq Up(A, k0, t) /\ \E m \in Up(A, k0, t) : m \notin Up(A, k0, s)

\* One call of change_task_priority.
LEMMA ChainStep ==
  ASSUME NEW k0, NEW x, NEW z, NEW P, NEW E, Setting(mtxatr, k0, x, z, P, E),
         NEW c, Pending(mtxatr, k0, x, z, P, c), c.to # NULL
  PROVE  LET d == change_one(c)
         IN  Pending(mtxatr, k0, x, z, P, d) /\ (d.to # NULL => Closer(mtxatr, k0, d.to, c.to))
<1>. DEFINE A == mtxatr
            k == c.k
            t == c.to
            p == c.pri
            m == k.wid[t]
            o == k.mtxtsk[m]
            k1 == [k EXCEPT !.priority[t] = p]
<1>1. A \in AtrTypes /\ k \in KStates /\ Fixed(k0, k) /\ Queued(A, k, x) /\ t \in Tasks /\ t # x /\ p \in Pri
      /\ AllBut(A, k0, x, z, P, k, t) /\ Up(A, k0, t) \subseteq Up(A, k0, z) /\ t # NULL
      /\ Least(A, k, x, Extra(z, P, t), t, p)
  BY DEF Setting, Pending, AllBut, Above, Changes
<1>2. change_one(c) = IF k.state[t] = "WAIT" /\ A[m].atr # "TFIFO" THEN mtx_chg_pri(k1, t, k.priority[t]) ELSE done(k1)
  BY DEF change_one
<1>3. k1 \in KStates /\ Fixed(k, k1) /\ k1.wait_queue = k.wait_queue /\ k1.priority = [k.priority EXCEPT ![t] = p]
  BY <1>1, PriSet
<1>4. k0.wid = k.wid /\ k0.mtxtsk = k.mtxtsk /\ k0.state = k.state /\ k0.mtxlist = k.mtxlist
  BY <1>1 DEF Fixed
<1>5. k.state[t] = "WAIT" => Holder(A, k0, x, z, E, t, m, o)
  BY <1>1, <1>4, NextHolder
<1>. HIDE DEF k1, A, k, t, p, m, o
<1>6. ASSUME NEW r, Follows(A, k, x, r, t, p), NEW s, Heir(A, k, x, t, s)  PROVE AllBut(A, k0, x, z, P, r, s)
  BY <1>1, <1>6, LastChange
<1>7. CASE ~(k.state[t] = "WAIT" /\ A[m].atr # "TFIFO")
  <2>1. \A n : Waits(k, x, t, n) => A[n].atr = "TFIFO"
    BY <1>7 DEF Waits, m
  <2>2. \A u \in Tasks : u # t => k1.priority[u] = k.priority[u]
    BY <1>1, <1>3 DEF KStates
  <2>3. Queued(A, k1, x)
    BY <1>1, <1>3, <2>1, <2>2, KeepPlaces
  <2>4. Follows(A, k, x, k1, t, p) /\ Heir(A, k, x, t, NULL)
    BY <1>1, <1>3, <2>1, <2>3 DEF Follows, Heir
  <2>5. AllBut(A, k0, x, z, P, k1, NULL) /\ NULL \notin Tasks
    BY <1>6, <2>4, MutexAssumption
  <2>6. Pending(A, k0, x, z, P, done(k1)) /\ done(k1).to = NULL
    BY <2>5, NoNext, Zenon
  <2>. QED  BY <1>2, <1>7, <2>6 DEF A
<1>8. CASE k.state[t] = "WAIT" /\ A[m].atr # "TFIFO"
  <2>. DEFINE r == requeue(k1, t)
              d == IF Inherit(m) /\ r.priority[o] > r.priority[t] THEN change(r, o, r.priority[t])
                   ELSE IF Inherit(m) /\ r.priority[o] = k.priority[t] THEN release_one(r, o, NULL) ELSE done(r)
  <2>0. Holder(A, k0, x, z, E, t, m, o)
    BY <1>5, <1>8
  <2>1. m \in Mutexes /\ o \in Tasks /\ o # t /\ o # z /\ o # NULL /\ Above(A, k0, x, z, o) /\ Closer(A, k0, o, t)
        /\ m \in ToSet(k.mtxlist[o]) /\ \A u \in Tasks : m \in ToSet(k.mtxlist[u]) => u = o
    BY <1>4, <2>0, MutexAssumption DEF Holder, Above, Closer
  <2>2. Waits(k, x, t, m) /\ \A n : Waits(k, x, t, n) => n = m
    BY <1>1, <1>8 DEF Waits, m
  <2>3. k1.wid[t] = m /\ k1.mtxtsk[m] = o
    BY <1>3 DEF Fixed, m, o
  <2>4. Follows(A, k, x, r, t, p)
    <3>. DEFINE g == gcb_change_priority(k1.wait_queue[m], t, k1.priority)
    <3>1. k.wait_queue[m] \in Seq(Tasks) /\ IsInjective(k.wait_queue[m]) /\ t \in ToSet(k.wait_queue[m])
          /\ Sorted(k.wait_queue[m], k.priority)
      BY <1>1, <1>8, <2>1, <2>2 DEF KStates, Queued
    <3>2. k1.priority \in [Tasks -> Int] /\ \A u \in Tasks : u # t => k1.priority[u] = k.priority[u]
      BY <1>1, <1>3, KeyTypes
    <3>3. g \in Seq(Tasks)
      BY <1>3, <3>1, <3>2, Reordered
    <3>. HIDE DEF r, g
    <3>4. /\ r \in KStates /\ Fixed(k1, r) /\ r.priority = k1.priority
          /\ r.wait_queue = [k1.wait_queue EXCEPT ![m] = gcb_change_priority(@, t, k1.priority)]
      BY <1>1, <1>3, <2>1, <2>3, <3>3, RequeueParts DEF r, g
    <3>5. /\ Fixed(k, r) /\ r.priority = [k.priority EXCEPT ![t] = p]
          /\ r.wait_queue = [k.wait_queue EXCEPT ![m] = gcb_change_priority(@, t, r.priority)]
      BY <1>3, <3>4 DEF Fixed
    <3>6. Queued(A, r, x)
      BY <1>1, <1>8, <2>1, <2>2, <3>4, <3>5, RequeueOne
    <3>. QED  BY <1>1, <3>4, <3>5, <3>6 DEF Follows
  <2>5. change_one(c) = d
    <3>1. mtx_chg_pri(k1, t, k.priority[t]) = d
      BY <2>3 DEF mtx_chg_pri
    <3>. QED  BY <1>2, <1>8, <3>1
  <2>. HIDE DEF r
  <2>6. CASE A[m].atr = "INHERIT"
    <3>. DEFINE e == IF r.priority[o] > r.priority[t] THEN change(r, o, r.priority[t])
                     ELSE IF r.priority[o] = k.priority[t] THEN release_one(r, o, NULL) ELSE done(r)
    <3>1. Heir(A, k, x, t, o)
      BY <2>1, <2>2 DEF Heir
    <3>2. AllBut(A, k0, x, z, P, r, o)
      BY <1>6, <2>4, <3>1
    <3>3. Pending(A, k0, x, z, P, e) /\ e.to \in {o, NULL}
      <4>. HIDE DEF d, e
      <4>. QED  BY <1>1, <2>1, <2>2, <2>4, <2>6, <3>2, InheritStep DEF A, e
    <3>4. d = e
      BY <2>6 DEF Inherit, A
    <3>. HIDE DEF e, d
    <3>. QED  BY <2>1, <2>5, <3>3, <3>4 DEF A, t
  <2>7. CASE A[m].atr # "INHERIT"
    <3>1. Heir(A, k, x, t, NULL)
      BY <2>2, <2>7 DEF Heir
    <3>2. AllBut(A, k0, x, z, P, r, NULL) /\ NULL \notin Tasks
      BY <1>6, <2>4, <3>1, MutexAssumption
    <3>3. Pending(A, k0, x, z, P, done(r)) /\ done(r).to = NULL
      BY <3>2, NoNext, Zenon
    <3>4. d = done(r)
      BY <2>7 DEF Inherit, A
    <3>. HIDE DEF d
    <3>. QED  BY <2>5, <3>3, <3>4 DEF A
  <2>. QED  BY <2>6, <2>7
<1>. QED  BY <1>7, <1>8

\* f goes along the chain that begins with c.
ChainTurns(c, f) == f[0] = c /\ \A n \in 1..Cardinality(Mutexes) + 1 : f[n] = change_one(f[n - 1])

\* chain does.
LEMMA ChainTurnsExist ==
  ASSUME NEW V, NEW c \in V, \A d \in V : change_one(d) \in V
  PROVE  \E f : ChainTurns(c, f) /\ chain(c) = f[Cardinality(Mutexes) + 1].k
<1>. DEFINE N == Cardinality(Mutexes) + 1
            step == [p \in (1..N) \X V |-> change_one(p[2])]
            after == CHOOSE after : after = [n \in 0..Cardinality(Mutexes) + 1 |->
                                               IF n = 0 THEN c ELSE change_one(after[n - 1])]
<1>1. N \in Nat
  BY MutexAssumption, FS_CardinalityType
<1>2. step \in [(1..N) \X V -> V]
  OBVIOUS
<1>3. chain(c) = after[Cardinality(Mutexes) + 1].k
  BY DEF chain
<1>. HIDE DEF N, step, after
<1>4. PICK g : Solves(g, N, V, c, step)
  <2>1. Recursion(N, V, c, step)
    BY <1>1, <1>2 DEF Recursion
  <2>. QED  BY <2>1, RecursionExists
<1>5. \A n \in 1..N : g[n] = change_one(g[n - 1])
  <2>. SUFFICES ASSUME NEW n \in 1..N  PROVE g[n] = change_one(g[n - 1])
    OBVIOUS
  <2>1. n - 1 \in 0..N
    BY <1>1
  <2>2. g[n - 1] \in V
    BY <1>4, <2>1 DEF Solves
  <2>3. step[<<n, g[n - 1]>>] = change_one(g[n - 1])
    BY <2>2 DEF step
  <2>. QED  BY <1>4, <2>3 DEF Solves
<1>6. g = [n \in 0..N |-> IF n = 0 THEN c ELSE change_one(g[n - 1])]
  <2>. DEFINE h == [n \in 0..N |-> IF n = 0 THEN c ELSE change_one(g[n - 1])]
  <2>0. g \in [0..N -> V]
    BY <1>4 DEF Solves
  <2>1. ASSUME NEW n \in 0..N  PROVE g[n] = h[n]
    <3>1. n = 0 \/ n \in 1..N
      BY <1>1
    <3>. QED  BY <3>1, <1>4, <1>5 DEF Solves
  <2>. QED  BY <2>0, <2>1
<1>7. after = [n \in 0..N |-> IF n = 0 THEN c ELSE change_one(after[n - 1])]
  BY <1>6, Zenon DEF after, N
<1>8. after[0] = c /\ \A n \in 1..N : after[n] = change_one(after[n - 1])
  <2>1. 0 \in 0..N /\ \A n \in 1..N : n \in 0..N /\ n # 0
    BY <1>1
  <2>. QED  BY <1>7, <2>1
<1>. QED  BY <1>3, <1>8 DEF ChainTurns, N

\* A chain ends, with every priority right.
LEMMA ChainResult ==
  ASSUME NEW k0, NEW x, NEW z, NEW P, NEW E, Setting(mtxatr, k0, x, z, P, E),
         NEW c, Pending(mtxatr, k0, x, z, P, c)
  PROVE  AllBut(mtxatr, k0, x, z, P, chain(c), NULL)
<1>. DEFINE A == mtxatr
            N == Cardinality(Mutexes)
            V == {d \in Changes : Pending(A, k0, x, z, P, d)}
            W(d) == Cardinality(Up(A, k0, d.to))
<1>1. N \in Nat /\ IsFiniteSet(Mutexes)
  BY MutexAssumption, FS_CardinalityType
<1>2. \A d : Pending(A, k0, x, z, P, d) => d \in V
  BY DEF Pending
<1>3. ASSUME NEW d \in V, d.to # NULL
      PROVE  change_one(d) \in V /\ (change_one(d).to # NULL => Closer(A, k0, change_one(d).to, d.to))
  BY <1>2, <1>3, ChainStep
<1>4. \A d : d.to = NULL => change_one(d) = d
  BY DEF change_one
<1>5. \A t : IsFiniteSet(Up(A, k0, t)) /\ W([to |-> t]) \in Nat /\ W([to |-> t]) <= N
  <2>. SUFFICES ASSUME NEW t  PROVE LET U == Up(A, k0, t) IN IsFiniteSet(U) /\ Cardinality(U) \in Nat /\ Cardinality(U) <= N
    OBVIOUS
  <2>1. Up(A, k0, t) \in SUBSET Mutexes
    BY DEF Up
  <2>. QED  BY <1>1, <2>1, FS_Subset, FS_CardinalityType
<1>6. \A s, t : Closer(A, k0, s, t) => Cardinality(Up(A, k0, s)) < Cardinality(Up(A, k0, t))
  <2>. SUFFICES ASSUME NEW s, NEW t, Closer(A, k0, s, t)
                PROVE  Cardinality(Up(A, k0, s)) < Cardinality(Up(A, k0, t))
    OBVIOUS
  <2>1. Up(A, k0, s) \in SUBSET Up(A, k0, t) /\ Up(A, k0, s) # Up(A, k0, t)
    BY DEF Closer
  <2>2. IsFiniteSet(Up(A, k0, t)) /\ Cardinality(Up(A, k0, t)) \in Nat /\ Cardinality(Up(A, k0, s)) \in Nat
    BY <1>5
  <2>3. /\ Cardinality(Up(A, k0, s)) <= Cardinality(Up(A, k0, t))
        /\ Cardinality(Up(A, k0, s)) # Cardinality(Up(A, k0, t))
    BY <2>1, <2>2, FS_Subset
  <2>. QED  BY <2>2, <2>3
<1>7. PICK f : ChainTurns(c, f) /\ chain(c) = f[N + 1].k
  <2>1. c \in V /\ \A d \in V : change_one(d) \in V
    BY <1>2, <1>3, <1>4
  <2>. HIDE DEF V
  <2>. QED  BY <2>1, ChainTurnsExist
<1>. DEFINE Q == {n \in Nat : n <= N + 1 => f[n] \in V /\ (f[n].to # NULL => W(f[n]) + n <= N)}
<1>8. 0 \in Q
  BY <1>1, <1>2, <1>5, <1>7 DEF ChainTurns
<1>9. ASSUME NEW n \in Nat, n \in Q  PROVE n + 1 \in Q
  <2>. SUFFICES ASSUME n + 1 <= N + 1
                PROVE  f[n + 1] \in V /\ (f[n + 1].to # NULL => W(f[n + 1]) + (n + 1) <= N)
    OBVIOUS
  <2>. DEFINE d == f[n]
              e == f[n + 1]
  <2>1. d \in V /\ (d.to # NULL => W(d) + n <= N) /\ e = change_one(d)
    <3>1. n <= N + 1 /\ n + 1 \in 1..N + 1 /\ (n + 1) - 1 = n
      BY <1>1
    <3>. QED  BY <1>7, <1>9, <3>1 DEF ChainTurns
  <2>. HIDE DEF d, e, V, W
  <2>2. CASE d.to = NULL
    BY <1>4, <2>1, <2>2 DEF e
  <2>3. CASE d.to # NULL
    <3>1. e \in V /\ (e.to # NULL => W(e) < W(d)) /\ W(d) + n <= N /\ W(e) \in Nat /\ W(d) \in Nat
      BY <1>3, <1>5, <1>6, <2>1, <2>3 DEF W
    <3>. QED  BY <1>1, <3>1 DEF e
  <2>. QED  BY <2>2, <2>3
<1>. HIDE DEF Q
<1>10. N + 1 \in Q
  <2>1. Nat \subseteq Q
    BY <1>8, <1>9, SetInduction
  <2>. QED  BY <1>1, <2>1
<1>11. f[N + 1] \in V /\ f[N + 1].to = NULL
  <2>1. f[N + 1] \in V /\ (f[N + 1].to # NULL => W(f[N + 1]) + (N + 1) <= N)
    BY <1>1, <1>10 DEF Q
  <2>2. W(f[N + 1]) \in Nat
    BY <1>5
  <2>. HIDE DEF W
  <2>3. ~(W(f[N + 1]) + (N + 1) <= N)
    BY <1>1, <2>2
  <2>. QED  BY <2>1, <2>3
<1>. QED  BY <1>7, <1>11 DEF Pending

-----------------------------------------------------------------------------
(* A chain in a good state.                                                *)

\* What the priorities do not touch stays good.
LEMMA FixedShape ==
  ASSUME NEW A, NEW k, NEW r, Fixed(k, r), NEW x, NEW E, NEW d, Shape(A, k, x, E, d),
         r \in KStates, Queued(A, r, x)
  PROVE  Shape(A, r, x, E, d)
<1>1. Lists(r, E, d)
  BY DEF Fixed, Shape, Lists
<1>2. Climbs(A, r)
  BY DEF Fixed, Shape, Climbs
<1>3. Awake(A, r)
  BY DEF Fixed, Shape, Awake
<1>4. Below(A, r)
  BY DEF Fixed, Shape, Below
<1>. QED  BY <1>1, <1>2, <1>3, <1>4 DEF Shape

\* A chain that nothing but the state asks for restores it.
LEMMA ChainGood ==
  ASSUME NEW k, NEW x, NEW z, NEW E, Setting(mtxatr, k, x, z, {}, E), Shape(mtxatr, k, x, E, NULL),
         NEW c, Pending(mtxatr, k, x, z, {}, c)
  PROVE  Good(mtxatr, chain(c), x, E, NULL) /\ Fixed(k, chain(c))
<1>. DEFINE r == chain(c)
<1>1. AllBut(mtxatr, k, x, z, {}, r, NULL)
  BY ChainResult
<1>. HIDE DEF r
<1>2. Shape(mtxatr, r, x, E, NULL)
  BY <1>1, FixedShape DEF AllBut
<1>3. \A u \in Tasks : Least(mtxatr, r, x, {}, u, r.priority[u])
  BY <1>1, MutexAssumption DEF AllBut, Extra
<1>. QED  BY <1>1, <1>2, <1>3 DEF Good, AllBut, r

\* The state in which a chain begins.
LEMMA Begin ==
  ASSUME NEW A \in AtrTypes, NEW k, NEW x, NEW z \in Tasks, x \in {NULL, z}, NEW P \in SUBSET Pri,
         NEW E \in SUBSET Live(A), Shape(A, k, x, E, NULL), \A y \in Live(A) \ E : k.mtxtsk[y] = z
  PROVE  /\ Setting(A, k, x, z, P, E) /\ Above(A, k, NULL, z, z)
         /\ \A o : (\A u \in Tasks : u # o => Least(A, k, x, Extra(z, P, u), u, k.priority[u]))
                     => AllBut(A, k, x, z, P, k, o)
<1>1. Setting(A, k, x, z, P, E)
  BY DEF Setting, Shape
<1>2. Fixed(k, k) /\ Above(A, k, NULL, z, z)
  BY MutexAssumption DEF Fixed, Above
<1>. QED  BY <1>1, <1>2 DEF AllBut, Shape

-----------------------------------------------------------------------------
(* A task leaves its queue.                                                *)

\* r is k without t in the queue of m; who is on its way out in r is y.
Leaves(k, x, r, y, t, m) ==
    /\ k \in KStates /\ r \in KStates /\ t \in Tasks /\ m \in Mutexes /\ Waits(k, x, t, m)
    /\ r.mtxtsk = k.mtxtsk /\ r.mtxlist = k.mtxlist /\ r.wid = k.wid
    /\ r.priority = k.priority /\ r.bpriority = k.bpriority
    /\ r.wait_queue = [k.wait_queue EXCEPT ![m] = QueRemove(@, t)]
    /\ \A u \in Tasks : u # t => r.state[u] = k.state[u]
    /\ r.state[t] = "READY" \/ (r.state[t] = "WAIT" /\ y = t)
    /\ \A u, n : Waits(r, y, u, n) <=> Waits(k, x, u, n) /\ u # t

\* All is well but for the holder that t leaves behind.
LEMMA LeaveShape ==
  ASSUME NEW A, NEW k, NEW x, NEW r, NEW y, NEW t, NEW m, Leaves(k, x, r, y, t, m),
         NEW E, NEW d, Shape(A, k, x, E, d)
  PROVE  /\ Shape(A, r, y, E, d)
         /\ \A u : m \notin ToSet(k.mtxlist[u]) => \A p : Bound(A, r, y, u, p) <=> Bound(A, k, x, u, p)
<1>. USE DEF Leaves
<1>1. Queued(A, r, y)
  <2>. DEFINE q == k.wait_queue[m]
              w == QueRemove(q, t)
  <2>1. q \in Seq(Tasks) /\ IsInjective(q) /\ \A u : u \in ToSet(q) <=> Waits(k, x, u, m)
    BY DEF KStates, Shape, Queued
  <2>2. w \in Seq(Tasks) /\ ToSet(w) = ToSet(q) \ {t} /\ IsInjective(w)
    BY <2>1, QueRemoveProperties
  <2>3. A[m].atr # "TFIFO" => Sorted(w, r.priority)
    BY <2>1, QueRemoveSorted DEF Shape, Queued
  <2>4. \A n \in Mutexes : r.wait_queue[n] = IF n = m THEN w ELSE k.wait_queue[n]
    BY DEF KStates
  <2>. HIDE DEF w
  <2>5. ASSUME NEW n \in Mutexes, n = m
        PROVE  /\ IsInjective(r.wait_queue[n])
               /\ \A u : u \in ToSet(r.wait_queue[n]) <=> Waits(r, y, u, n)
               /\ A[n].atr # "TFIFO" => Sorted(r.wait_queue[n], r.priority)
    BY <2>1, <2>2, <2>3, <2>4, <2>5
  <2>6. ASSUME NEW n \in Mutexes, n # m
        PROVE  /\ IsInjective(r.wait_queue[n])
               /\ \A u : u \in ToSet(r.wait_queue[n]) <=> Waits(r, y, u, n)
               /\ A[n].atr # "TFIFO" => Sorted(r.wait_queue[n], r.priority)
    <3>1. r.wait_queue[n] = k.wait_queue[n]
      BY <2>4, <2>6
    <3>2. ~Waits(k, x, t, n)
      BY <2>6 DEF Waits
    <3>3. \A u : Waits(r, y, u, n) <=> Waits(k, x, u, n)
      BY <3>2
    <3>. QED  BY <3>1, <3>3 DEF Shape, Queued
  <2>. QED  BY <2>5, <2>6 DEF Queued
<1>2. Lists(r, E, d)
  BY DEF Shape, Lists
<1>3. \A u \in Tasks : r.state[u] = "WAIT" => k.state[u] = "WAIT"
  BY DEF Waits
<1>4. Climbs(A, r)
  BY <1>3 DEF Shape, Climbs
<1>5. Awake(A, r)
  <2>1. \A u \in Tasks : r.state[u] = "DORMANT" => k.state[u] = "DORMANT"
    OBVIOUS
  <2>. QED  BY <2>1 DEF Shape, Awake
<1>6. Below(A, r)
  BY <1>3 DEF Shape, Below
<1>7. ASSUME NEW u, m \notin ToSet(k.mtxlist[u]), NEW p
      PROVE  Bound(A, r, y, u, p) <=> Bound(A, k, x, u, p)
  <2>1. \A n \in ToSet(k.mtxlist[u]) : \A v : Waits(r, y, v, n) <=> Waits(k, x, v, n)
    BY <1>7 DEF Waits
  <2>. QED  BY <2>1 DEF Bound
<1>. QED  BY <1>1, <1>2, <1>4, <1>5, <1>6, <1>7 DEF Shape

\* wait_release lets a task leave.
LEMMA ReleaseLeaves ==
  ASSUME NEW A, NEW k \in KStates, NEW x, Queued(A, k, x), NEW t \in Tasks, NEW m \in Mutexes, Waits(k, x, t, m)
  PROVE  Leaves(k, x, wait_release(k, t), x, t, m)
<1>. DEFINE q == QueRemove(k.wait_queue[m], t)
            w == [k.wait_queue EXCEPT ![m] = q]
            s == [k.state EXCEPT ![t] = "READY"]
            r == wait_release(k, t)
<1>1. k.wid[t] = m /\ t # x /\ k.state[t] = "WAIT"
  BY DEF Waits
<1>2. q \in Seq(Tasks)
  <2>1. k.wait_queue[m] \in Seq(Tasks) /\ IsInjective(k.wait_queue[m])
    BY DEF KStates, Queued
  <2>. QED  BY <2>1, QueRemoveProperties
<1>. HIDE DEF q
<1>3. w \in [Mutexes -> Seq(Tasks)] /\ s \in [Tasks -> {"READY", "WAIT", "DORMANT"}]
  BY <1>2 DEF KStates
<1>4. r = [k EXCEPT !.wait_queue = w, !.state = s]
  BY <1>1 DEF wait_release, KStates, q
<1>5. \A u \in Tasks : s[u] = IF u = t THEN "READY" ELSE k.state[u]
  BY DEF KStates
<1>. HIDE DEF w, s, r
<1>6. /\ r \in KStates /\ r.mtxtsk = k.mtxtsk /\ r.mtxlist = k.mtxlist /\ r.wid = k.wid
      /\ r.priority = k.priority /\ r.bpriority = k.bpriority /\ r.wait_queue = w /\ r.state = s
  BY <1>3, <1>4 DEF KStates
<1>7. \A u, n : Waits(r, x, u, n) <=> Waits(k, x, u, n) /\ u # t
  BY <1>5, <1>6 DEF Waits
<1>. QED  BY <1>5, <1>6, <1>7 DEF Leaves, w, q, r

\* A task leaves the queue of a mutex that nobody holds any more.
LEMMA LeaveGood ==
  ASSUME NEW A, NEW k, NEW x, NEW r, NEW y, NEW t, NEW m, Leaves(k, x, r, y, t, m),
         NEW E, NEW d, Good(A, k, x, E, d), \A u \in Tasks : u # d => m \notin ToSet(k.mtxlist[u])
  PROVE  Good(A, r, y, E, d)
<1>1. Shape(A, r, y, E, d) /\ \A u : m \notin ToSet(k.mtxlist[u]) => \A p : Bound(A, r, y, u, p) <=> Bound(A, k, x, u, p)
  BY LeaveShape DEF Good
<1>2. ASSUME NEW u \in Tasks, u # d  PROVE Least(A, r, y, {}, u, r.priority[u])
  <2>1. \A p : Bound(A, r, y, u, p) <=> Bound(A, k, x, u, p)
    BY <1>1, <1>2
  <2>2. Least(A, k, x, {}, u, r.priority[u])
    BY <1>2 DEF Good, Leaves
  <2>. QED  BY <2>1, <2>2, LeastSame
<1>. QED  BY <1>1, <1>2 DEF Good

\* mtx_rel_wai lets the holder down again when a task has left the queue.
LEMMA RelWai ==
  ASSUME mtxatr \in AtrTypes, NEW k, Good(mtxatr, k, NULL, Live(mtxatr), NULL), NEW r, NEW y, NEW t, y \in {NULL, t},
         NEW m, m = k.wid[t], Leaves(k, NULL, r, y, t, m)
  PROVE  Good(mtxatr, mtx_rel_wai(r, t), y, Live(mtxatr), NULL) /\ Fixed(r, mtx_rel_wai(r, t))
<1>. DEFINE A == mtxatr
            E == Live(A)
            o == k.mtxtsk[m]
<1>1. /\ t \in Tasks /\ k.state[t] = "WAIT" /\ r.mtxtsk = k.mtxtsk /\ r.wid = k.wid /\ r.mtxlist = k.mtxlist
      /\ r.priority = k.priority /\ r.bpriority = k.bpriority /\ r \in KStates /\ k \in KStates
      /\ \A u, n : Waits(r, y, u, n) <=> Waits(k, NULL, u, n) /\ u # t
  BY DEF Leaves, Waits
<1>2. Holder(A, k, NULL, t, E, t, m, o)
  <2>1. Setting(A, k, NULL, t, {}, E)
    BY <1>1, Begin DEF Good
  <2>. QED  BY <1>1, <2>1, NextHolder
<1>3. Shape(A, r, y, E, NULL) /\ \A u : m \notin ToSet(k.mtxlist[u]) =>
                                    \A p : Bound(A, r, y, u, p) <=> Bound(A, k, NULL, u, p)
  BY LeaveShape DEF Good
<1>4. Above(A, r, y, t, o)
  BY <1>1, <1>2, MutexAssumption DEF Holder, Above, Up
<1>5. ASSUME NEW u \in Tasks, u # o  PROVE Least(A, r, y, {}, u, r.priority[u])
  <2>1. \A p : Bound(A, r, y, u, p) <=> Bound(A, k, NULL, u, p)
    BY <1>2, <1>3, <1>5 DEF Holder
  <2>2. Least(A, k, NULL, {}, u, r.priority[u])
    BY <1>1, MutexAssumption DEF Good
  <2>. QED  BY <2>1, <2>2, LeastSame
<1>6. Setting(A, r, y, t, {}, E) /\ AllBut(A, r, y, t, {}, r, o)
  <2>1. \A u \in Tasks : u # o => Least(A, r, y, Extra(t, {}, u), u, r.priority[u])
    BY <1>5 DEF Extra
  <2>2. /\ Setting(A, r, y, t, {}, E)
        /\ \A s : (\A u \in Tasks : u # s => Least(A, r, y, Extra(t, {}, u), u, r.priority[u]))
                    => AllBut(A, r, y, t, {}, r, s)
    BY <1>1, <1>3, Begin
  <2>. QED  BY <2>1, <2>2
<1>7. mtx_rel_wai(r, t) = IF A[m].atr = "INHERIT" /\ r.priority[o] = r.priority[t]
                            THEN chain(release_one(r, o, NULL)) ELSE r
  BY <1>1 DEF mtx_rel_wai, release_mutex, Inherit
<1>. HIDE DEF A, E, o
<1>8. CASE A[m].atr = "INHERIT" /\ r.priority[o] = r.priority[t]
  <2>. DEFINE c == release_one(r, o, NULL)
  <2>1. r = [r EXCEPT !.mtxlist[o] = QueRemove(@, NULL)]
    BY <1>1, <1>4, NothingRemoved DEF Above
  <2>2. Pending(A, r, y, t, {}, c)
    BY <1>1, <1>4, <1>6, <2>1, LookAgain DEF A, Extra
  <2>. HIDE DEF c
  <2>3. Good(A, chain(c), y, E, NULL) /\ Fixed(r, chain(c))
    BY <1>3, <1>6, <2>2, ChainGood DEF A
  <2>. QED  BY <1>7, <1>8, <2>3 DEF c, A, E
<1>9. CASE ~(A[m].atr = "INHERIT" /\ r.priority[o] = r.priority[t])
  <2>. DEFINE p == r.priority[o]
  <2>1. Least(A, k, NULL, {}, o, p)
    BY <1>1, <1>4, MutexAssumption DEF Good, Above, A
  <2>. HIDE DEF p
  <2>2. Bound(A, r, y, o, p)
    <3>1. Bound(A, k, NULL, o, p)
      BY <2>1 DEF Least
    <3>2. ASSUME NEW n \in ToSet(k.mtxlist[o]), A[n].atr = "INHERIT", NEW v \in Tasks, Waits(k, NULL, v, n), p = k.priority[v]
          PROVE  Bound(A, r, y, o, p)
      <4>1. v = t => n = m
        BY <3>2 DEF Leaves, Waits
      <4>2. v # t
        BY <1>1, <1>9, <3>2, <4>1 DEF p
      <4>. QED  BY <1>1, <3>2, <4>2 DEF Bound
    <3>. QED  BY <1>1, <3>1, <3>2 DEF Bound
  <2>3. \A q : Bound(A, r, y, o, q) => Bound(A, k, NULL, o, q)
    BY <1>1 DEF Bound
  <2>4. Least(A, r, y, {}, o, p)
    BY <2>1, <2>2, <2>3 DEF Least
  <2>5. Good(A, r, y, E, NULL) /\ Fixed(r, r)
    BY <1>3, <1>5, <2>4 DEF Good, Fixed, p
  <2>. QED  BY <1>7, <1>9, <2>5 DEF A, E
<1>. QED  BY <1>8, <1>9

\* A mutex is given back: it is in no list then.
LEMMA ReleaseMutex ==
  ASSUME mtxatr \in AtrTypes, NEW k, Good(mtxatr, k, NULL, Live(mtxatr), NULL), NEW t \in Tasks,
         NEW m \in Live(mtxatr), k.mtxtsk[m] = t
  PROVE  LET r == release_mutex(k, t, m)
         IN  /\ Good(mtxatr, r, NULL, Live(mtxatr) \ {m}, NULL)
             /\ r.mtxtsk = k.mtxtsk /\ r.state = k.state /\ r.wid = k.wid /\ r.bpriority = k.bpriority
<1>. DEFINE A == mtxatr
            E == Live(A) \ {m}
            l == QueRemove(k.mtxlist[t], m)
            L == [k.mtxlist EXCEPT ![t] = l]
            k1 == [k EXCEPT !.mtxlist[t] = QueRemove(@, m)]
            r == chain(release_one(k, t, m))
<1>1. k \in KStates /\ Shape(A, k, NULL, Live(A), NULL)
      /\ \A u \in Tasks : Least(A, k, NULL, {}, u, k.priority[u])
  BY MutexAssumption DEF Good, Shape
<1>2. l \in Seq(Mutexes) /\ ToSet(l) = ToSet(k.mtxlist[t]) \ {m} /\ IsInjective(l)
  <2>1. k.mtxlist[t] \in Seq(Mutexes) /\ IsInjective(k.mtxlist[t])
    BY <1>1 DEF KStates, Shape, Lists
  <2>. QED  BY <2>1, QueRemoveProperties
<1>. HIDE DEF l
<1>3. L \in [Tasks -> Seq(Mutexes)] /\ \A u \in Tasks : L[u] = IF u = t THEN l ELSE k.mtxlist[u]
  BY <1>1, <1>2 DEF KStates
<1>4. k1 = [k EXCEPT !.mtxlist = L]
  BY <1>1 DEF KStates, l
<1>. HIDE DEF L, k1
<1>5. /\ k1 \in KStates /\ k1.mtxlist = L /\ k1.mtxtsk = k.mtxtsk /\ k1.wait_queue = k.wait_queue /\ k1.state = k.state
      /\ k1.wid = k.wid /\ k1.priority = k.priority /\ k1.bpriority = k.bpriority
  BY <1>1, <1>3, <1>4 DEF KStates
<1>6. \A u, n : Waits(k1, NULL, u, n) <=> Waits(k, NULL, u, n)
  BY <1>5 DEF Waits
<1>7. \A u \in Tasks : ToSet(L[u]) = ToSet(k.mtxlist[u]) \ {m}
  <2>1. ASSUME NEW u \in Tasks, u # t  PROVE m \notin ToSet(k.mtxlist[u])
    BY <1>1, <2>1, MutexAssumption DEF Shape, Lists
  <2>. QED  BY <1>2, <1>3, <2>1
<1>8. Shape(A, k1, NULL, E, NULL)
  <2>1. Queued(A, k1, NULL)
    BY <1>1, <1>5, <1>6 DEF Shape, Queued
  <2>2. Lists(k1, E, NULL)
    <3>1. \A u \in Tasks : IsInjective(L[u])
      BY <1>1, <1>2, <1>3 DEF Shape, Lists
    <3>. QED  BY <1>1, <1>5, <1>7, <3>1 DEF Shape, Lists
  <2>3. Climbs(A, k1) /\ Awake(A, k1)
    BY <1>1, <1>5 DEF Shape, Climbs, Awake
  <2>4. Below(A, k1)
    BY <1>1, <1>5, <1>7 DEF Shape, Below
  <2>. QED  BY <1>5, <2>1, <2>2, <2>3, <2>4 DEF Shape
<1>9. ASSUME NEW u \in Tasks, u # t  PROVE Least(A, k1, NULL, {}, u, k1.priority[u])
  <2>1. \A p : Bound(A, k1, NULL, u, p) <=> Bound(A, k, NULL, u, p)
    BY <1>3, <1>5, <1>6, <1>9 DEF Bound
  <2>2. Least(A, k, NULL, {}, u, k1.priority[u])
    BY <1>1, <1>5
  <2>. QED  BY <2>1, <2>2, LeastSame
<1>10. Setting(A, k1, NULL, t, {}, E) /\ Above(A, k1, NULL, t, t) /\ AllBut(A, k1, NULL, t, {}, k1, t)
  <2>1. \A u \in Tasks : u # t => Least(A, k1, NULL, Extra(t, {}, u), u, k1.priority[u])
    BY <1>9 DEF Extra
  <2>2. /\ Setting(A, k1, NULL, t, {}, E) /\ Above(A, k1, NULL, t, t)
        /\ \A s : (\A u \in Tasks : u # s => Least(A, k1, NULL, Extra(t, {}, u), u, k1.priority[u]))
                    => AllBut(A, k1, NULL, t, {}, k1, s)
    BY <1>5, <1>8, Begin
  <2>. QED  BY <2>1, <2>2
<1>11. Pending(A, k1, NULL, t, {}, release_one(k, t, m))
  BY <1>1, <1>10, LookAgain DEF k1, Extra
<1>12. Good(A, r, NULL, E, NULL) /\ Fixed(k1, r)
  <2>. HIDE DEF A, E
  <2>. QED  BY <1>8, <1>10, <1>11, ChainGood DEF A
<1>13. release_mutex(k, t, m) = r
  BY DEF release_mutex
<1>. HIDE DEF r
<1>. QED  BY <1>5, <1>12, <1>13 DEF Fixed

-----------------------------------------------------------------------------
(* A mutex gets a holder.                                                  *)

\* The priority of a task that does not wait has no effect on others.
LEMMA AwakeChange ==
  ASSUME NEW k \in KStates, NEW t \in Tasks, k.state[t] # "WAIT", NEW p \in Pri
  PROVE  change_task_priority(k, t, p) = [k EXCEPT !.priority[t] = p]
<1>. DEFINE N == Cardinality(Mutexes)
            c == change(k, t, p)
            k1 == [k EXCEPT !.priority[t] = p]
            V == {c, done(k1)}
<1>1. c.k = k /\ c.to = t /\ c.pri = p /\ done(k1).to = NULL /\ done(k1).k = k1 /\ t # NULL
  BY MutexAssumption DEF change, done
<1>. HIDE DEF k1
<1>2. change_one(c) = done(k1) /\ change_one(done(k1)) = done(k1)
  BY <1>1 DEF change_one, k1
<1>. HIDE DEF c
<1>3. PICK f : ChainTurns(c, f) /\ chain(c) = f[N + 1].k
  <2>1. c \in V /\ \A d \in V : change_one(d) \in V
    BY <1>2
  <2>. HIDE DEF V
  <2>. QED  BY <2>1, ChainTurnsExist
<1>4. N \in Nat /\ f[0] = c /\ \A n \in 1..N + 1 : f[n] = change_one(f[n - 1])
  BY <1>3, MutexAssumption, FS_CardinalityType DEF ChainTurns
<1>. DEFINE Q == {n \in Nat : n <= N => f[n + 1] = done(k1)}
<1>5. 0 \in Q
  <2>1. 1 \in 1..N + 1 /\ 1 - 1 = 0
    BY <1>4
  <2>2. f[1] = change_one(f[0])
    BY <1>4, <2>1
  <2>. QED  BY <1>2, <1>4, <2>2
<1>6. ASSUME NEW n \in Nat, n \in Q  PROVE n + 1 \in Q
  <2>. SUFFICES ASSUME n + 1 <= N  PROVE f[(n + 1) + 1] = done(k1)
    OBVIOUS
  <2>1. n <= N /\ (n + 1) + 1 \in 1..N + 1 /\ ((n + 1) + 1) - 1 = n + 1
    BY <1>4
  <2>2. f[n + 1] = done(k1)
    BY <1>6, <2>1
  <2>3. f[(n + 1) + 1] = change_one(f[n + 1])
    BY <1>4, <2>1
  <2>. QED  BY <1>2, <2>2, <2>3
<1>. HIDE DEF Q
<1>7. N \in Q
  BY <1>4, <1>5, <1>6, SetInduction
<1>8. f[N + 1] = done(k1)
  BY <1>4, <1>7 DEF Q
<1>. QED  BY <1>1, <1>3, <1>8 DEF change_task_priority, c, k1

\* Mutex m, which is in no list but that of d, may go to t, which does not wait.
Fit(A, k, x, E, d, t, m) ==
    /\ Good(A, k, x, E, d) /\ m \in Live(A) /\ E \in {Live(A), Live(A) \ {m}}
    /\ t \in Tasks /\ k.state[t] = "READY" /\ t # d
    /\ \A u \in Tasks : u # d => m \notin ToSet(k.mtxlist[u])
    /\ A[m].atr = "INHERIT" => \A v : Waits(k, x, v, m) => k.priority[t] <= k.priority[v]
    /\ A[m].atr = "CEILING" => k.bpriority[t] >= A[m].ceilpri

\* r is k when it has gone to t.
Given(A, k, r, t, m) ==
    /\ k \in KStates /\ r \in KStates
    /\ r.mtxtsk = [k.mtxtsk EXCEPT ![m] = t]
    /\ r.mtxlist = [k.mtxlist EXCEPT ![t] = QueInsertTop(@, m)]
    /\ r.wait_queue = k.wait_queue /\ r.state = k.state /\ r.wid = k.wid /\ r.bpriority = k.bpriority
    /\ r.priority = [k.priority EXCEPT ![t] =
                        IF A[m].atr = "CEILING" /\ @ > A[m].ceilpri THEN A[m].ceilpri ELSE @]

\* get_lock gives it.
LEMMA GetLock ==
  ASSUME mtxatr \in AtrTypes, NEW k \in KStates, NEW t \in Tasks, k.state[t] # "WAIT", NEW m \in Mutexes
  PROVE  Given(mtxatr, k, get_lock(k, m, t), t, m)
<1>. DEFINE c == mtxatr[m].ceilpri
            M == [k.mtxtsk EXCEPT ![m] = t]
            L == [k.mtxlist EXCEPT ![t] = QueInsertTop(@, m)]
            k1 == [k EXCEPT !.mtxtsk[m] = t, !.mtxlist[t] = QueInsertTop(@, m)]
            r == get_lock(k, m, t)
            b == mtxatr[m].atr = "CEILING" /\ k.priority[t] > c
            p == IF b THEN c ELSE k.priority[t]
<1>1. c \in Pri
  BY PriNumbers
<1>2. QueInsertTop(k.mtxlist[t], m) \in Seq(Mutexes)
  BY QueInsertTopProperties DEF KStates
<1>3. M \in [Mutexes -> Tasks \cup {NULL}] /\ L \in [Tasks -> Seq(Mutexes)]
  BY <1>2 DEF KStates
<1>4. k1 = [k EXCEPT !.mtxtsk = M, !.mtxlist = L]
  BY DEF KStates
<1>. HIDE DEF M, L, k1
<1>5. /\ k1 \in KStates /\ k1.mtxlist = L /\ k1.mtxtsk = M /\ k1.wait_queue = k.wait_queue /\ k1.state = k.state
      /\ k1.wid = k.wid /\ k1.priority = k.priority /\ k1.bpriority = k.bpriority
  BY <1>3, <1>4 DEF KStates
<1>6. r = IF b THEN change_task_priority(k1, t, c) ELSE k1
  BY DEF get_lock, Ceiling, k1
<1>7. change_task_priority(k1, t, c) = [k1 EXCEPT !.priority[t] = c]
  BY <1>1, <1>5, AwakeChange
<1>8. LET r1 == [k1 EXCEPT !.priority[t] = c]
      IN  /\ r1 \in KStates /\ Fixed(k1, r1) /\ r1.wait_queue = k1.wait_queue
          /\ r1.priority = [k1.priority EXCEPT ![t] = c]
  BY <1>1, <1>5, PriSet
<1>9. k.priority = [k.priority EXCEPT ![t] = @]
  BY DEF KStates
<1>. HIDE DEF r, b, c
<1>10. r \in KStates /\ r.mtxtsk = M /\ r.mtxlist = L /\ r.wait_queue = k.wait_queue /\ r.state = k.state
       /\ r.wid = k.wid /\ r.bpriority = k.bpriority /\ r.priority = [k.priority EXCEPT ![t] = p]
  <2>1. CASE b
    BY <1>5, <1>6, <1>7, <1>8, <2>1 DEF Fixed
  <2>2. CASE ~b
    BY <1>5, <1>6, <1>9, <2>2
  <2>. QED  BY <2>1, <2>2
<1>. QED  BY <1>10 DEF Given, M, L, r, b, c

\* The state is good with the new holder.
LEMMA GivenGood ==
  ASSUME NEW A \in AtrTypes, NEW k, NEW x, NEW E, NEW d, NEW t, NEW m, Fit(A, k, x, E, d, t, m),
         NEW r, Given(A, k, r, t, m)
  PROVE  Good(A, r, x, Live(A), d)
<1>. DEFINE c == A[m].ceilpri
            p == IF A[m].atr = "CEILING" /\ k.priority[t] > c THEN c ELSE k.priority[t]
<1>1. /\ k \in KStates /\ r \in KStates /\ t \in Tasks /\ t # d /\ m \in Live(A) /\ m \in Mutexes /\ m \in Int /\ c \in Pri
      /\ k.state[t] = "READY" /\ Shape(A, k, x, E, d) /\ Queued(A, k, x) /\ Lists(k, E, d)
      /\ r.wait_queue = k.wait_queue /\ r.state = k.state /\ r.wid = k.wid /\ r.bpriority = k.bpriority
  BY PriNumbers, MutexAssumption DEF Fit, Given, Good, Shape, Live
<1>2. \A n \in Mutexes : r.mtxtsk[n] = IF n = m THEN t ELSE k.mtxtsk[n]
  BY <1>1 DEF Given, KStates
<1>3. /\ \A u \in Tasks : u # t => r.mtxlist[u] = k.mtxlist[u]
      /\ IsInjective(r.mtxlist[t]) /\ ToSet(r.mtxlist[t]) = ToSet(k.mtxlist[t]) \cup {m}
  <2>1. k.mtxlist[t] \in Seq(Mutexes) /\ IsInjective(k.mtxlist[t]) /\ m \notin ToSet(k.mtxlist[t])
    BY <1>1 DEF KStates, Lists, Fit
  <2>2. r.mtxlist[t] = QueInsertTop(k.mtxlist[t], m) /\ \A u \in Tasks : u # t => r.mtxlist[u] = k.mtxlist[u]
    BY <1>1 DEF Given, KStates
  <2>. DEFINE q == k.mtxlist[t]
              l == QueInsertTop(q, m)
  <2>3. ToSet(l) = ToSet(q) \cup {m} /\ IsInjective(l)
    <3>1. q \in Seq(Mutexes) /\ IsInjective(q) /\ m \notin ToSet(q) /\ m \in Mutexes
      BY <1>1, <2>1
    <3>. HIDE DEF q
    <3>. QED  BY <3>1, QueInsertTopProperties
  <2>. HIDE DEF l
  <2>. QED  BY <2>2, <2>3 DEF l
<1>4. r.priority[t] = p /\ \A u \in Tasks : u # t => r.priority[u] = k.priority[u]
  BY <1>1 DEF Given, KStates
<1>5. \A u, n : Waits(r, x, u, n) <=> Waits(k, x, u, n)
  BY <1>1 DEF Waits
<1>6. \A u, n : Waits(k, x, u, n) => u \in Tasks /\ u # t
  BY <1>1 DEF Waits
<1>7. Queued(A, r, x)
  <2>1. ASSUME NEW n \in Mutexes, A[n].atr # "TFIFO"  PROVE Sorted(r.wait_queue[n], r.priority)
    <3>1. k.wait_queue[n] \in Seq(Tasks) /\ Sorted(k.wait_queue[n], k.priority)
      BY <1>1, <2>1 DEF KStates, Queued
    <3>2. \A u \in ToSet(k.wait_queue[n]) : r.priority[u] = k.priority[u]
      BY <1>1, <1>4, <1>6 DEF Queued
    <3>. QED  BY <1>1, <3>1, <3>2, SortedSame
  <2>. QED  BY <1>1, <1>5, <2>1 DEF Queued
<1>8. Lists(r, Live(A), d)
  <2>1. ASSUME NEW u \in Tasks
        PROVE  IsInjective(r.mtxlist[u]) /\ \A n \in Live(A) : r.mtxtsk[n] = u => n \in ToSet(r.mtxlist[u])
    <3>1. \A n \in Live(A) : n \in Mutexes /\ (n # m => n \in E)
      BY <1>1 DEF Fit, Live
    <3>2. IsInjective(k.mtxlist[u]) /\ \A n \in E : k.mtxtsk[n] = u => n \in ToSet(k.mtxlist[u])
      BY <1>1 DEF Lists
    <3>. QED  BY <1>1, <1>2, <1>3, <3>1, <3>2
  <2>2. ASSUME NEW u \in Tasks, NEW n \in ToSet(r.mtxlist[u])
        PROVE  n \in Live(A) /\ (u # d => r.mtxtsk[n] = u)
    <3>1. CASE n = m /\ u = t
      BY <1>1, <1>2, <3>1
    <3>2. CASE ~(n = m /\ u = t)
      <4>1. n \in ToSet(k.mtxlist[u])
        BY <1>3, <3>2
      <4>2. n \in Live(A) /\ (u # d => k.mtxtsk[n] = u /\ n # m)
        BY <1>1, <4>1 DEF Lists, Fit
      <4>. QED  BY <1>2, <4>2 DEF Live
    <3>. QED  BY <3>1, <3>2
  <2>. QED  BY <2>1, <2>2 DEF Lists
<1>9. Climbs(A, r)
  <2>. SUFFICES ASSUME NEW u \in Tasks, r.state[u] = "WAIT"
                PROVE  /\ r.wid[u] \in Live(A) /\ r.mtxtsk[r.wid[u]] \in Tasks
                       /\ \A h \in Live(A) : r.mtxtsk[h] = u => h < r.wid[u]
    BY DEF Climbs
  <2>1. u # t /\ k.wid[u] \in Live(A) /\ k.mtxtsk[k.wid[u]] \in Tasks
        /\ \A h \in Live(A) : k.mtxtsk[h] = u => h < k.wid[u]
    BY <1>1 DEF Shape, Climbs
  <2>. QED  BY <1>1, <1>2, <2>1 DEF Live
<1>10. Awake(A, r)
  <2>1. \A n \in Live(A) : n \in Mutexes
    BY DEF Live
  <2>. QED  BY <1>1, <1>2, <2>1 DEF Shape, Awake
<1>11. Below(A, r)
  <2>. SUFFICES ASSUME NEW u \in Tasks, NEW n \in Live(A), A[n].atr = "CEILING",
                       n \in ToSet(r.mtxlist[u]) \/ (r.state[u] = "WAIT" /\ r.wid[u] = n)
                PROVE  r.bpriority[u] >= A[n].ceilpri
    BY DEF Below
  <2>1. CASE n = m /\ u = t
    BY <1>1, <2>1 DEF Fit
  <2>2. CASE ~(n = m /\ u = t)
    BY <1>1, <1>3, <2>2 DEF Shape, Below
  <2>. QED  BY <2>1, <2>2
<1>12. ASSUME NEW u \in Tasks, u # d, u # t  PROVE Least(A, r, x, {}, u, r.priority[u])
  <2>1. \A y : Bound(A, r, x, u, y) <=> Bound(A, k, x, u, y)
    BY <1>1, <1>3, <1>4, <1>5, <1>6, <1>12 DEF Bound
  <2>2. Least(A, k, x, {}, u, r.priority[u])
    BY <1>4, <1>12 DEF Fit, Good
  <2>. QED  BY <2>1, <2>2, LeastSame
<1>13. Least(A, r, x, {}, t, p)
  <2>. DEFINE p0 == k.priority[t]
  <2>1. Least(A, k, x, {}, t, p0)
    BY <1>1 DEF Fit, Good
  <2>2. \A y : Bound(A, k, x, t, y) => Bound(A, r, x, t, y)
    BY <1>1, <1>3, <1>4, <1>5, <1>6 DEF Bound
  <2>3. \A y : Bound(A, r, x, t, y) => \/ Bound(A, k, x, t, y)
                                       \/ A[m].atr = "CEILING" /\ y = c
                                       \/ A[m].atr = "INHERIT" /\ \E v : Waits(k, x, v, m) /\ y = k.priority[v]
    BY <1>1, <1>3, <1>4, <1>5, <1>6 DEF Bound
  <2>4. A[m].atr = "CEILING" => Bound(A, r, x, t, c)
    BY <1>3 DEF Bound
  <2>5. p0 \in Nat /\ c \in Nat /\ \A y : Bound(A, r, x, t, y) => y \in Nat
    BY <1>1, KeyTypes, BoundTypes, PriNumbers
  <2>. HIDE DEF p0, c
  <2>6. Bound(A, r, x, t, p)
    BY <2>1, <2>2, <2>4 DEF Least, p0
  <2>7. ASSUME NEW y, Bound(A, r, x, t, y)  PROVE p0 <= y \/ (A[m].atr = "CEILING" /\ y = c)
    BY <2>1, <2>3, <2>7 DEF Least, Fit, p0
  <2>8. ASSUME NEW y, Bound(A, r, x, t, y)  PROVE p <= y
    <3>1. y \in Nat /\ p = IF A[m].atr = "CEILING" /\ p0 > c THEN c ELSE p0
      BY <2>5, <2>8 DEF p0
    <3>. HIDE DEF p
    <3>. QED  BY <2>5, <2>7, <2>8, <3>1
  <2>. HIDE DEF p
  <2>. QED  BY <2>6, <2>8 DEF Least
<1>. HIDE DEF p
<1>. QED  BY <1>1, <1>4, <1>7, <1>8, <1>9, <1>10, <1>11, <1>12, <1>13 DEF Good, Shape

\* hand_over may take mutex m, which is in no list but that of d.
Loose(A, k, x, E, d, m) ==
    /\ Good(A, k, x, E, d) /\ m \in Live(A) /\ E \in {Live(A), Live(A) \ {m}}
    /\ \A u \in Tasks : u # d => m \notin ToSet(k.mtxlist[u])
    /\ d \in Tasks /\ k.state[d] = "WAIT" => x = d
    /\ x \in Tasks => k.wid[x] # m

\* Where it goes, with what else hand_over changes.
Handed(k, r, d, m) ==
    /\ \A n : n # m => r.mtxtsk[n] = k.mtxtsk[n]
    /\ d \in Tasks => r.mtxtsk[m] # d /\ r.mtxlist[d] = k.mtxlist[d] /\ r.state[d] = k.state[d]
    /\ r.wid = k.wid

\* A free mutex is nobody's concern.
LEMMA HandOverFree ==
  ASSUME NEW A, NEW k, NEW x, NEW E, NEW d, NEW m, Loose(A, k, x, E, d, m), k.wait_queue[m] = <<>>
  PROVE  LET r == [k EXCEPT !.mtxtsk[m] = NULL] IN Good(A, r, x, Live(A), d) /\ Handed(k, r, d, m)
<1>. DEFINE M == [k.mtxtsk EXCEPT ![m] = NULL]
            r == [k EXCEPT !.mtxtsk[m] = NULL]
<1>1. k \in KStates /\ Shape(A, k, x, E, d) /\ m \in Live(A) /\ m \in Mutexes /\ NULL \notin Tasks
  BY MutexAssumption DEF Loose, Good, Shape, Live
<1>2. M \in [Mutexes -> Tasks \cup {NULL}] /\ \A n : M[n] = IF n = m THEN NULL ELSE k.mtxtsk[n]
  <2>1. k.mtxtsk \in [Mutexes -> Tasks \cup {NULL}]
    BY <1>1 DEF KStates
  <2>2. \A n \in Mutexes : M[n] = IF n = m THEN NULL ELSE k.mtxtsk[n]
    BY <2>1
  <2>. QED  BY <1>1, <2>1, <2>2
<1>3. r = [k EXCEPT !.mtxtsk = M]
  BY <1>1 DEF KStates
<1>. HIDE DEF M, r
<1>4. /\ r \in KStates /\ r.mtxtsk = M /\ r.mtxlist = k.mtxlist /\ r.wait_queue = k.wait_queue /\ r.state = k.state
      /\ r.wid = k.wid /\ r.priority = k.priority /\ r.bpriority = k.bpriority
  BY <1>1, <1>2, <1>3 DEF KStates
<1>5. \A u, n : Waits(r, x, u, n) <=> Waits(k, x, u, n)
  BY <1>4 DEF Waits
<1>6. \A u \in Tasks : k.state[u] = "WAIT" => k.wid[u] # m
  <2>1. \A u : ~(u \in ToSet(k.wait_queue[m]))
    BY MemberPosition, EmptySeq
  <2>2. \A u : ~Waits(k, x, u, m)
    BY <1>1, <2>1 DEF Shape, Queued
  <2>. QED  BY <2>2 DEF Waits, Loose
<1>7. Queued(A, r, x)
  BY <1>1, <1>4, <1>5 DEF Shape, Queued
<1>8. Lists(r, Live(A), d)
  <2>1. ASSUME NEW u \in Tasks
        PROVE  IsInjective(r.mtxlist[u]) /\ \A n \in Live(A) : r.mtxtsk[n] = u => n \in ToSet(r.mtxlist[u])
    BY <1>1, <1>2, <1>4 DEF Loose, Shape, Lists
  <2>2. ASSUME NEW u \in Tasks, NEW n \in ToSet(r.mtxlist[u])
        PROVE  n \in Live(A) /\ (u # d => r.mtxtsk[n] = u)
    BY <1>1, <1>2, <1>4 DEF Loose, Shape, Lists
  <2>. QED  BY <2>1, <2>2 DEF Lists
<1>9. Climbs(A, r)
  BY <1>1, <1>2, <1>4, <1>6 DEF Shape, Climbs
<1>10. Awake(A, r) /\ Below(A, r)
  BY <1>1, <1>2, <1>4 DEF Shape, Awake, Below
<1>11. ASSUME NEW u \in Tasks, u # d  PROVE Least(A, r, x, {}, u, r.priority[u])
  <2>1. \A y : Bound(A, r, x, u, y) <=> Bound(A, k, x, u, y)
    BY <1>4, <1>5 DEF Bound
  <2>2. Least(A, k, x, {}, u, r.priority[u])
    BY <1>4, <1>11 DEF Loose, Good
  <2>. QED  BY <2>1, <2>2, LeastSame
<1>12. Handed(k, r, d, m)
  BY <1>1, <1>2, <1>4 DEF Handed
<1>. QED  BY <1>4, <1>7, <1>8, <1>9, <1>10, <1>11, <1>12 DEF Good, Shape, r

\* hand_over gives the mutex to the first that waits.
LEMMA HandOver ==
  ASSUME mtxatr \in AtrTypes, NEW k, NEW x, NEW E, NEW d, NEW m, Loose(mtxatr, k, x, E, d, m)
  PROVE  LET r == hand_over(k, m) IN Good(mtxatr, r, x, Live(mtxatr), d) /\ Handed(k, r, d, m)
<1>. DEFINE A == mtxatr
            q == k.wait_queue[m]
            w == Head(q)
            k1 == wait_release(k, w)
            r == get_lock(k1, m, w)
<1>1. k \in KStates /\ Shape(A, k, x, E, d) /\ Queued(A, k, x) /\ m \in Live(A) /\ m \in Mutexes
  BY DEF Loose, Good, Shape, Live
<1>2. CASE q = <<>>
  <2>1. hand_over(k, m) = [k EXCEPT !.mtxtsk[m] = NULL]
    BY <1>2 DEF hand_over, isQueEmpty
  <2>. QED  BY <1>2, <2>1, HandOverFree
<1>3. CASE q # <<>>
  <2>1. hand_over(k, m) = r
    BY <1>3 DEF hand_over, isQueEmpty, QueNext
  <2>2. q \in Seq(Tasks) /\ (A[m].atr # "TFIFO" => Sorted(q, k.priority)) /\ \A u : u \in ToSet(q) <=> Waits(k, x, u, m)
    BY <1>1 DEF KStates, Queued
  <2>. HIDE DEF q
  <2>3. Waits(k, x, w, m) /\ w \in Tasks
    <3>1. w \in ToSet(q)
      BY <1>3, <2>2, MemberPosition
    <3>. QED  BY <2>2, <3>1 DEF Waits
  <2>4. A[m].atr = "INHERIT" => \A v : Waits(k, x, v, m) => k.priority[w] <= k.priority[v]
    <3>1. k.priority \in [Tasks -> Int]
      BY <1>1, KeyTypes
    <3>. QED  BY <1>3, <2>2, <3>1, SortedHead
  <2>. HIDE DEF w, k1, r
  <2>5. Leaves(k, x, k1, x, w, m)
    BY <1>1, <2>3, ReleaseLeaves DEF k1
  <2>6. Good(A, k1, x, E, d)
    BY <2>5, LeaveGood DEF Loose
  <2>7. /\ k1 \in KStates /\ k1.state[w] = "READY" /\ k1.mtxlist = k.mtxlist /\ k1.mtxtsk = k.mtxtsk /\ k1.wid = k.wid
        /\ k1.priority = k.priority /\ k1.bpriority = k.bpriority /\ \A u \in Tasks : u # w => k1.state[u] = k.state[u]
    <3>1. k1.state[w] = "READY" \/ (k1.state[w] = "WAIT" /\ x = w)
      BY <2>5 DEF Leaves
    <3>2. x # w
      BY <2>3 DEF Waits
    <3>. QED  BY <2>5, <3>1, <3>2 DEF Leaves
  <2>8. w # d
    BY <2>3 DEF Loose, Waits
  <2>9. Fit(A, k1, x, E, d, w, m)
    <3>1. A[m].atr = "CEILING" => k1.bpriority[w] >= A[m].ceilpri
      BY <1>1, <2>3, <2>7 DEF Shape, Below, Waits
    <3>2. \A v : Waits(k1, x, v, m) => Waits(k, x, v, m)
      BY <2>5 DEF Leaves
    <3>. QED  BY <2>3, <2>4, <2>6, <2>7, <2>8, <3>1, <3>2 DEF Fit, Loose
  <2>10. Given(A, k1, r, w, m)
    BY <1>1, <2>3, <2>7, GetLock DEF r
  <2>11. Good(A, r, x, Live(A), d)
    BY <2>9, <2>10, GivenGood
  <2>12. /\ r.mtxtsk = [k.mtxtsk EXCEPT ![m] = w] /\ r.mtxlist = [k.mtxlist EXCEPT ![w] = QueInsertTop(@, m)]
         /\ r.state = k1.state /\ r.wid = k.wid
    BY <2>7, <2>10 DEF Given
  <2>13. Handed(k, r, d, m)
    <3>1. k.mtxtsk \in [Mutexes -> Tasks \cup {NULL}] /\ k.mtxlist \in [Tasks -> Seq(Mutexes)]
      BY <1>1 DEF KStates
    <3>2. r.mtxtsk[m] = w /\ \A n : n # m => r.mtxtsk[n] = k.mtxtsk[n]
      BY <1>1, <2>12, <3>1
    <3>3. \A u \in Tasks : u # w => r.mtxlist[u] = k.mtxlist[u]
      BY <2>12, <3>1
    <3>. QED  BY <2>7, <2>8, <2>12, <3>2, <3>3 DEF Handed
  <2>. QED  BY <2>1, <2>11, <2>13 DEF A
<1>. QED  BY <1>2, <1>3

-----------------------------------------------------------------------------
(* The loops over a list of mutexes and over a queue.                      *)

\* What every turn of signal_all_mutex preserves holds at its end.
LEMMA HandOverLoop ==
  ASSUME NEW S, NEW L \in Seq(S), NEW V, NEW k \in V, NEW I, <<0, k>> \in I,
         \A n \in 1..Len(L) : \A v \in V : <<n - 1, v>> \in I =>
            hand_over(v, L[n]) \in V /\ <<n, hand_over(v, L[n])>> \in I
  PROVE  Loop(L, k, hand_over) \in V /\ <<Len(L), Loop(L, k, hand_over)>> \in I
<1>. DEFINE N == Len(L)
            next(n, v) == hand_over(v, L[n])
            step == [p \in (1..N) \X V |-> IF <<p[1] - 1, p[2]>> \in I THEN next(p[1], p[2]) ELSE p[2]]
            after == CHOOSE after : after = [n \in 0..Len(L) |-> IF n = 0 THEN k
                                                                 ELSE hand_over(after[n - 1], L[n])]
<1>1. N \in Nat
  BY LenProperties
<1>2. \A n \in 1..N : \A v \in V : <<n - 1, v>> \in I => next(n, v) \in V /\ <<n, next(n, v)>> \in I
  OBVIOUS
<1>3. Loop(L, k, hand_over) = after[N]
  BY DEF Loop
<1>4. \A g : g = [n \in 0..N |-> IF n = 0 THEN k ELSE next(n, g[n - 1])]
               => after = [n \in 0..N |-> IF n = 0 THEN k ELSE next(n, after[n - 1])]
  BY Zenon DEF after
<1>. HIDE DEF N, next, after
<1>5. step \in [(1..N) \X V -> V]
  BY <1>2
<1>. HIDE DEF step
<1>6. PICK g : Solves(g, N, V, k, step)
  <2>1. Recursion(N, V, k, step)
    BY <1>1, <1>5 DEF Recursion
  <2>. QED  BY <2>1, RecursionExists
<1>7. g \in [0..N -> V] /\ g[0] = k /\ \A n \in 1..N : g[n] = step[<<n, g[n - 1]>>]
  BY <1>6 DEF Solves
<1>8. ASSUME NEW n \in 1..N, NEW v \in V, <<n - 1, v>> \in I  PROVE step[<<n, v>>] = next(n, v)
  BY <1>8 DEF step
<1>. DEFINE P == {n \in Nat : n <= N => <<n, g[n]>> \in I}
<1>9. 0 \in P
  BY <1>7
<1>10. ASSUME NEW n \in Nat, n \in P  PROVE n + 1 \in P
  <2>. SUFFICES ASSUME n + 1 <= N  PROVE <<n + 1, g[n + 1]>> \in I
    OBVIOUS
  <2>1. n + 1 \in 1..N /\ (n + 1) - 1 = n /\ n \in 0..N /\ <<n, g[n]>> \in I
    BY <1>1, <1>10
  <2>2. g[n] \in V /\ g[n + 1] = step[<<n + 1, g[n]>>]
    BY <1>7, <2>1
  <2>3. step[<<n + 1, g[n]>>] = next(n + 1, g[n])
    BY <1>8, <2>1, <2>2
  <2>. QED  BY <1>2, <2>1, <2>2, <2>3
<1>. HIDE DEF P
<1>11. \A n \in 0..N : <<n, g[n]>> \in I
  <2>1. Nat \subseteq P
    BY <1>9, <1>10, SetInduction
  <2>. QED  BY <1>1, <2>1 DEF P
<1>12. \A n \in 1..N : g[n] = next(n, g[n - 1])
  <2>. SUFFICES ASSUME NEW n \in 1..N  PROVE g[n] = next(n, g[n - 1])
    OBVIOUS
  <2>1. n - 1 \in 0..N
    BY <1>1
  <2>. QED  BY <1>7, <1>8, <1>11, <2>1
<1>13. g = [n \in 0..N |-> IF n = 0 THEN k ELSE next(n, g[n - 1])]
  <2>. DEFINE h == [n \in 0..N |-> IF n = 0 THEN k ELSE next(n, g[n - 1])]
  <2>1. ASSUME NEW n \in 0..N  PROVE g[n] = h[n]
    <3>1. n = 0 \/ n \in 1..N
      BY <1>1
    <3>. QED  BY <3>1, <1>7, <1>12
  <2>. QED  BY <1>7, <2>1
<1>14. after = [n \in 0..N |-> IF n = 0 THEN k ELSE next(n, after[n - 1])]
  BY <1>4, <1>13, Zenon
<1>15. after[0] = k /\ \A n \in 1..N : after[n] = next(n, after[n - 1])
  <2>1. 0 \in 0..N /\ \A n \in 1..N : n \in 0..N /\ n # 0
    BY <1>1
  <2>. QED  BY <1>14, <2>1
<1>. DEFINE Q == {n \in Nat : n <= N => after[n] \in V /\ <<n, after[n]>> \in I}
<1>16. 0 \in Q
  BY <1>15
<1>17. ASSUME NEW n \in Nat, n \in Q  PROVE n + 1 \in Q
  <2>. SUFFICES ASSUME n + 1 <= N  PROVE after[n + 1] \in V /\ <<n + 1, after[n + 1]>> \in I
    OBVIOUS
  <2>1. n + 1 \in 1..N /\ (n + 1) - 1 = n /\ after[n] \in V /\ <<n, after[n]>> \in I
    BY <1>1, <1>17
  <2>. QED  BY <1>2, <1>15, <2>1
<1>. HIDE DEF Q
<1>18. N \in Q
  BY <1>1, <1>16, <1>17, SetInduction
<1>. QED  BY <1>1, <1>3, <1>18 DEF Q, N

\* What every turn of tk_del_mtx preserves holds at its end.
LEMMA ReleaseLoop ==
  ASSUME NEW S, NEW L \in Seq(S), NEW V, NEW k \in V, NEW I, <<0, k>> \in I,
         \A n \in 1..Len(L) : \A v \in V : <<n - 1, v>> \in I =>
            wait_release(v, L[n]) \in V /\ <<n, wait_release(v, L[n])>> \in I
  PROVE  Loop(L, k, wait_release) \in V /\ <<Len(L), Loop(L, k, wait_release)>> \in I
<1>. DEFINE N == Len(L)
            next(n, v) == wait_release(v, L[n])
            step == [p \in (1..N) \X V |-> IF <<p[1] - 1, p[2]>> \in I THEN next(p[1], p[2]) ELSE p[2]]
            after == CHOOSE after : after = [n \in 0..Len(L) |-> IF n = 0 THEN k
                                                                 ELSE wait_release(after[n - 1], L[n])]
<1>1. N \in Nat
  BY LenProperties
<1>2. \A n \in 1..N : \A v \in V : <<n - 1, v>> \in I => next(n, v) \in V /\ <<n, next(n, v)>> \in I
  OBVIOUS
<1>3. Loop(L, k, wait_release) = after[N]
  BY DEF Loop
<1>4. \A g : g = [n \in 0..N |-> IF n = 0 THEN k ELSE next(n, g[n - 1])]
               => after = [n \in 0..N |-> IF n = 0 THEN k ELSE next(n, after[n - 1])]
  BY Zenon DEF after
<1>. HIDE DEF N, next, after
<1>5. step \in [(1..N) \X V -> V]
  BY <1>2
<1>. HIDE DEF step
<1>6. PICK g : Solves(g, N, V, k, step)
  <2>1. Recursion(N, V, k, step)
    BY <1>1, <1>5 DEF Recursion
  <2>. QED  BY <2>1, RecursionExists
<1>7. g \in [0..N -> V] /\ g[0] = k /\ \A n \in 1..N : g[n] = step[<<n, g[n - 1]>>]
  BY <1>6 DEF Solves
<1>8. ASSUME NEW n \in 1..N, NEW v \in V, <<n - 1, v>> \in I  PROVE step[<<n, v>>] = next(n, v)
  BY <1>8 DEF step
<1>. DEFINE P == {n \in Nat : n <= N => <<n, g[n]>> \in I}
<1>9. 0 \in P
  BY <1>7
<1>10. ASSUME NEW n \in Nat, n \in P  PROVE n + 1 \in P
  <2>. SUFFICES ASSUME n + 1 <= N  PROVE <<n + 1, g[n + 1]>> \in I
    OBVIOUS
  <2>1. n + 1 \in 1..N /\ (n + 1) - 1 = n /\ n \in 0..N /\ <<n, g[n]>> \in I
    BY <1>1, <1>10
  <2>2. g[n] \in V /\ g[n + 1] = step[<<n + 1, g[n]>>]
    BY <1>7, <2>1
  <2>3. step[<<n + 1, g[n]>>] = next(n + 1, g[n])
    BY <1>8, <2>1, <2>2
  <2>. QED  BY <1>2, <2>1, <2>2, <2>3
<1>. HIDE DEF P
<1>11. \A n \in 0..N : <<n, g[n]>> \in I
  <2>1. Nat \subseteq P
    BY <1>9, <1>10, SetInduction
  <2>. QED  BY <1>1, <2>1 DEF P
<1>12. \A n \in 1..N : g[n] = next(n, g[n - 1])
  <2>. SUFFICES ASSUME NEW n \in 1..N  PROVE g[n] = next(n, g[n - 1])
    OBVIOUS
  <2>1. n - 1 \in 0..N
    BY <1>1
  <2>. QED  BY <1>7, <1>8, <1>11, <2>1
<1>13. g = [n \in 0..N |-> IF n = 0 THEN k ELSE next(n, g[n - 1])]
  <2>. DEFINE h == [n \in 0..N |-> IF n = 0 THEN k ELSE next(n, g[n - 1])]
  <2>1. ASSUME NEW n \in 0..N  PROVE g[n] = h[n]
    <3>1. n = 0 \/ n \in 1..N
      BY <1>1
    <3>. QED  BY <3>1, <1>7, <1>12
  <2>. QED  BY <1>7, <2>1
<1>14. after = [n \in 0..N |-> IF n = 0 THEN k ELSE next(n, after[n - 1])]
  BY <1>4, <1>13, Zenon
<1>15. after[0] = k /\ \A n \in 1..N : after[n] = next(n, after[n - 1])
  <2>1. 0 \in 0..N /\ \A n \in 1..N : n \in 0..N /\ n # 0
    BY <1>1
  <2>. QED  BY <1>14, <2>1
<1>. DEFINE Q == {n \in Nat : n <= N => after[n] \in V /\ <<n, after[n]>> \in I}
<1>16. 0 \in Q
  BY <1>15
<1>17. ASSUME NEW n \in Nat, n \in Q  PROVE n + 1 \in Q
  <2>. SUFFICES ASSUME n + 1 <= N  PROVE after[n + 1] \in V /\ <<n + 1, after[n + 1]>> \in I
    OBVIOUS
  <2>1. n + 1 \in 1..N /\ (n + 1) - 1 = n /\ after[n] \in V /\ <<n, after[n]>> \in I
    BY <1>1, <1>17
  <2>. QED  BY <1>2, <1>15, <2>1
<1>. HIDE DEF Q
<1>18. N \in Q
  BY <1>1, <1>16, <1>17, SetInduction
<1>. QED  BY <1>1, <1>3, <1>18 DEF Q, N

-----------------------------------------------------------------------------
(* A task ends.                                                            *)

\* It gives back all it holds.
LEMMA SignalAll ==
  ASSUME mtxatr \in AtrTypes, NEW k, NEW x, NEW t \in Tasks, Good(mtxatr, k, x, Live(mtxatr), NULL),
         x \in {NULL, t}, k.state[t] = "WAIT" <=> x = t
  PROVE  LET r == signal_all_mutex(k, t)
         IN  /\ Good(mtxatr, r, x, Live(mtxatr), t) /\ r.state[t] = k.state[t]
             /\ \A m \in Live(mtxatr) : r.mtxtsk[m] # t
<1>. DEFINE A == mtxatr
            E == Live(A)
            L == k.mtxlist[t]
            Still(v) == /\ Good(A, v, x, E, t) /\ v.mtxlist[t] = L /\ v.state[t] = k.state[t] /\ v.wid = k.wid
            I == {p \in (0..Len(L)) \X KStates :
                    /\ Still(p[2])
                    /\ \A j \in 1..Len(L) : IF j <= p[1] THEN p[2].mtxtsk[L[j]] # t ELSE p[2].mtxtsk[L[j]] = t}
            r == signal_all_mutex(k, t)
<1>1. k \in KStates /\ Lists(k, E, NULL) /\ Climbs(A, k) /\ t # NULL
  BY MutexAssumption DEF Good, Shape
<1>2. L \in Seq(Mutexes) /\ Len(L) \in Nat /\ IsInjective(L) /\ \A j \in 1..Len(L) : L[j] \in E /\ k.mtxtsk[L[j]] = t
  <2>1. L \in Seq(Mutexes) /\ IsInjective(L) /\ \A m \in ToSet(L) : m \in E /\ k.mtxtsk[m] = t
    BY <1>1 DEF KStates, Lists
  <2>2. \A j \in 1..Len(L) : L[j] \in ToSet(L)
    BY <2>1, MemberPosition
  <2>. QED  BY <2>1, <2>2, LenProperties
<1>3. Good(A, k, x, E, t)
  <2>1. Lists(k, E, t)
    BY <1>1, MutexAssumption DEF Lists
  <2>. QED  BY <2>1, MutexAssumption DEF Good, Shape
<1>4. \A i, j \in 1..Len(L) : L[i] = L[j] => i = j
  BY <1>2, InjectivePositions
<1>5. x \in Tasks => \A j \in 1..Len(L) : k.wid[x] # L[j]
  <2>. SUFFICES ASSUME x \in Tasks, NEW j \in 1..Len(L)  PROVE k.wid[x] # L[j]
    OBVIOUS
  <2>1. x = t /\ L[j] \in E /\ k.mtxtsk[L[j]] = t
    BY <1>2, MutexAssumption
  <2>2. L[j] < k.wid[x] /\ k.wid[x] \in Int
    BY <1>1, <2>1, MutexAssumption DEF Climbs, Live
  <2>3. ~(k.wid[x] < k.wid[x])
    BY <2>2
  <2>. QED  BY <2>2, <2>3
<1>6. <<0, k>> \in I
  BY <1>1, <1>2, <1>3
<1>7. ASSUME NEW n \in 1..Len(L), NEW v \in KStates, <<n - 1, v>> \in I
      PROVE  hand_over(v, L[n]) \in KStates /\ <<n, hand_over(v, L[n])>> \in I
  <2>. DEFINE m == L[n]
              s == hand_over(v, m)
  <2>1. /\ Still(v) /\ v.mtxtsk[m] = t /\ m \in E
        /\ \A j \in 1..Len(L) : IF j <= n - 1 THEN v.mtxtsk[L[j]] # t ELSE v.mtxtsk[L[j]] = t
    BY <1>2, <1>7
  <2>. HIDE DEF L, s, m
  <2>2. Loose(A, v, x, E, t, m)
    <3>1. \A u \in Tasks : u # t => m \notin ToSet(v.mtxlist[u])
      BY <2>1 DEF Good, Shape, Lists
    <3>2. x \in Tasks => v.wid[x] # m
      BY <1>5, <2>1 DEF m
    <3>. QED  BY <2>1, <3>1, <3>2 DEF Loose
  <2>3. Good(A, s, x, E, t) /\ Handed(v, s, t, m)
    BY <2>2, HandOver DEF s
  <2>4. s \in KStates /\ Still(s)
    BY <2>1, <2>3 DEF Good, Shape, Handed
  <2>5. ASSUME NEW j \in 1..Len(L)
        PROVE  IF j <= n THEN s.mtxtsk[L[j]] # t ELSE s.mtxtsk[L[j]] = t
    <3>1. CASE j = n
      BY <2>3, <3>1 DEF Handed, m
    <3>2. CASE j # n
      <4>1. L[j] # m
        BY <1>4, <3>2 DEF m
      <4>2. s.mtxtsk[L[j]] = v.mtxtsk[L[j]]
        BY <2>3, <4>1 DEF Handed
      <4>3. j <= n <=> j <= n - 1
        BY <1>2, <3>2
      <4>. QED  BY <2>1, <4>2, <4>3
    <3>. QED  BY <3>1, <3>2
  <2>6. n \in 0..Len(L)
    BY <1>2
  <2>. QED  BY <2>4, <2>5, <2>6 DEF s, m
<1>8. r = Loop(L, k, hand_over)
  BY DEF signal_all_mutex
<1>. HIDE DEF I, L, r
<1>9. <<Len(L), r>> \in I
  BY <1>1, <1>2, <1>6, <1>7, <1>8, HandOverLoop
<1>10. Still(r) /\ \A j \in 1..Len(L) : r.mtxtsk[L[j]] # t
  BY <1>2, <1>9 DEF I
<1>11. \A m \in E : r.mtxtsk[m] # t
  <2>1. \A m \in E : r.mtxtsk[m] = t => m \in ToSet(L)
    BY <1>10 DEF Good, Shape, Lists
  <2>2. \A m \in ToSet(L) : \E j \in 1..Len(L) : m = L[j]
    BY <1>2, MemberPosition
  <2>. QED  BY <1>10, <2>1, <2>2
<1>. HIDE DEF A, E
<1>. QED  BY <1>10, <1>11 DEF A, E, r

\* ... and then it is as it was before it started.
Reset(k, r, t) == r = [k EXCEPT !.state[t] = "DORMANT", !.mtxlist[t] = <<>>,
                                !.priority[t] = INI_PRI, !.bpriority[t] = INI_PRI]

\* The state is good then.
LEMMA Ended ==
  ASSUME NEW A, NEW k, NEW x, NEW t \in Tasks, Good(A, k, x, Live(A), t), x \in {NULL, t},
         k.state[t] = "WAIT" => x = t, \A m \in Live(A) : k.mtxtsk[m] # t,
         NEW r, Reset(k, r, t)
  PROVE  Good(A, r, NULL, Live(A), NULL)
<1>1. k \in KStates /\ Shape(A, k, x, Live(A), t) /\ t # NULL
  BY MutexAssumption DEF Good, Shape
<1>2. r \in KStates
  <2>1. <<>> \in Seq(Mutexes) /\ INI_PRI \in Pri
    BY PriNumbers
  <2>. QED  BY <1>1, <2>1 DEF KStates, Reset
<1>3. r.mtxtsk = k.mtxtsk /\ r.wait_queue = k.wait_queue /\ r.wid = k.wid
  BY <1>1 DEF KStates, Reset
<1>4. \A u \in Tasks : u # t => r.state[u] = k.state[u] /\ r.mtxlist[u] = k.mtxlist[u]
                               /\ r.priority[u] = k.priority[u] /\ r.bpriority[u] = k.bpriority[u]
  BY <1>1 DEF KStates, Reset
<1>5. r.state[t] = "DORMANT" /\ r.mtxlist[t] = <<>> /\ r.priority[t] = INI_PRI /\ r.bpriority[t] = INI_PRI
  BY <1>1 DEF KStates, Reset
<1>6. \A u, n : Waits(r, NULL, u, n) <=> Waits(k, x, u, n)
  BY <1>1, <1>3, <1>4, <1>5, MutexAssumption DEF Waits
<1>7. \A u, n : Waits(k, x, u, n) => u \in Tasks /\ u # t
  BY DEF Waits
<1>8. Queued(A, r, NULL)
  <2>1. ASSUME NEW n \in Mutexes, A[n].atr # "TFIFO"  PROVE Sorted(r.wait_queue[n], r.priority)
    <3>1. k.wait_queue[n] \in Seq(Tasks) /\ Sorted(k.wait_queue[n], k.priority)
      BY <1>1, <2>1 DEF KStates, Shape, Queued
    <3>2. \A u \in ToSet(k.wait_queue[n]) : r.priority[u] = k.priority[u]
      BY <1>1, <1>4, <1>7 DEF Shape, Queued
    <3>3. Sorted(k.wait_queue[n], r.priority)
      BY <3>1, <3>2, SortedSame
    <3>. QED  BY <1>3, <3>3
  <2>. QED  BY <1>1, <1>3, <1>6, <2>1 DEF Shape, Queued
<1>9. ToSet(<<>>) = {} /\ IsInjective(<<>>)
  BY DEF ToSet, IsInjective
<1>10. Lists(r, Live(A), NULL)
  <2>1. ASSUME NEW u \in Tasks, u # t
        PROVE  /\ IsInjective(r.mtxlist[u])
               /\ \A m \in Live(A) : r.mtxtsk[m] = u => m \in ToSet(r.mtxlist[u])
               /\ \A m \in ToSet(r.mtxlist[u]) : m \in Live(A) /\ r.mtxtsk[m] = u
    BY <1>1, <1>3, <1>4, <2>1 DEF Shape, Lists
  <2>2. /\ IsInjective(r.mtxlist[t])
        /\ \A m \in Live(A) : r.mtxtsk[m] = t => m \in ToSet(r.mtxlist[t])
        /\ \A m \in ToSet(r.mtxlist[t]) : m \in Live(A) /\ r.mtxtsk[m] = t
    BY <1>3, <1>5, <1>9
  <2>. QED  BY <2>1, <2>2 DEF Lists
<1>11. Climbs(A, r)
  <2>1. \A u \in Tasks : r.state[u] = "WAIT" => k.state[u] = "WAIT"
    BY <1>4, <1>5
  <2>. QED  BY <1>1, <1>3, <2>1 DEF Shape, Climbs
<1>12. Awake(A, r)
  BY <1>1, <1>3, <1>4 DEF Shape, Awake
<1>13. Below(A, r)
  <2>. SUFFICES ASSUME NEW u \in Tasks, NEW n \in Live(A), A[n].atr = "CEILING",
                       n \in ToSet(r.mtxlist[u]) \/ (r.state[u] = "WAIT" /\ r.wid[u] = n)
                PROVE  r.bpriority[u] >= A[n].ceilpri
    BY DEF Below
  <2>1. u # t
    BY <1>5, <1>9
  <2>. QED  BY <1>1, <1>3, <1>4, <2>1 DEF Shape, Below
<1>14. ASSUME NEW u \in Tasks, u # t  PROVE Least(A, r, NULL, {}, u, r.priority[u])
  <2>1. \A y : Bound(A, r, NULL, u, y) <=> Bound(A, k, x, u, y)
    BY <1>4, <1>6, <1>7, <1>14 DEF Bound
  <2>2. Least(A, k, x, {}, u, r.priority[u])
    BY <1>4, <1>14 DEF Good
  <2>. QED  BY <2>1, <2>2, LeastSame
<1>15. Least(A, r, NULL, {}, t, r.priority[t])
  <2>1. \A y : Bound(A, r, NULL, t, y) <=> y = INI_PRI
    BY <1>5, <1>9 DEF Bound
  <2>2. INI_PRI <= INI_PRI
    BY PriNumbers
  <2>. QED  BY <1>5, <2>1, <2>2 DEF Least
<1>. QED  BY <1>2, <1>8, <1>10, <1>11, <1>12, <1>13, <1>14, <1>15 DEF Good, Shape

-----------------------------------------------------------------------------
(* A task begins to wait.                                                  *)

\* s is k with t in the queue of m.
Joins(A, k, s, t, m) ==
    s = [k EXCEPT !.state[t] = "WAIT", !.wid[t] = m,
                  !.wait_queue[m] = gcb_make_wait(@, t, k.priority, A[m].atr # "TFIFO")]

\* t may wait for m, which o holds, and whose priority o has if it inherits it.
Ready(A, k, t, m, o) ==
    /\ Shape(A, k, NULL, Live(A), NULL) /\ t \in Tasks /\ k.state[t] = "READY"
    /\ m \in Live(A) /\ k.mtxtsk[m] = o /\ o \in Tasks
    /\ \A n \in ToSet(k.mtxlist[t]) : n < m
    /\ A[m].atr = "CEILING" => k.bpriority[t] >= A[m].ceilpri
    /\ \A u \in Tasks : Least(A, k, NULL, Extra(o, IF A[m].atr = "INHERIT" THEN {k.priority[t]} ELSE {}, u),
                              u, k.priority[u])

\* The state is good when it waits.
LEMMA JoinGood ==
  ASSUME NEW A \in AtrTypes, NEW k, NEW t, NEW m, NEW o, Ready(A, k, t, m, o), NEW s, Joins(A, k, s, t, m)
  PROVE  Good(A, s, NULL, Live(A), NULL)
<1>. DEFINE q == k.wait_queue[m]
            w == gcb_make_wait(q, t, k.priority, A[m].atr # "TFIFO")
            P == IF A[m].atr = "INHERIT" THEN {k.priority[t]} ELSE {}
<1>1. /\ k \in KStates /\ t \in Tasks /\ k.state[t] = "READY" /\ m \in Live(A) /\ m \in Mutexes
      /\ k.mtxtsk[m] = o /\ o \in Tasks /\ t # NULL
      /\ Queued(A, k, NULL) /\ Lists(k, Live(A), NULL) /\ Climbs(A, k) /\ Awake(A, k) /\ Below(A, k)
  BY MutexAssumption DEF Ready, Shape, Live
<1>2. q \in Seq(Tasks) /\ IsInjective(q) /\ t \notin ToSet(q) /\ k.priority \in [Tasks -> Int]
      /\ (A[m].atr # "TFIFO" => Sorted(q, k.priority))
  BY <1>1, KeyTypes DEF KStates, Queued, Waits
<1>3. w \in Seq(Tasks) /\ ToSet(w) = ToSet(q) \cup {t} /\ IsInjective(w) /\ (A[m].atr # "TFIFO" => Sorted(w, k.priority))
  <2>. HIDE DEF q
  <2>1. CASE A[m].atr # "TFIFO"
    <3>1. w = queue_insert_tpri(q, t, k.priority)
      BY <2>1 DEF gcb_make_wait
    <3>. QED  BY <1>1, <1>2, <2>1, <3>1, InsertTpri
  <2>2. CASE A[m].atr = "TFIFO"
    <3>1. w = QueInsert(q, t)
      BY <2>2 DEF gcb_make_wait
    <3>. QED  BY <1>1, <1>2, <2>2, <3>1, QueInsertProperties
  <2>. QED  BY <2>1, <2>2
<1>. HIDE DEF w
<1>4. s \in KStates /\ s.mtxtsk = k.mtxtsk /\ s.mtxlist = k.mtxlist /\ s.priority = k.priority /\ s.bpriority = k.bpriority
      /\ s.wait_queue = [k.wait_queue EXCEPT ![m] = w] /\ s.wid = [k.wid EXCEPT ![t] = m]
      /\ s.state = [k.state EXCEPT ![t] = "WAIT"]
  <2>. DEFINE W == [k.wait_queue EXCEPT ![m] = w]
              I == [k.wid EXCEPT ![t] = m]
              S == [k.state EXCEPT ![t] = "WAIT"]
  <2>1. s = [k EXCEPT !.state = S, !.wid = I, !.wait_queue = W]
    BY <1>1 DEF Joins, KStates, w
  <2>2. W \in [Mutexes -> Seq(Tasks)] /\ I \in [Tasks -> Mutexes \cup {NULL}] /\ S \in [Tasks -> {"READY", "WAIT", "DORMANT"}]
    BY <1>1, <1>3 DEF KStates
  <2>. HIDE DEF W, I, S
  <2>3. s \in KStates /\ s.mtxtsk = k.mtxtsk /\ s.mtxlist = k.mtxlist /\ s.priority = k.priority /\ s.bpriority = k.bpriority
        /\ s.wait_queue = W /\ s.wid = I /\ s.state = S
    BY <1>1, <2>1, <2>2 DEF KStates
  <2>. QED  BY <2>3 DEF W, I, S
<1>5. /\ \A n \in Mutexes : n # m => s.wait_queue[n] = k.wait_queue[n]
      /\ \A u \in Tasks : u # t => s.state[u] = k.state[u] /\ s.wid[u] = k.wid[u]
      /\ s.state[t] = "WAIT" /\ s.wid[t] = m /\ s.wait_queue[m] = w
  BY <1>1, <1>4 DEF KStates
<1>6. \A u, n : Waits(s, NULL, u, n) <=> Waits(k, NULL, u, n) \/ (u = t /\ n = m)
  BY <1>1, <1>5 DEF Waits
<1>7. \A n : ~Waits(k, NULL, t, n)
  BY <1>1 DEF Waits
<1>8. Queued(A, s, NULL)
  <2>1. ASSUME NEW n \in Mutexes, n = m
        PROVE  /\ IsInjective(s.wait_queue[n])
               /\ \A u : u \in ToSet(s.wait_queue[n]) <=> Waits(s, NULL, u, n)
               /\ A[n].atr # "TFIFO" => Sorted(s.wait_queue[n], s.priority)
    <3>1. \A u : u \in ToSet(q) <=> Waits(k, NULL, u, m)
      BY <1>1 DEF Queued
    <3>. HIDE DEF q
    <3>. QED  BY <1>3, <1>4, <1>5, <1>6, <2>1, <3>1
  <2>2. ASSUME NEW n \in Mutexes, n # m
        PROVE  /\ IsInjective(s.wait_queue[n])
               /\ \A u : u \in ToSet(s.wait_queue[n]) <=> Waits(s, NULL, u, n)
               /\ A[n].atr # "TFIFO" => Sorted(s.wait_queue[n], s.priority)
    <3>1. s.wait_queue[n] = k.wait_queue[n] /\ s.priority = k.priority
      BY <1>1, <1>4, <2>2 DEF KStates
    <3>2. \A u : Waits(s, NULL, u, n) <=> Waits(k, NULL, u, n)
      BY <1>6, <2>2
    <3>. QED  BY <1>1, <3>1, <3>2 DEF Queued
  <2>. QED  BY <2>1, <2>2 DEF Queued
<1>9. Lists(s, Live(A), NULL)
  BY <1>1, <1>4 DEF Lists
<1>10. Climbs(A, s)
  <2>1. ASSUME NEW u \in Tasks, s.state[u] = "WAIT", u # t
        PROVE  /\ s.wid[u] \in Live(A) /\ s.mtxtsk[s.wid[u]] \in Tasks
               /\ \A h \in Live(A) : s.mtxtsk[h] = u => h < s.wid[u]
    BY <1>1, <1>4, <1>5, <2>1 DEF Climbs
  <2>2. /\ s.wid[t] \in Live(A) /\ s.mtxtsk[s.wid[t]] \in Tasks
        /\ \A h \in Live(A) : s.mtxtsk[h] = t => h < s.wid[t]
    BY <1>1, <1>4, <1>5 DEF Ready, Lists
  <2>. QED  BY <2>1, <2>2 DEF Climbs
<1>11. Awake(A, s)
  BY <1>1, <1>4, <1>5 DEF Awake
<1>12. Below(A, s)
  <2>. SUFFICES ASSUME NEW u \in Tasks, NEW n \in Live(A), A[n].atr = "CEILING",
                       n \in ToSet(s.mtxlist[u]) \/ (s.state[u] = "WAIT" /\ s.wid[u] = n)
                PROVE  s.bpriority[u] >= A[n].ceilpri
    BY DEF Below
  <2>1. CASE u = t /\ n = m
    BY <1>4, <2>1 DEF Ready
  <2>2. CASE ~(u = t /\ n = m)
    BY <1>1, <1>4, <1>5, <2>2 DEF Below
  <2>. QED  BY <2>1, <2>2
<1>13. ASSUME NEW u \in Tasks  PROVE Least(A, s, NULL, {}, u, s.priority[u])
  <2>1. m \in ToSet(k.mtxlist[u]) <=> u = o
    BY <1>1, MutexAssumption DEF Lists
  <2>2. \A y : Bound(A, s, NULL, u, y) <=> Bound(A, k, NULL, u, y) \/ y \in Extra(o, P, u)
    <3>1. ASSUME NEW y  PROVE Bound(A, k, NULL, u, y) => Bound(A, s, NULL, u, y)
      BY <1>4, <1>6 DEF Bound
    <3>2. ASSUME NEW y, y \in Extra(o, P, u)  PROVE Bound(A, s, NULL, u, y)
      <4>1. u = o /\ A[m].atr = "INHERIT" /\ y = k.priority[t]
        BY <3>2 DEF Extra
      <4>. QED  BY <1>1, <1>4, <1>6, <2>1, <4>1 DEF Bound
    <3>3. ASSUME NEW y, Bound(A, s, NULL, u, y)  PROVE Bound(A, k, NULL, u, y) \/ y \in Extra(o, P, u)
      BY <1>4, <1>6, <2>1, <3>3 DEF Bound, Extra
    <3>. QED  BY <3>1, <3>2, <3>3
  <2>3. Least(A, k, NULL, Extra(o, P, u), u, s.priority[u])
    BY <1>4 DEF Ready
  <2>. HIDE DEF P
  <2>. QED  BY <2>2, <2>3 DEF Least
<1>. QED  BY <1>4, <1>8, <1>9, <1>10, <1>11, <1>12, <1>13 DEF Good, Shape

\* Before, the holder is raised to its priority, if it inherits it.
LEMMA Raised ==
  ASSUME mtxatr \in AtrTypes, NEW k, Good(mtxatr, k, NULL, Live(mtxatr), NULL), NEW t \in Tasks, k.state[t] = "READY",
         NEW m \in Live(mtxatr), NEW o \in Tasks, k.mtxtsk[m] = o, \A n \in ToSet(k.mtxlist[t]) : n < m,
         mtxatr[m].atr = "CEILING" => k.bpriority[t] >= mtxatr[m].ceilpri
  PROVE  LET r == IF mtxatr[m].atr = "INHERIT" /\ k.priority[o] > k.priority[t]
                    THEN change_task_priority(k, o, k.priority[t]) ELSE k
         IN  Ready(mtxatr, r, t, m, o)
<1>. DEFINE A == mtxatr
            E == Live(A)
            p == k.priority[t]
            P == IF A[m].atr = "INHERIT" THEN {p} ELSE {}
            c == change(k, o, p)
            r == chain(c)
<1>1. /\ k \in KStates /\ Shape(A, k, NULL, E, NULL) /\ Lists(k, E, NULL) /\ o # NULL
      /\ \A u \in Tasks : Least(A, k, NULL, {}, u, k.priority[u])
  BY MutexAssumption DEF Good, Shape
<1>2. p \in Pri /\ p \in Nat /\ k.priority[o] \in Nat
  BY <1>1, KeyTypes, PriNumbers
<1>3. CASE A[m].atr = "INHERIT" /\ k.priority[o] > p
  <2>1. ~(Up(A, k, t) \subseteq Up(A, k, o))
    <3>1. \A h \in E : h \in Mutexes /\ h \in Int
      BY MutexAssumption DEF Live
    <3>2. m \in Up(A, k, t)
      BY <1>1, <3>1 DEF Up, Lists
    <3>3. m \notin Up(A, k, o)
      BY <3>1 DEF Up
    <3>. QED  BY <3>2, <3>3
  <2>2. Setting(A, k, NULL, o, P, E) /\ Above(A, k, NULL, o, o) /\ AllBut(A, k, NULL, o, P, k, o)
    <3>1. P \in SUBSET Pri
      BY <1>2
    <3>2. \A u \in Tasks : u # o => Least(A, k, NULL, Extra(o, P, u), u, k.priority[u])
      BY <1>1 DEF Extra
    <3>3. /\ Setting(A, k, NULL, o, P, E) /\ Above(A, k, NULL, o, o)
          /\ \A s : (\A u \in Tasks : u # s => Least(A, k, NULL, Extra(o, P, u), u, k.priority[u]))
                      => AllBut(A, k, NULL, o, P, k, s)
      BY <1>1, <3>1, Begin
    <3>. QED  BY <3>2, <3>3
  <2>3. Least(A, k, NULL, Extra(o, P, o), o, p)
    <3>1. Extra(o, P, o) = {p}
      BY <1>3 DEF Extra
    <3>2. \A y : Bound(A, k, NULL, o, y) => y \in Nat /\ k.priority[o] <= y
      BY <1>1, BoundTypes, PriNumbers DEF Least
    <3>. HIDE DEF p
    <3>3. \A y : Bound(A, k, NULL, o, y) => p <= y
      BY <1>2, <1>3, <3>2
    <3>4. p <= p
      BY <1>2
    <3>. QED  BY <3>1, <3>3, <3>4 DEF Least
  <2>. HIDE DEF E, P, p
  <2>4. Pending(A, k, NULL, o, P, c)
    BY <1>2, <2>2, <2>3, OneNext
  <2>. HIDE DEF c, r
  <2>5. AllBut(A, k, NULL, o, P, r, NULL)
    BY <2>2, <2>4, ChainResult DEF r
  <2>6. Shape(A, r, NULL, E, NULL) /\ Fixed(k, r)
    BY <1>1, <2>5, FixedShape DEF AllBut
  <2>7. r.priority[t] = p /\ \A u \in Tasks : Least(A, r, NULL, Extra(o, P, u), u, r.priority[u])
    BY <2>1, <2>5, MutexAssumption DEF AllBut, p
  <2>8. Ready(A, r, t, m, o)
    BY <2>6, <2>7 DEF Ready, Fixed, P, E
  <2>. QED  BY <1>3, <2>8 DEF change_task_priority, c, r, p
<1>4. CASE ~(A[m].atr = "INHERIT" /\ k.priority[o] > p)
  <2>1. ASSUME NEW u \in Tasks  PROVE Least(A, k, NULL, Extra(o, P, u), u, k.priority[u])
    <3>1. Least(A, k, NULL, {}, u, k.priority[u])
      BY <1>1
    <3>2. \A y \in Extra(o, P, u) : k.priority[u] <= y
      <4>. SUFFICES ASSUME NEW y \in Extra(o, P, u)  PROVE k.priority[u] <= y
        OBVIOUS
      <4>1. u = o /\ A[m].atr = "INHERIT" /\ y = p
        BY DEF Extra
      <4>2. ~(k.priority[o] > p)
        BY <1>4, <4>1
      <4>. HIDE DEF p
      <4>. QED  BY <1>2, <4>1, <4>2
    <3>. QED  BY <3>1, <3>2 DEF Least
  <2>2. Ready(A, k, t, m, o)
    BY <1>1, <2>1 DEF Ready
  <2>. QED  BY <1>4, <2>2
<1>. QED  BY <1>3, <1>4

-----------------------------------------------------------------------------
(* The base priority of a task changes, and a mutex is deleted.            *)

\* tk_chg_pri, when chg_pri_mutex does not refuse.
LEMMA BaseChanged ==
  ASSUME mtxatr \in AtrTypes, NEW k, Good(mtxatr, k, NULL, Live(mtxatr), NULL), NEW t \in Tasks, NEW pri \in Pri,
         \A m \in Live(mtxatr) : mtxatr[m].atr = "CEILING"
            /\ (m \in ToSet(k.mtxlist[t]) \/ (k.state[t] = "WAIT" /\ k.wid[t] = m)) => pri >= mtxatr[m].ceilpri
  PROVE  Good(mtxatr, change_task_priority([k EXCEPT !.bpriority[t] = pri], t, Min({pri} \cup ImposedOn(k, t))),
              NULL, Live(mtxatr), NULL)
<1>. DEFINE A == mtxatr
            E == Live(A)
            B == [k.bpriority EXCEPT ![t] = pri]
            k1 == [k EXCEPT !.bpriority[t] = pri]
            q == Min({pri} \cup ImposedOn(k, t))
            q1 == Min({pri} \cup ImposedOn(k1, t))
            c == change(k1, t, q)
<1>1. k \in KStates /\ Shape(A, k, NULL, E, NULL) /\ \A u \in Tasks : Least(A, k, NULL, {}, u, k.priority[u])
  BY MutexAssumption DEF Good, Shape
<1>2. B \in [Tasks -> Pri] /\ B[t] = pri /\ \A u \in Tasks : u # t => B[u] = k.bpriority[u]
  BY <1>1 DEF KStates
<1>3. k1 = [k EXCEPT !.bpriority = B]
  BY <1>1 DEF KStates
<1>. HIDE DEF B, k1
<1>4. /\ k1 \in KStates /\ k1.mtxtsk = k.mtxtsk /\ k1.mtxlist = k.mtxlist /\ k1.wait_queue = k.wait_queue /\ k1.state = k.state
      /\ k1.wid = k.wid /\ k1.priority = k.priority /\ k1.bpriority = B
  BY <1>1, <1>2, <1>3 DEF KStates
<1>5. \A u, n : Waits(k1, NULL, u, n) <=> Waits(k, NULL, u, n)
  BY <1>4 DEF Waits
<1>6. Shape(A, k1, NULL, E, NULL)
  <2>1. Queued(A, k1, NULL)
    BY <1>1, <1>4, <1>5 DEF Shape, Queued
  <2>2. Lists(k1, E, NULL)
    BY <1>1, <1>4 DEF Shape, Lists
  <2>3. Climbs(A, k1) /\ Awake(A, k1)
    BY <1>1, <1>4 DEF Shape, Climbs, Awake
  <2>4. Below(A, k1)
    BY <1>1, <1>2, <1>4 DEF Shape, Below
  <2>. QED  BY <1>4, <2>1, <2>2, <2>3, <2>4 DEF Shape
<1>7. ASSUME NEW u \in Tasks, u # t  PROVE Least(A, k1, NULL, {}, u, k1.priority[u])
  <2>1. \A y : Bound(A, k1, NULL, u, y) <=> Bound(A, k, NULL, u, y)
    BY <1>2, <1>4, <1>5, <1>7 DEF Bound
  <2>2. Least(A, k, NULL, {}, u, k1.priority[u])
    BY <1>1, <1>4
  <2>. QED  BY <2>1, <2>2, LeastSame
<1>8. q1 \in Pri /\ Least(A, k1, NULL, {}, t, q1)
  <2>1. pri = k1.bpriority[t] /\ Queued(A, k1, NULL)
    BY <1>2, <1>4, <1>6 DEF Shape
  <2>. QED  BY <1>4, <2>1, Recalculated
<1>9. q1 = q
  <2>1. ImposedOn(k1, t) = ImposedOn(k, t)
    BY <1>4 DEF ImposedOn, Imposed
  <2>. QED  BY <2>1
<1>10. Setting(A, k1, NULL, t, {}, E) /\ Above(A, k1, NULL, t, t) /\ AllBut(A, k1, NULL, t, {}, k1, t)
  <2>1. \A u \in Tasks : u # t => Least(A, k1, NULL, Extra(t, {}, u), u, k1.priority[u])
    BY <1>7 DEF Extra
  <2>2. /\ Setting(A, k1, NULL, t, {}, E) /\ Above(A, k1, NULL, t, t)
        /\ \A s : (\A u \in Tasks : u # s => Least(A, k1, NULL, Extra(t, {}, u), u, k1.priority[u]))
                    => AllBut(A, k1, NULL, t, {}, k1, s)
    BY <1>4, <1>6, Begin
  <2>. QED  BY <2>1, <2>2
<1>. HIDE DEF q, q1, A, E
<1>11. Pending(A, k1, NULL, t, {}, c)
  <2>1. Extra(t, {}, t) = {}
    BY DEF Extra
  <2>. QED  BY <1>8, <1>9, <1>10, <2>1, OneNext
<1>12. Good(A, chain(c), NULL, E, NULL)
  <2>. HIDE DEF c
  <2>. QED  BY <1>6, <1>10, <1>11, ChainGood DEF A
<1>. QED  BY <1>12 DEF change_task_priority, c, k1, q, A, E

\* Mutex m is in no list: it has been given back, or nobody held it.
LEMMA Withdrawn ==
  ASSUME mtxatr \in AtrTypes, NEW k, Good(mtxatr, k, NULL, Live(mtxatr), NULL), NEW m \in Live(mtxatr)
  PROVE  Good(mtxatr, IF k.mtxtsk[m] # NULL THEN release_mutex(k, k.mtxtsk[m], m) ELSE k,
              NULL, Live(mtxatr) \ {m}, NULL)
<1>1. k \in KStates /\ m \in Mutexes /\ NULL \notin Tasks
  BY MutexAssumption DEF Good, Shape, Live
<1>2. CASE k.mtxtsk[m] # NULL
  <2>1. k.mtxtsk[m] \in Tasks
    BY <1>1, <1>2 DEF KStates
  <2>. QED  BY <1>2, <2>1, ReleaseMutex
<1>3. CASE k.mtxtsk[m] = NULL
  <2>1. Lists(k, Live(mtxatr) \ {m}, NULL)
    BY <1>1, <1>3 DEF Good, Shape, Lists
  <2>2. Good(mtxatr, k, NULL, Live(mtxatr) \ {m}, NULL)
    BY <2>1 DEF Good, Shape
  <2>. QED  BY <1>3, <2>2
<1>. QED  BY <1>2, <1>3

\* Who waits for it is released.
LEMMA AllReleased ==
  ASSUME mtxatr \in AtrTypes, NEW m \in Live(mtxatr), NEW k, Good(mtxatr, k, NULL, Live(mtxatr) \ {m}, NULL)
  PROVE  LET r == Loop(k.wait_queue[m], k, wait_release)
         IN  Good(mtxatr, r, NULL, Live(mtxatr) \ {m}, NULL) /\ \A u : ~Waits(r, NULL, u, m)
<1>. DEFINE A == mtxatr
            E == Live(A) \ {m}
            L == k.wait_queue[m]
            I == {p \in (0..Len(L)) \X KStates :
                    /\ Good(A, p[2], NULL, E, NULL)
                    /\ \A u : Waits(p[2], NULL, u, m) <=>
                                \E j \in 1..Len(L) : j > p[1] /\ u = L[j]}
            r == Loop(L, k, wait_release)
<1>1. k \in KStates /\ m \in Mutexes /\ Queued(A, k, NULL)
  BY DEF Good, Shape, Live
<1>2. L \in Seq(Tasks) /\ IsInjective(L) /\ \A u : u \in ToSet(L) <=> Waits(k, NULL, u, m)
  BY <1>1 DEF KStates, Queued
<1>3. Len(L) \in Nat /\ (\A j \in 1..Len(L) : L[j] \in Tasks) /\ \A u : u \in ToSet(L) <=> \E j \in 1..Len(L) : u = L[j]
  BY <1>2, MemberPosition, LenProperties, ElementOfSeq
<1>4. \A i, j \in 1..Len(L) : L[i] = L[j] => i = j
  BY <1>2, InjectivePositions
<1>. HIDE DEF L, A, E
<1>5. <<0, k>> \in I
  <2>1. \A u : Waits(k, NULL, u, m) <=> \E j \in 1..Len(L) : j > 0 /\ u = L[j]
    BY <1>2, <1>3
  <2>. QED  BY <1>1, <1>3, <2>1 DEF A, E
<1>6. ASSUME NEW n \in 1..Len(L), NEW v \in KStates, <<n - 1, v>> \in I
      PROVE  wait_release(v, L[n]) \in KStates /\ <<n, wait_release(v, L[n])>> \in I
  <2>. DEFINE t == L[n]
              s == wait_release(v, t)
  <2>1. Good(A, v, NULL, E, NULL) /\ \A u : Waits(v, NULL, u, m) <=> \E j \in 1..Len(L) : j > n - 1 /\ u = L[j]
    BY <1>6
  <2>2. t \in Tasks /\ n > n - 1 /\ n \in 0..Len(L)
    BY <1>3
  <2>. HIDE DEF t, s, I
  <2>3. Waits(v, NULL, t, m)
    BY <2>1, <2>2 DEF t
  <2>4. Leaves(v, NULL, s, NULL, t, m)
    <3>1. Queued(A, v, NULL)
      BY <2>1 DEF Good, Shape
    <3>. QED  BY <1>1, <2>2, <2>3, <3>1, ReleaseLeaves DEF s
  <2>5. Good(A, s, NULL, E, NULL)
    <3>1. \A u \in Tasks : m \notin ToSet(v.mtxlist[u])
      BY <2>1 DEF Good, Shape, Lists, E
    <3>. QED  BY <2>1, <2>4, <3>1, LeaveGood
  <2>6. ASSUME NEW u  PROVE Waits(s, NULL, u, m) <=> \E j \in 1..Len(L) : j > n /\ u = L[j]
    <3>1. Waits(s, NULL, u, m) <=> Waits(v, NULL, u, m) /\ u # t
      BY <2>4 DEF Leaves
    <3>2. \A j \in 1..Len(L) : j > n <=> j > n - 1 /\ j # n
      BY <1>3
    <3>3. ASSUME NEW j \in 1..Len(L), j # n  PROVE L[j] # t
      BY <1>4, <3>3 DEF t
    <3>4. (\E j \in 1..Len(L) : j > n /\ u = L[j]) => (\E j \in 1..Len(L) : j > n - 1 /\ u = L[j]) /\ u # t
      BY <3>2, <3>3
    <3>5. (\E j \in 1..Len(L) : j > n - 1 /\ u = L[j]) /\ u # t => \E j \in 1..Len(L) : j > n /\ u = L[j]
      BY <3>2 DEF t
    <3>. QED  BY <2>1, <3>1, <3>4, <3>5
  <2>7. s \in KStates
    BY <2>5 DEF Good, Shape
  <2>. QED  BY <2>2, <2>5, <2>6, <2>7 DEF s, t, I
<1>. HIDE DEF I, r
<1>7. <<Len(L), r>> \in I
  BY <1>1, <1>2, <1>5, <1>6, ReleaseLoop DEF L, r
<1>8. Good(A, r, NULL, E, NULL) /\ \A u : Waits(r, NULL, u, m) <=> \E j \in 1..Len(L) : j > Len(L) /\ u = L[j]
  BY <1>7 DEF I
<1>9. \A j \in 1..Len(L) : ~(j > Len(L))
  BY <1>3
<1>. QED  BY <1>8, <1>9 DEF A, E, r, L

\* The mutex is no more.
LEMMA Deleted ==
  ASSUME NEW A \in AtrTypes, NEW m \in Live(A), NEW k, Good(A, k, NULL, Live(A) \ {m}, NULL), \A u : ~Waits(k, NULL, u, m),
         NEW B, B = [A EXCEPT ![m] = NONE]
  PROVE  B \in AtrTypes /\ Good(B, k, NULL, Live(B), NULL)
<1>. DEFINE E == Live(A) \ {m}
<1>1. m \in Mutexes /\ NULL \notin Tasks /\ k \in KStates /\ Shape(A, k, NULL, E, NULL)
  BY MutexAssumption DEF Live, Good, Shape
<1>2. B \in AtrTypes /\ B[m] = NONE /\ \A n \in Mutexes : n # m => B[n] = A[n]
  BY <1>1 DEF AtrTypes
<1>3. Live(B) = E
  BY <1>1, <1>2 DEF Live
<1>4. \A n \in E : n \in Mutexes /\ n # m /\ B[n] = A[n]
  BY <1>2 DEF Live
<1>5. Queued(B, k, NULL)
  <2>1. ASSUME NEW n \in Mutexes, B[n].atr # "TFIFO"  PROVE Sorted(k.wait_queue[n], k.priority)
    <3>1. CASE n # m
      BY <1>1, <1>2, <2>1, <3>1 DEF Shape, Queued
    <3>2. CASE n = m
      <4>1. k.wait_queue[m] \in Seq(Tasks) /\ \A u : u \notin ToSet(k.wait_queue[m])
        BY <1>1 DEF KStates, Shape, Queued
      <4>2. Len(k.wait_queue[m]) \in Nat /\ \A i \in 1..Len(k.wait_queue[m]) : k.wait_queue[m][i] \in ToSet(k.wait_queue[m])
        BY <4>1, MemberPosition, LenProperties
      <4>. QED  BY <3>2, <4>1, <4>2 DEF Sorted
    <3>. QED  BY <3>1, <3>2
  <2>. QED  BY <1>1, <2>1 DEF Shape, Queued
<1>6. Climbs(B, k)
  <2>1. \A u \in Tasks : k.state[u] = "WAIT" => k.wid[u] \in E
    BY <1>1, MutexAssumption DEF Shape, Climbs, Waits
  <2>2. \A h \in E : h \in Live(A)
    OBVIOUS
  <2>. HIDE DEF E
  <2>. QED  BY <1>1, <1>3, <2>1, <2>2 DEF Shape, Climbs
<1>7. Awake(B, k)
  BY <1>1, <1>3 DEF Shape, Awake
<1>8. Below(B, k)
  BY <1>1, <1>3, <1>4 DEF Shape, Below
<1>9. ASSUME NEW u \in Tasks  PROVE Least(B, k, NULL, {}, u, k.priority[u])
  <2>1. \A n \in ToSet(k.mtxlist[u]) : B[n] = A[n]
    BY <1>1, <1>4 DEF Shape, Lists
  <2>2. \A y : Bound(B, k, NULL, u, y) <=> Bound(A, k, NULL, u, y)
    BY <2>1 DEF Bound
  <2>3. Least(A, k, NULL, {}, u, k.priority[u])
    BY <1>1 DEF Good
  <2>. QED  BY <2>2, <2>3 DEF Least
<1>. QED  BY <1>1, <1>2, <1>3, <1>5, <1>6, <1>7, <1>8, <1>9 DEF Good, Shape

\* B and r are A and k with a new mutex m.
Creates(A, k, m, atr, B, r) ==
    /\ m \in Mutexes /\ A[m] = NONE /\ atr \in MtxAtr /\ B = [A EXCEPT ![m] = atr]
    /\ r \in KStates /\ r.mtxtsk = [k.mtxtsk EXCEPT ![m] = NULL]
    /\ r.mtxlist = k.mtxlist /\ r.wait_queue = k.wait_queue
    /\ r.state = k.state /\ r.wid = k.wid /\ r.priority = k.priority /\ r.bpriority = k.bpriority

\* Nobody holds it or waits for it.
LEMMA Created ==
  ASSUME NEW A \in AtrTypes, NEW k, Good(A, k, NULL, Live(A), NULL),
         NEW m, NEW atr, NEW B, NEW r, Creates(A, k, m, atr, B, r)
  PROVE  B \in AtrTypes /\ Good(B, r, NULL, Live(B), NULL)
<1>. DEFINE E == Live(A)
<1>0. /\ m \in Mutexes /\ r \in KStates /\ r.mtxlist = k.mtxlist /\ r.wait_queue = k.wait_queue
      /\ r.state = k.state /\ r.wid = k.wid /\ r.priority = k.priority /\ r.bpriority = k.bpriority
  BY DEF Creates
<1>1. NULL \notin Tasks /\ k \in KStates /\ Shape(A, k, NULL, E, NULL) /\ m \notin E
  BY MutexAssumption DEF Live, Good, Shape, Creates
<1>2. B \in AtrTypes /\ B[m] = atr /\ atr # NONE /\ \A n \in Mutexes : n # m => B[n] = A[n]
  BY <1>1 DEF AtrTypes, MtxAtr, NONE, Creates
<1>3. Live(B) = E \cup {m}
  BY <1>0, <1>1, <1>2 DEF Live
<1>4. \A n \in E : n \in Mutexes /\ n # m /\ B[n] = A[n]
  BY <1>1, <1>2 DEF Live
<1>5. r.mtxtsk[m] = NULL /\ \A n \in Mutexes : n # m => r.mtxtsk[n] = k.mtxtsk[n]
  BY <1>0, <1>1 DEF KStates, Creates
<1>6. \A u, n : Waits(r, NULL, u, n) <=> Waits(k, NULL, u, n)
  BY <1>0 DEF Waits
<1>7. \A u \in Tasks : k.state[u] = "WAIT" => k.wid[u] \in E
  BY <1>1 DEF Shape, Climbs
<1>8. Queued(B, r, NULL)
  <2>1. ASSUME NEW n \in Mutexes, B[n].atr # "TFIFO"  PROVE Sorted(r.wait_queue[n], r.priority)
    <3>1. CASE n # m
      BY <1>0, <1>1, <1>2, <2>1, <3>1 DEF Shape, Queued
    <3>2. CASE n = m
      <4>0. \A u : ~Waits(k, NULL, u, m)
        BY <1>0, <1>1, <1>7 DEF Waits
      <4>1. k.wait_queue[m] \in Seq(Tasks) /\ \A u : u \notin ToSet(k.wait_queue[m])
        BY <1>0, <1>1, <4>0 DEF KStates, Shape, Queued
      <4>2. Len(k.wait_queue[m]) \in Nat /\ \A i \in 1..Len(k.wait_queue[m]) : k.wait_queue[m][i] \in ToSet(k.wait_queue[m])
        BY <4>1, MemberPosition, LenProperties
      <4>. QED  BY <1>0, <3>2, <4>1, <4>2 DEF Sorted
    <3>. QED  BY <3>1, <3>2
  <2>. QED  BY <1>0, <1>1, <1>6, <2>1 DEF Shape, Queued
<1>9. Lists(r, Live(B), NULL)
  <2>1. ASSUME NEW u \in Tasks
        PROVE  /\ IsInjective(r.mtxlist[u])
               /\ \A n \in Live(B) : r.mtxtsk[n] = u => n \in ToSet(r.mtxlist[u])
               /\ \A n \in ToSet(r.mtxlist[u]) : n \in Live(B) /\ r.mtxtsk[n] = u
    <3>1. /\ IsInjective(k.mtxlist[u])
          /\ \A n \in E : k.mtxtsk[n] = u => n \in ToSet(k.mtxlist[u])
          /\ \A n \in ToSet(k.mtxlist[u]) : n \in E /\ k.mtxtsk[n] = u
      BY <1>0, <1>1 DEF Shape, Lists
    <3>2. \A n \in E : r.mtxtsk[n] = k.mtxtsk[n]
      BY <1>4, <1>5
    <3>3. r.mtxtsk[m] # u
      BY <1>0, <1>1, <1>5
    <3>. HIDE DEF E
    <3>. QED  BY <1>0, <1>3, <3>1, <3>2, <3>3
  <2>. QED  BY <1>0, <2>1 DEF Lists
<1>10. Climbs(B, r)
  <2>1. ASSUME NEW u \in Tasks, k.state[u] = "WAIT"
        PROVE  /\ k.wid[u] \in Live(B) /\ r.mtxtsk[k.wid[u]] \in Tasks
               /\ \A h \in Live(B) : r.mtxtsk[h] = u => h < k.wid[u]
    BY <1>0, <1>1, <1>3, <1>4, <1>5, <1>7, <2>1 DEF Shape, Climbs
  <2>. QED  BY <1>0, <2>1 DEF Climbs
<1>11. Awake(B, r)
  BY <1>0, <1>1, <1>3, <1>4, <1>5 DEF Shape, Awake
<1>12. Below(B, r)
  <2>1. ASSUME NEW u \in Tasks, NEW n \in ToSet(k.mtxlist[u])  PROVE n \in E
    BY <1>0, <1>1 DEF Shape, Lists
  <2>. QED  BY <1>0, <1>1, <1>3, <1>4, <1>7, <2>1 DEF Shape, Below
<1>13. ASSUME NEW u \in Tasks  PROVE Least(B, r, NULL, {}, u, r.priority[u])
  <2>1. \A n \in ToSet(k.mtxlist[u]) : B[n] = A[n]
    BY <1>0, <1>1, <1>4 DEF Shape, Lists
  <2>2. \A y : Bound(B, r, NULL, u, y) <=> Bound(A, k, NULL, u, y)
    BY <1>0, <1>6, <2>1 DEF Bound
  <2>3. Least(A, k, NULL, {}, u, r.priority[u])
    BY <1>0, <1>1 DEF Good
  <2>. QED  BY <2>2, <2>3 DEF Least
<1>. QED  BY <1>0, <1>2, <1>8, <1>9, <1>10, <1>11, <1>12, <1>13 DEF Good, Shape

\* A task starts.
LEMMA Started ==
  ASSUME NEW A \in AtrTypes, NEW k, Good(A, k, NULL, Live(A), NULL), NEW t \in Tasks, k.state[t] = "DORMANT",
         NEW r \in KStates, r.state = [k.state EXCEPT ![t] = "READY"],
         r.mtxtsk = k.mtxtsk, r.mtxlist = k.mtxlist, r.wait_queue = k.wait_queue,
         r.wid = k.wid, r.priority = k.priority, r.bpriority = k.bpriority
  PROVE  Good(A, r, NULL, Live(A), NULL)
<1>1. k \in KStates /\ Shape(A, k, NULL, Live(A), NULL)
  BY DEF Good, Shape
<1>2. \A u \in Tasks : r.state[u] = IF u = t THEN "READY" ELSE k.state[u]
  BY <1>1 DEF KStates
<1>3. \A u, n : Waits(r, NULL, u, n) <=> Waits(k, NULL, u, n)
  BY <1>2 DEF Waits
<1>4. Queued(A, r, NULL) /\ Lists(r, Live(A), NULL)
  BY <1>1, <1>3 DEF Shape, Queued, Lists
<1>5. Climbs(A, r)
  BY <1>1, <1>2 DEF Shape, Climbs
<1>6. Awake(A, r)
  BY <1>1, <1>2 DEF Shape, Awake
<1>7. Below(A, r)
  BY <1>1, <1>2 DEF Shape, Below
<1>8. ASSUME NEW u \in Tasks  PROVE Least(A, r, NULL, {}, u, r.priority[u])
  <2>1. \A y : Bound(A, r, NULL, u, y) <=> Bound(A, k, NULL, u, y)
    BY <1>3 DEF Bound
  <2>2. Least(A, k, NULL, {}, u, r.priority[u])
    BY MutexAssumption DEF Good
  <2>. QED  BY <2>1, <2>2 DEF Least
<1>. QED  BY <1>4, <1>5, <1>6, <1>7, <1>8 DEF Good, Shape

\* A task that ends is taken out of its queue, and waits still.
LEMMA OutLeaves ==
  ASSUME NEW A, NEW k \in KStates, Queued(A, k, NULL), NEW t \in Tasks, NEW m \in Mutexes, Waits(k, NULL, t, m)
  PROVE  Leaves(k, NULL, [k EXCEPT !.wait_queue[k.wid[t]] = QueRemove(@, t)], t, t, m)
<1>. DEFINE q == QueRemove(k.wait_queue[m], t)
            w == [k.wait_queue EXCEPT ![m] = q]
            r == [k EXCEPT !.wait_queue[k.wid[t]] = QueRemove(@, t)]
<1>1. k.wid[t] = m /\ k.state[t] = "WAIT" /\ t # NULL
  BY MutexAssumption DEF Waits
<1>2. q \in Seq(Tasks)
  <2>1. k.wait_queue[m] \in Seq(Tasks) /\ IsInjective(k.wait_queue[m])
    BY DEF KStates, Queued
  <2>. QED  BY <2>1, QueRemoveProperties
<1>. HIDE DEF q
<1>3. w \in [Mutexes -> Seq(Tasks)]
  BY <1>2 DEF KStates
<1>4. r = [k EXCEPT !.wait_queue = w]
  BY <1>1 DEF KStates, q
<1>. HIDE DEF w, r
<1>5. /\ r \in KStates /\ r.mtxtsk = k.mtxtsk /\ r.mtxlist = k.mtxlist /\ r.wid = k.wid /\ r.state = k.state
      /\ r.priority = k.priority /\ r.bpriority = k.bpriority /\ r.wait_queue = w
  BY <1>3, <1>4 DEF KStates
<1>6. \A u, n : Waits(r, t, u, n) <=> Waits(k, NULL, u, n) /\ u # t
  BY <1>5, MutexAssumption DEF Waits
<1>. QED  BY <1>1, <1>5, <1>6 DEF Leaves, w, q, r

-----------------------------------------------------------------------------
(* The specification.                                                      *)

\* What Commit writes.
LEMMA Committed ==
  ASSUME NEW k \in KStates, Commit(k)
  PROVE  Kernel' = k
BY DEF Commit, Kernel, KStates

\* ... is a good state.
LEMMA CommitGood ==
  ASSUME NEW A, A = mtxatr', A \in AtrTypes, NEW k, Good(A, k, NULL, Live(A), NULL), Commit(k)
  PROVE  MutexInv'
<1>1. k \in KStates
  BY DEF Good, Shape
<1>2. Kernel' = k
  BY <1>1, Committed
<1>. QED  BY <1>2 DEF MutexInv

\* No mutex exists at first.
LEMMA MutexInit == Init => MutexInv
<1>. SUFFICES ASSUME Init  PROVE MutexInv
  OBVIOUS
<1>. DEFINE k == Kernel
            A == mtxatr
<1>1. /\ mtxatr = [m \in Mutexes |-> NONE] /\ mtxtsk = [m \in Mutexes |-> NULL] /\ wait_queue = [m \in Mutexes |-> <<>>]
      /\ mtxlist = [t \in Tasks |-> <<>>] /\ state = [t \in Tasks |-> "DORMANT"] /\ wid = [t \in Tasks |-> NULL]
      /\ priority = [t \in Tasks |-> INI_PRI] /\ bpriority = [t \in Tasks |-> INI_PRI]
  BY DEF Init
<1>2. /\ k.mtxtsk = mtxtsk /\ k.wait_queue = wait_queue /\ k.mtxlist = mtxlist /\ k.state = state /\ k.wid = wid
      /\ k.priority = priority /\ k.bpriority = bpriority
  BY DEF Kernel
<1>3. k \in KStates
  <2>1. INI_PRI \in Pri /\ <<>> \in Seq(Tasks) /\ <<>> \in Seq(Mutexes)
    BY PriNumbers
  <2>. QED  BY <1>1, <2>1 DEF KStates, Kernel
<1>4. A \in AtrTypes /\ Live(A) = {} /\ \A m \in Mutexes : A[m] = NONE
  BY <1>1 DEF AtrTypes, Live
<1>5. \A u \in Tasks : /\ k.mtxlist[u] = <<>> /\ k.state[u] = "DORMANT"
                       /\ k.priority[u] = INI_PRI /\ k.bpriority[u] = INI_PRI
  BY <1>1, <1>2
<1>6. \A m \in Mutexes : k.wait_queue[m] = <<>>
  BY <1>1, <1>2
<1>. HIDE DEF k, A
<1>7. ToSet(<<>>) = {} /\ IsInjective(<<>>) /\ Sorted(<<>>, k.priority)
  BY DEF ToSet, IsInjective, Sorted
<1>8. Queued(A, k, NULL)
  BY <1>5, <1>6, <1>7 DEF Queued, Waits
<1>9. Lists(k, {}, NULL)
  BY <1>5, <1>7 DEF Lists
<1>10. Climbs(A, k) /\ Awake(A, k) /\ Below(A, k)
  BY <1>4, <1>5 DEF Climbs, Awake, Below
<1>11. ASSUME NEW u \in Tasks  PROVE Least(A, k, NULL, {}, u, k.priority[u])
  <2>1. \A y : Bound(A, k, NULL, u, y) <=> y = INI_PRI
    BY <1>5, <1>7, <1>11 DEF Bound
  <2>2. INI_PRI <= INI_PRI
    BY PriNumbers
  <2>. QED  BY <1>5, <2>1, <2>2 DEF Least
<1>. QED  BY <1>3, <1>4, <1>8, <1>9, <1>10, <1>11 DEF MutexInv, Good, Shape, k, A

\* What the invariant says of the variables.
LEMMA KernelFacts ==
  ASSUME MutexInv
  PROVE  /\ mtxatr \in AtrTypes /\ Good(mtxatr, Kernel, NULL, Live(mtxatr), NULL) /\ Kernel \in KStates
         /\ Shape(mtxatr, Kernel, NULL, Live(mtxatr), NULL) /\ NULL \notin Tasks
         /\ Kernel.mtxtsk = mtxtsk /\ Kernel.wait_queue = wait_queue /\ Kernel.mtxlist = mtxlist /\ Kernel.state = state
         /\ Kernel.wid = wid /\ Kernel.priority = priority /\ Kernel.bpriority = bpriority
<1>1. mtxatr \in AtrTypes /\ Good(mtxatr, Kernel, NULL, Live(mtxatr), NULL) /\ NULL \notin Tasks
  BY MutexAssumption DEF MutexInv
<1>2. Kernel \in KStates /\ Shape(mtxatr, Kernel, NULL, Live(mtxatr), NULL)
  BY <1>1 DEF Good, Shape
<1>. QED  BY <1>1, <1>2 DEF Kernel

\* tk_cre_mtx keeps the invariant.
LEMMA CreMtxKeeps ==
  ASSUME MutexInv, NEW m \in Mutexes, NEW atr \in Attributes, CreMtx(m, atr)
  PROVE  MutexInv'
<1>1. /\ mtxatr \in AtrTypes /\ Good(mtxatr, Kernel, NULL, Live(mtxatr), NULL) /\ Kernel \in KStates
      /\ mtxatr[m] = NONE /\ atr \in MtxAtr /\ mtxatr' = [mtxatr EXCEPT ![m] = atr]
  BY KernelFacts, MutexAssumption DEF CreMtx
<1>2. /\ Kernel'.mtxtsk = [Kernel.mtxtsk EXCEPT ![m] = NULL] /\ Kernel'.mtxlist = Kernel.mtxlist
      /\ Kernel'.wait_queue = Kernel.wait_queue /\ Kernel'.state = Kernel.state /\ Kernel'.wid = Kernel.wid
      /\ Kernel'.priority = Kernel.priority /\ Kernel'.bpriority = Kernel.bpriority
  BY DEF CreMtx, Kernel
<1>3. Kernel' \in KStates
  <2>1. Kernel' = [Kernel EXCEPT !.mtxtsk = [Kernel.mtxtsk EXCEPT ![m] = NULL]]
    BY DEF CreMtx, Kernel
  <2>2. [Kernel.mtxtsk EXCEPT ![m] = NULL] \in [Mutexes -> Tasks \cup {NULL}]
    BY <1>1 DEF KStates
  <2>. QED  BY <1>1, <2>1, <2>2 DEF KStates
<1>4. mtxatr' \in AtrTypes /\ Good(mtxatr', Kernel', NULL, Live(mtxatr'), NULL)
  <2>1. Creates(mtxatr, Kernel, m, atr, mtxatr', Kernel')
    BY <1>1, <1>2, <1>3 DEF Creates
  <2>. QED  BY <1>1, <2>1, Created
<1>. QED  BY <1>4 DEF MutexInv

\* tk_del_mtx keeps it.
LEMMA DelMtxKeeps ==
  ASSUME MutexInv, NEW m \in Mutexes, DelMtx(m)
  PROVE  MutexInv'
<1>. DEFINE A == mtxatr
            k == IF mtxtsk[m] # NULL THEN release_mutex(Kernel, mtxtsk[m], m) ELSE Kernel
            r == Loop(k.wait_queue[m], k, wait_release)
<1>1. A \in AtrTypes /\ Good(A, Kernel, NULL, Live(A), NULL) /\ m \in Live(A) /\ Kernel.mtxtsk = mtxtsk
  BY KernelFacts DEF DelMtx, Live
<1>2. Commit(r) /\ mtxatr' = [A EXCEPT ![m] = NONE]
  BY DEF DelMtx
<1>3. Good(A, k, NULL, Live(A) \ {m}, NULL)
  BY <1>1, Withdrawn
<1>. HIDE DEF k
<1>4. Good(A, r, NULL, Live(A) \ {m}, NULL) /\ \A u : ~Waits(r, NULL, u, m)
  BY <1>1, <1>3, AllReleased
<1>. HIDE DEF r, A
<1>5. mtxatr' \in AtrTypes /\ Good(mtxatr', r, NULL, Live(mtxatr'), NULL)
  BY <1>1, <1>2, <1>4, Deleted
<1>. QED  BY <1>2, <1>5, CommitGood

\* tk_loc_mtx keeps it, when the mutexes are locked in the order of their IDs.
LEMMA LocMtxKeeps ==
  ASSUME Nested, MutexInv, NEW t \in Tasks, NEW m \in Mutexes, LocMtx(t, m)
  PROVE  MutexInv'
<1>. DEFINE A == mtxatr
            o == mtxtsk[m]
            k == IF Inherit(m) /\ priority[o] > priority[t] THEN change_task_priority(Kernel, o, priority[t]) ELSE Kernel
            s == [k EXCEPT !.state[t] = "WAIT", !.wid[t] = m,
                           !.wait_queue[m] = gcb_make_wait(@, t, k.priority, mtxatr[m].atr # "TFIFO")]
            r == get_lock(Kernel, m, t)
<1>1. /\ A \in AtrTypes /\ Good(A, Kernel, NULL, Live(A), NULL) /\ Kernel \in KStates /\ NULL \notin Tasks
      /\ Shape(A, Kernel, NULL, Live(A), NULL)
      /\ Kernel.mtxtsk = mtxtsk /\ Kernel.mtxlist = mtxlist /\ Kernel.state = state /\ Kernel.wid = wid
      /\ Kernel.priority = priority /\ Kernel.bpriority = bpriority
  BY KernelFacts
<1>2. /\ m \in Live(A) /\ state[t] = "READY" /\ mtxtsk[m] # t /\ mtxatr' = A
      /\ A[m].atr = "CEILING" => bpriority[t] >= A[m].ceilpri
      /\ \A n \in ToSet(mtxlist[t]) : n < m
  BY DEF LocMtx, loc_allowed, Live, Ceiling
<1>3. IF mtxtsk[m] = NULL THEN Commit(r) ELSE Commit(s)
  BY DEF LocMtx
<1>. HIDE DEF k, s, r
<1>4. CASE mtxtsk[m] = NULL
  <2>1. \A v : ~Waits(Kernel, NULL, v, m)
    BY <1>1, <1>4 DEF Shape, Climbs, Waits
  <2>2. \A u \in Tasks : m \notin ToSet(Kernel.mtxlist[u])
    BY <1>1, <1>4 DEF Shape, Lists
  <2>3. Fit(A, Kernel, NULL, Live(A), NULL, t, m)
    BY <1>1, <1>2, <2>1, <2>2 DEF Fit
  <2>4. Given(A, Kernel, r, t, m)
    BY <1>1, <1>2, GetLock DEF r
  <2>5. Good(A, r, NULL, Live(A), NULL)
    BY <1>1, <2>3, <2>4, GivenGood
  <2>. QED  BY <1>1, <1>2, <1>3, <1>4, <2>5, CommitGood
<1>5. CASE mtxtsk[m] # NULL
  <2>1. o \in Tasks
    BY <1>1, <1>5 DEF KStates
  <2>2. k = IF A[m].atr = "INHERIT" /\ Kernel.priority[o] > Kernel.priority[t]
              THEN change_task_priority(Kernel, o, Kernel.priority[t]) ELSE Kernel
    BY <1>1 DEF k, Inherit
  <2>. HIDE DEF A
  <2>3. Ready(A, k, t, m, o)
    BY <1>1, <1>2, <2>1, <2>2, Raised DEF A
  <2>4. Joins(A, k, s, t, m)
    BY DEF Joins, s, A
  <2>5. Good(A, s, NULL, Live(A), NULL)
    BY <1>1, <2>3, <2>4, JoinGood
  <2>. QED  BY <1>1, <1>2, <1>3, <1>5, <2>5, CommitGood
<1>. QED  BY <1>4, <1>5

\* tk_unl_mtx keeps it.
LEMMA UnlMtxKeeps ==
  ASSUME MutexInv, NEW t \in Tasks, NEW m \in Mutexes, UnlMtx(t, m)
  PROVE  MutexInv'
<1>. DEFINE A == mtxatr
            k == release_mutex(Kernel, t, m)
            r == hand_over(k, m)
<1>1. /\ A \in AtrTypes /\ Good(A, Kernel, NULL, Live(A), NULL) /\ NULL \notin Tasks
      /\ Kernel.mtxtsk[m] = t /\ m \in Live(A) /\ Commit(r) /\ mtxatr' = A
  BY KernelFacts DEF UnlMtx, Live
<1>2. Good(A, k, NULL, Live(A) \ {m}, NULL)
  BY <1>1, ReleaseMutex
<1>. HIDE DEF k, r
<1>3. Loose(A, k, NULL, Live(A) \ {m}, NULL, m)
  <2>1. \A u \in Tasks : m \notin ToSet(k.mtxlist[u])
    BY <1>2 DEF Good, Shape, Lists
  <2>. QED  BY <1>1, <1>2, <2>1 DEF Loose
<1>4. Good(A, r, NULL, Live(A), NULL)
  BY <1>1, <1>3, HandOver DEF r
<1>. QED  BY <1>1, <1>4, CommitGood

\* The end of a wait keeps it.
LEMMA WaitReleaseNgKeeps ==
  ASSUME MutexInv, NEW t \in Tasks, WaitReleaseNg(t)
  PROVE  MutexInv'
<1>. DEFINE A == mtxatr
            m == wid[t]
            k == wait_release(Kernel, t)
            r == mtx_rel_wai(k, t)
<1>1. /\ A \in AtrTypes /\ Good(A, Kernel, NULL, Live(A), NULL) /\ Kernel \in KStates /\ NULL \notin Tasks
      /\ Shape(A, Kernel, NULL, Live(A), NULL) /\ Kernel.state = state /\ Kernel.wid = wid
  BY KernelFacts
<1>2. state[t] = "WAIT" /\ Commit(r) /\ mtxatr' = A
  BY DEF WaitReleaseNg
<1>3. m \in Mutexes /\ Waits(Kernel, NULL, t, m) /\ Queued(A, Kernel, NULL)
  BY <1>1, <1>2 DEF Shape, Climbs, Live, Waits
<1>4. Leaves(Kernel, NULL, k, NULL, t, m)
  BY <1>1, <1>3, ReleaseLeaves
<1>. HIDE DEF k, m
<1>5. Good(A, r, NULL, Live(A), NULL)
  BY <1>1, <1>4, RelWai DEF m
<1>. HIDE DEF r
<1>. QED  BY <1>1, <1>2, <1>5, CommitGood

\* tk_ter_tsk and tk_ext_tsk keep it.
LEMMA TerTskKeeps ==
  ASSUME MutexInv, NEW t \in Tasks, TerTsk(t)
  PROVE  MutexInv'
<1>. DEFINE A == mtxatr
            m == wid[t]
            k0 == [Kernel EXCEPT !.wait_queue[wid[t]] = QueRemove(@, t)]
            k1 == IF state[t] = "WAIT" THEN mtx_rel_wai(k0, t) ELSE Kernel
            k2 == signal_all_mutex(k1, t)
            r == [k2 EXCEPT !.state[t] = "DORMANT", !.mtxlist[t] = <<>>,
                            !.priority[t] = INI_PRI, !.bpriority[t] = INI_PRI]
            x == IF state[t] = "WAIT" THEN t ELSE NULL
<1>1. /\ A \in AtrTypes /\ Good(A, Kernel, NULL, Live(A), NULL) /\ Kernel \in KStates /\ NULL \notin Tasks
      /\ Shape(A, Kernel, NULL, Live(A), NULL) /\ Kernel.state = state /\ Kernel.wid = wid
  BY KernelFacts
<1>2. Commit(r) /\ mtxatr' = A
  BY DEF TerTsk
<1>3. Good(A, k1, x, Live(A), NULL) /\ k1.state = Kernel.state
  <2>1. CASE state[t] = "WAIT"
    <3>1. m \in Mutexes /\ Waits(Kernel, NULL, t, m) /\ Queued(A, Kernel, NULL)
      BY <1>1, <2>1 DEF Shape, Climbs, Live, Waits
    <3>2. Leaves(Kernel, NULL, k0, t, t, m)
      BY <1>1, <3>1, OutLeaves
    <3>3. k0.state = Kernel.state
      BY <1>1 DEF KStates
    <3>. HIDE DEF k0, m
    <3>4. Good(A, mtx_rel_wai(k0, t), t, Live(A), NULL) /\ Fixed(k0, mtx_rel_wai(k0, t))
      BY <1>1, <3>2, RelWai DEF m
    <3>. QED  BY <2>1, <3>3, <3>4 DEF Fixed
  <2>2. CASE state[t] # "WAIT"
    BY <1>1, <2>2
  <2>. QED  BY <2>1, <2>2
<1>4. x \in {NULL, t} /\ (k1.state[t] = "WAIT" <=> x = t)
  BY <1>1, <1>3
<1>. HIDE DEF k1, x
<1>5. Good(A, k2, x, Live(A), t) /\ k2.state[t] = k1.state[t] /\ \A n \in Live(A) : k2.mtxtsk[n] # t
  BY <1>1, <1>3, <1>4, SignalAll
<1>. HIDE DEF k2
<1>6. Reset(k2, r, t)
  BY DEF Reset
<1>. HIDE DEF r
<1>7. Good(A, r, NULL, Live(A), NULL)
  BY <1>1, <1>4, <1>5, <1>6, Ended
<1>. QED  BY <1>1, <1>2, <1>7, CommitGood

\* tk_sta_tsk keeps it.
LEMMA StaTskKeeps ==
  ASSUME MutexInv, NEW t \in Tasks, StaTsk(t)
  PROVE  MutexInv'
<1>1. /\ mtxatr \in AtrTypes /\ Good(mtxatr, Kernel, NULL, Live(mtxatr), NULL) /\ Kernel \in KStates
      /\ Kernel.state[t] = "DORMANT" /\ mtxatr' = mtxatr
  BY KernelFacts DEF StaTsk
<1>2. /\ Kernel'.state = [Kernel.state EXCEPT ![t] = "READY"] /\ Kernel'.mtxtsk = Kernel.mtxtsk
      /\ Kernel'.mtxlist = Kernel.mtxlist /\ Kernel'.wait_queue = Kernel.wait_queue /\ Kernel'.wid = Kernel.wid
      /\ Kernel'.priority = Kernel.priority /\ Kernel'.bpriority = Kernel.bpriority
  BY DEF StaTsk, Kernel
<1>3. Kernel' \in KStates
  <2>1. Kernel' = [Kernel EXCEPT !.state = [Kernel.state EXCEPT ![t] = "READY"]]
    BY DEF StaTsk, Kernel
  <2>2. [Kernel.state EXCEPT ![t] = "READY"] \in [Tasks -> {"READY", "WAIT", "DORMANT"}]
    BY <1>1 DEF KStates
  <2>. QED  BY <1>1, <2>1, <2>2 DEF KStates
<1>4. Good(mtxatr, Kernel', NULL, Live(mtxatr), NULL)
  BY <1>1, <1>2, <1>3, Started
<1>. QED  BY <1>1, <1>4 DEF MutexInv

\* tk_chg_pri keeps it.
LEMMA ChgPriKeeps ==
  ASSUME MutexInv, NEW t \in Tasks, NEW pri \in Pri, ChgPri(t, pri)
  PROVE  MutexInv'
<1>. DEFINE A == mtxatr
            r == change_task_priority([Kernel EXCEPT !.bpriority[t] = pri], t, Min({pri} \cup ImposedOn(Kernel, t)))
<1>1. /\ A \in AtrTypes /\ Good(A, Kernel, NULL, Live(A), NULL)
      /\ Kernel.mtxlist = mtxlist /\ Kernel.state = state /\ Kernel.wid = wid
  BY KernelFacts
<1>2. Commit(r) /\ mtxatr' = A
  BY DEF ChgPri, chg_pri_mutex
<1>3. ASSUME NEW m \in Live(A), A[m].atr = "CEILING",
             m \in ToSet(mtxlist[t]) \/ (state[t] = "WAIT" /\ wid[t] = m)
      PROVE  pri >= A[m].ceilpri
  BY <1>3 DEF ChgPri, Limiting, Ceiling, Live
<1>4. Good(A, r, NULL, Live(A), NULL)
  BY <1>1, <1>3, BaseChanged
<1>. HIDE DEF r
<1>. QED  BY <1>1, <1>2, <1>4, CommitGood

\* Every step keeps the invariant.
LEMMA MutexStep ==
  ASSUME Nested, MutexInv, [Next]_vars
  PROVE  MutexInv'
<1>1. CASE UNCHANGED vars
  <2>1. mtxatr' = mtxatr /\ Kernel' = Kernel
    BY <1>1 DEF vars, Kernel
  <2>. QED  BY <2>1 DEF MutexInv
<1>2. CASE Next
  <2>1. ASSUME NEW m \in Mutexes, \E atr \in Attributes : CreMtx(m, atr)  PROVE MutexInv'
    BY <2>1, CreMtxKeeps
  <2>2. ASSUME NEW m \in Mutexes, DelMtx(m)  PROVE MutexInv'
    BY <2>2, DelMtxKeeps
  <2>3. ASSUME NEW t \in Tasks, NEW m \in Mutexes, LocMtx(t, m)  PROVE MutexInv'
    BY <2>3, LocMtxKeeps
  <2>4. ASSUME NEW t \in Tasks, NEW m \in Mutexes, UnlMtx(t, m)  PROVE MutexInv'
    BY <2>4, UnlMtxKeeps
  <2>5. ASSUME NEW t \in Tasks, WaitReleaseNg(t) \/ TerTsk(t) \/ StaTsk(t)  PROVE MutexInv'
    BY <2>5, WaitReleaseNgKeeps, TerTskKeeps, StaTskKeeps
  <2>6. ASSUME NEW t \in Tasks, NEW p \in Pri, ChgPri(t, p)  PROVE MutexInv'
    BY <2>6, ChgPriKeeps
  <2>. QED  BY <1>2, <2>1, <2>2, <2>3, <2>4, <2>5, <2>6, Zenon DEF Next
<1>. QED  BY <1>1, <1>2

\* When applications lock mutexes in the order of their IDs, the queues and the
\* lists of holders are exact after every system call, every task that waits
\* comes after what it holds, and no task has a priority that it has no right to
\* (release_mutex, mtx_chg_pri, change_task_priority).
THEOREM MutexInvariant ==
  ASSUME Nested
  PROVE  Spec => []MutexInv
<1>1. Init => MutexInv
  BY MutexInit
<1>2. MutexInv /\ [Next]_vars => MutexInv'
  BY MutexStep
<1>. QED  BY <1>1, <1>2, PTL DEF Spec

\* The mutex control blocks and the task fields keep their types, along every
\* chain of change_task_priority.
THEOREM MutexTypeOK ==
  ASSUME Nested
  PROVE  Spec => []TypeOK
<1>1. MutexInv => TypeOK
  <2>. SUFFICES ASSUME MutexInv  PROVE TypeOK
    OBVIOUS
  <2>1. mtxatr \in AtrTypes /\ Kernel \in KStates
    BY KernelFacts
  <2>. QED  BY <2>1 DEF TypeOK, AtrTypes, KStates, Kernel
<1>. QED  BY <1>1, MutexInvariant, PTL

\* Holders, lists and wait queues agree whatever unlock, deletion, timeout,
\* release or termination handed the mutexes on (signal_all_mutex, _tk_unl_mtx).
THEOREM MutexesAreExact ==
  ASSUME Nested
  PROVE  Spec => []MutexesExact
<1>1. MutexInv => MutexesExact
  <2>. SUFFICES ASSUME MutexInv  PROVE MutexesExact
    OBVIOUS
  <2>. DEFINE A == mtxatr
              k == Kernel
  <2>1. /\ A \in AtrTypes /\ k \in KStates /\ NULL \notin Tasks
        /\ k.mtxtsk = mtxtsk /\ k.wait_queue = wait_queue /\ k.mtxlist = mtxlist /\ k.state = state
        /\ k.wid = wid /\ k.priority = priority
        /\ Queued(A, k, NULL) /\ Lists(k, Live(A), NULL) /\ Climbs(A, k) /\ Awake(A, k)
    BY KernelFacts DEF Shape
  <2>2. Exists = Live(A) /\ \A m \in Live(A) : m \in Mutexes /\ m \in Int
    BY MutexAssumption DEF Exists, Live
  <2>. HIDE DEF A, k
  <2>3. ASSUME NEW t \in Tasks
        PROVE  /\ IsInjective(mtxlist[t]) /\ ToSet(mtxlist[t]) = Holds(t)
               /\ state[t] = "DORMANT" => Holds(t) = {}
               /\ state[t] = "WAIT" => mtxtsk[wid[t]] \in Tasks \ {t}
    <3>1. IsInjective(mtxlist[t]) /\ ToSet(mtxlist[t]) = Holds(t)
      BY <2>1, <2>2 DEF Lists, Holds
    <3>2. state[t] = "DORMANT" => Holds(t) = {}
      BY <2>1, <2>2 DEF Awake, Holds
    <3>3. ASSUME state[t] = "WAIT"  PROVE mtxtsk[wid[t]] \in Tasks \ {t}
      <4>1. wid[t] \in Live(A) /\ mtxtsk[wid[t]] \in Tasks /\ \A h \in Live(A) : mtxtsk[h] = t => h < wid[t]
        BY <2>1, <3>3 DEF Climbs
      <4>2. wid[t] \in Int /\ ~(wid[t] < wid[t])
        BY <2>2, <4>1
      <4>. QED  BY <4>1, <4>2
    <3>. QED  BY <3>1, <3>2, <3>3
  <2>4. ASSUME NEW m \in Mutexes
        PROVE  /\ IsInjective(wait_queue[m])
               /\ ToSet(wait_queue[m]) = {t \in Tasks : state[t] = "WAIT" /\ wid[t] = m}
               /\ mtxatr[m].atr # "TFIFO" => PriorityOrdered(wait_queue[m], priority)
    <3>1. \A u : u \in ToSet(wait_queue[m]) <=> u \in Tasks /\ state[u] = "WAIT" /\ wid[u] = m
      BY <2>1 DEF Queued, Waits
    <3>2. IsInjective(wait_queue[m]) /\ (mtxatr[m].atr # "TFIFO" => Sorted(wait_queue[m], priority))
      BY <2>1 DEF Queued, A
    <3>3. Sorted(wait_queue[m], priority) => PriorityOrdered(wait_queue[m], priority)
      BY DEF Sorted, PriorityOrdered
    <3>. QED  BY <3>1, <3>2, <3>3
  <2>. QED  BY <2>3, <2>4 DEF MutexesExact, HoldersExact, WaitQueuesExact
<1>. QED  BY <1>1, MutexInvariant, PTL

\* A task runs with exactly the priority that its base priority, the ceilings of
\* what it holds and those that wait for it give it: inheritance reaches every
\* holder along a chain, and is taken back along it (mtx_chg_pri, mtx_rel_wai).
THEOREM MutexPriorityExact ==
  ASSUME Nested
  PROVE  Spec => []PriorityExact
<1>1. MutexInv => PriorityExact
  <2>. SUFFICES ASSUME MutexInv, NEW t \in Tasks
                PROVE  priority[t] = Min({bpriority[t]}
                          \cup {mtxatr[m].ceilpri : m \in {n \in Holds(t) : Ceiling(n)}}
                          \cup {priority[u] : u \in {v \in Tasks : \E m \in Holds(t) :
                                   Inherit(m) /\ state[v] = "WAIT" /\ wid[v] = m}})
    BY DEF PriorityExact
  <2>. DEFINE A == mtxatr
              k == Kernel
              S == {bpriority[t]}
                     \cup {mtxatr[m].ceilpri : m \in {n \in Holds(t) : Ceiling(n)}}
                     \cup {priority[u] : u \in {v \in Tasks : \E m \in Holds(t) :
                              Inherit(m) /\ state[v] = "WAIT" /\ wid[v] = m}}
  <2>1. /\ A \in AtrTypes /\ k \in KStates /\ NULL \notin Tasks
        /\ k.mtxtsk = mtxtsk /\ k.mtxlist = mtxlist /\ k.state = state
        /\ k.wid = wid /\ k.priority = priority /\ k.bpriority = bpriority
        /\ Lists(k, Live(A), NULL) /\ Least(A, k, NULL, {}, t, priority[t])
    BY KernelFacts DEF Shape, Good
  <2>2. Exists = Live(A)
    BY DEF Exists, Live
  <2>. HIDE DEF A, k
  <2>3. ToSet(mtxlist[t]) = Holds(t)
    BY <2>1, <2>2 DEF Lists, Holds
  <2>4. \A u, m : Waits(k, NULL, u, m) <=> u \in Tasks /\ state[u] = "WAIT" /\ wid[u] = m
    BY <2>1 DEF Waits
  <2>5. \A y : y \in S <=> Bound(A, k, NULL, t, y)
    BY <2>1, <2>3, <2>4 DEF Bound, Ceiling, Inherit, A
  <2>6. \A y : Bound(A, k, NULL, t, y) => y \in Int
    <3>1. A \in AtrTypes /\ k \in KStates
      BY <2>1
    <3>2. \A y : Bound(A, k, NULL, t, y) => y \in Pri
      BY <3>1, BoundTypes
    <3>3. Pri \subseteq Int
      BY PriNumbers
    <3>. QED  BY <3>2, <3>3
  <2>. HIDE DEF S
  <2>7. priority[t] \in S /\ S \subseteq Int /\ \A y \in S : priority[t] <= y
    BY <2>1, <2>5, <2>6 DEF Least
  <2>8. priority[t] = Min(S)
    BY <2>7, LeastIsMin
  <2>. QED  BY <2>8 DEF S
<1>. QED  BY <1>1, MutexInvariant, PTL

\* No task whose base priority is above the ceiling of a mutex holds it or waits
\* for it, whatever tk_chg_pri and tk_loc_mtx did (chg_pri_mutex).
THEOREM MutexCeilingRespected ==
  ASSUME Nested
  PROVE  Spec => []CeilingRespected
<1>1. MutexInv => CeilingRespected
  <2>. SUFFICES ASSUME MutexInv, NEW t \in Tasks, NEW m \in Exists, Ceiling(m),
                       m \in Holds(t) \/ (state[t] = "WAIT" /\ wid[t] = m)
                PROVE  bpriority[t] >= mtxatr[m].ceilpri
    BY DEF CeilingRespected
  <2>1. /\ Kernel.mtxtsk = mtxtsk /\ Kernel.mtxlist = mtxlist /\ Kernel.state = state
        /\ Kernel.wid = wid /\ Kernel.bpriority = bpriority
        /\ Lists(Kernel, Live(mtxatr), NULL) /\ Below(mtxatr, Kernel)
    BY KernelFacts DEF Shape
  <2>2. m \in Live(mtxatr) /\ (m \in Holds(t) => m \in ToSet(mtxlist[t]))
    BY <2>1 DEF Exists, Live, Holds, Lists
  <2>. QED  BY <2>1, <2>2 DEF Below, Ceiling
<1>. QED  BY <1>1, MutexInvariant, PTL
=============================================================================
