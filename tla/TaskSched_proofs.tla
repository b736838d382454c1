-------------------------- MODULE TaskSched_proofs --------------------------
(***************************************************************************)
(* The scheduler's data structures are exact for every number of tasks,    *)
(* priorities and locks.  The first half is about the ready queue alone:   *)
(* RQOK(rq, R, pri) says that rq holds exactly the tasks of R, filed by    *)
(* pri, and every operation of ready_queue.h changes R as its name says.   *)
(* The second half is the inductive invariant of the specification.        *)
(***************************************************************************)
EXTENDS TaskSched, Queue_proofs, NaturalsInduction, WellFoundedInduction

RQOK(rq, R, pri) == rq \in RDYQUE /\ QueuesExact(rq, R, pri) /\ IndexExact(rq)

\* The queue of priority p is replaced by q, which adds or removes tasks of
\* priority p only; the index follows.  Every operation is of this form.
LEMMA Refile ==
  ASSUME NEW rq, NEW r, NEW R, NEW R2, NEW pri \in [Tasks -> Pri],
         NEW p \in Pri, NEW q \in Seq(Tasks),
         R \subseteq Tasks, R2 \subseteq Tasks,
         RQOK(rq, R, pri),
         r \in RDYQUE,
         r.tskque = [rq.tskque EXCEPT ![p] = q],
         IsInjective(q),
         ToSet(q) = {t \in R2 : pri[t] = p},
         \A t \in Tasks : pri[t] # p => (t \in R <=> t \in R2),
         IndexExact(r)
  PROVE  RQOK(r, R2, pri)
<1>1. rq.tskque \in [Pri -> Seq(Tasks)]
  BY DEF RQOK, RDYQUE
<1>2. ASSUME NEW x \in Pri
      PROVE  IsInjective(r.tskque[x]) /\ ToSet(r.tskque[x]) = {t \in R2 : pri[t] = x}
  <2>1. CASE x = p
    BY <1>1, <2>1
  <2>2. CASE x # p
    <3>1. r.tskque[x] = rq.tskque[x]
      BY <1>1, <2>2
    <3>2. IsInjective(rq.tskque[x]) /\ ToSet(rq.tskque[x]) = {t \in R : pri[t] = x}
      BY DEF RQOK, QueuesExact
    <3>3. {t \in R : pri[t] = x} = {t \in R2 : pri[t] = x}
      BY <2>2
    <3>. QED  BY <3>1, <3>2, <3>3
  <2>. QED  BY <2>1, <2>2
<1>. QED  BY <1>2 DEF RQOK, QueuesExact

\* What an insertion has to make of rq: r is exact with t, and t comes first
\* only if it is of a higher priority or was put at the front.
Inserted(r, rq, R, t, pri, klock) ==
    /\ RQOK(r, R \cup {t}, pri)
    /\ r.klocktsk = IF klock THEN t ELSE rq.klocktsk
    /\ r.top_priority = IF pri[t] < rq.top_priority THEN pri[t] ELSE rq.top_priority
    /\ r = ready_queue_insert(rq, t, pri[t], klock) /\ pri[t] >= rq.top_priority =>
         Head(r.tskque[r.top_priority]) = Head(rq.tskque[rq.top_priority])
    /\ pri[t] < rq.top_priority => Head(r.tskque[r.top_priority]) = t

\* Inserting a task at either end files it under its priority.
LEMMA InsertOK ==
  ASSUME NEW rq, NEW R, NEW pri \in [Tasks -> Pri], NEW t \in Tasks, NEW klock \in BOOLEAN,
         R \subseteq Tasks, t \notin R, RQOK(rq, R, pri),
         NEW r, r \in {ready_queue_insert(rq, t, pri[t], klock),
                       ready_queue_insert_top(rq, t, pri[t], klock)}
  PROVE  Inserted(r, rq, R, t, pri, klock)
<1>. DEFINE p == pri[t]
            old == rq.tskque[p]
<1>0. p \in Pri /\ NUM_PRI \in Nat
  BY ConstantsAssumption
<1>1. /\ rq.tskque \in [Pri -> Seq(Tasks)] /\ rq.top_priority \in 0..NUM_PRI
      /\ rq.bitmap \in SUBSET Pri /\ rq.klocktsk \in Tasks \cup {NULL}
  BY DEF RQOK, RDYQUE
<1>12. p \in Int /\ rq.top_priority \in Int /\ NUM_PRI \in Int /\ \A x \in rq.bitmap : x \in Int
  BY <1>0, <1>1 DEF Pri
<1>2. old \in Seq(Tasks) /\ IsInjective(old) /\ ToSet(old) = {x \in R : pri[x] = p}
  BY <1>0, <1>1 DEF RQOK, QueuesExact
<1>. HIDE DEF p, old
<1>. DEFINE last == r = ready_queue_insert(rq, t, p, klock)
            q == IF last THEN QueInsert(old, t) ELSE QueInsertTop(old, t)
<1>3. r = add_to_queue(rq, t, p, klock, q)
  <2>1. CASE last
    BY <2>1 DEF ready_queue_insert, old
  <2>2. CASE ~last
    <3>1. r = ready_queue_insert_top(rq, t, p, klock)
      BY <2>2 DEF p
    <3>. QED  BY <2>2, <3>1 DEF ready_queue_insert_top, old
  <2>. QED  BY <2>1, <2>2
<1>4. /\ q \in Seq(Tasks) /\ q # <<>> /\ IsInjective(q)
      /\ ToSet(q) = ToSet(old) \cup {t}
      /\ old = <<>> => Head(q) = t
      /\ last /\ old # <<>> => Head(q) = Head(old)
  <2>1. old \in Seq(Tasks) /\ t \in Tasks /\ IsInjective(old) /\ t \notin ToSet(old)
    BY <1>2
  <2>. HIDE DEF q, last
  <2>2. CASE last
    <3>1. q = QueInsert(old, t)
      BY <2>2 DEF q
    <3>2. q \in Seq(Tasks) /\ q # <<>>
      BY <2>1, <3>1, QueInsertProperties
    <3>6. ToSet(QueInsert(old, t)) = ToSet(old) \cup {t}
      BY <2>1, QueInsertProperties
    <3>5. ToSet(q) = ToSet(old) \cup {t}
      BY <3>1, <3>6
    <3>4. IsInjective(q)
      BY <2>1, <3>1, QueInsertProperties, Zenon
    <3>3. Head(q) = IF old = <<>> THEN t ELSE Head(old)
      BY <2>1, <3>1, QueInsertProperties
    <3>. QED  BY <3>2, <3>3, <3>4, <3>5
  <2>3. CASE ~last
    <3>1. q = QueInsertTop(old, t)
      BY <2>3 DEF q
    <3>2. q \in Seq(Tasks) /\ q # <<>>
      BY <2>1, <3>1, QueInsertTopProperties
    <3>6. ToSet(QueInsertTop(old, t)) = ToSet(old) \cup {t}
      BY <2>1, QueInsertTopProperties
    <3>5. ToSet(q) = ToSet(old) \cup {t}
      BY <3>1, <3>6
    <3>4. IsInjective(q)
      BY <2>1, <3>1, QueInsertTopProperties, Zenon
    <3>3. Head(q) = t
      BY <2>1, <3>1, QueInsertTopProperties
    <3>. QED  BY <2>3, <3>2, <3>3, <3>4, <3>5
  <2>. QED  BY <2>2, <2>3
<1>. HIDE DEF q, last
<1>10. ToSet(q) = {x \in R \cup {t} : pri[x] = p}
  BY <1>2, <1>4 DEF p
<1>11. /\ r.tskque = [rq.tskque EXCEPT ![p] = q]
       /\ r.bitmap = rq.bitmap \cup {p}
       /\ r.klocktsk = IF klock THEN t ELSE rq.klocktsk
       /\ r.top_priority = IF p < rq.top_priority THEN p ELSE rq.top_priority
       /\ r \in RDYQUE
  BY <1>0, <1>1, <1>3, <1>4 DEF add_to_queue, RDYQUE, Pri
<1>5. /\ rq.bitmap = {x \in Pri : rq.tskque[x] # <<>>}
      /\ \A x \in rq.bitmap : rq.top_priority <= x
      /\ rq.top_priority \in rq.bitmap \cup {NUM_PRI}
  BY DEF RQOK, IndexExact
<1>6. IndexExact(r)
  <2>1. r.bitmap = {x \in Pri : r.tskque[x] # <<>>}
    BY <1>0, <1>1, <1>11, <1>4, <1>5
  <2>2. \A x \in r.bitmap : r.top_priority <= x
    BY <1>11, <1>12, <1>5
  <2>3. r.top_priority \in r.bitmap \cup {NUM_PRI}
    BY <1>0, <1>1, <1>11, <1>5 DEF Pri
  <2>. QED  BY <2>1, <2>2, <2>3 DEF IndexExact
<1>7. RQOK(r, R \cup {t}, pri)
  <2>1. \A x \in Tasks : pri[x] # p => (x \in R <=> x \in R \cup {t})
    BY DEF p
  <2>. QED  BY <1>0, <1>10, <1>11, <1>4, <1>6, <2>1, Refile
<1>8. ASSUME r = ready_queue_insert(rq, t, p, klock), p >= rq.top_priority
      PROVE  Head(r.tskque[r.top_priority]) = Head(rq.tskque[rq.top_priority])
  <2>1. r.top_priority = rq.top_priority /\ rq.top_priority \in Pri
    BY <1>0, <1>1, <1>11, <1>8 DEF Pri
  <2>2. CASE rq.top_priority # p
    BY <1>1, <1>11, <2>1, <2>2
  <2>3. CASE rq.top_priority = p
    <3>1. old # <<>>
      BY <1>0, <1>5, <2>1, <2>3 DEF Pri, old
    <3>2. r.tskque[p] = q
      BY <1>0, <1>1, <1>11
    <3>3. last
      BY <1>8 DEF last
    <3>. QED  BY <1>4, <2>1, <2>3, <3>1, <3>2, <3>3 DEF old
  <2>. QED  BY <2>2, <2>3
<1>9. ASSUME p < rq.top_priority PROVE Head(r.tskque[r.top_priority]) = t
  <2>1. r.top_priority = p /\ r.tskque[p] = q
    BY <1>0, <1>1, <1>11, <1>9
  <2>2. p \notin rq.bitmap
    BY <1>5, <1>9, <1>12
  <2>3. old = <<>>
    BY <1>0, <1>5, <2>2 DEF old
  <2>. QED  BY <1>4, <2>1, <2>3
<1>. QED  BY <1>11, <1>7, <1>8, <1>9 DEF p, Inserted

\* A set of priorities at or above p has a least member.
LEMMA BitsMinimum ==
  ASSUME NEW bits \in SUBSET Pri, NEW p \in Pri, \E x \in bits : x >= p
  PROVE  \E x \in bits : x >= p /\ \A y \in bits : y >= p => x <= y
<1>. DEFINE S == {x \in bits : x >= p}
<1>1. S \in SUBSET Nat /\ S # {}
  <2>1. bits \subseteq Pri
    OBVIOUS
  <2>2. \A x \in Pri : x \in Nat
    BY DEF Pri
  <2>. QED  BY <2>1, <2>2
<1>. DEFINE less == {ss \in Nat \X Nat : ss[1] < ss[2]}
<1>2. IsWellFoundedOn(less, Nat)
  BY NatLessThanWellFounded DEF OpToRel
<1>. HIDE DEF less, S
<1>3. PICK m \in S : \A y \in S : ~(<<y, m>> \in less)
  BY <1>1, <1>2, WFMin
<1>4. ASSUME NEW y \in S PROVE m <= y
  <2>1. y \in Nat /\ m \in Nat
    BY <1>1
  <2>2. <<y, m>> \in less <=> y < m
    BY <2>1 DEF less
  <2>. QED  BY <1>3, <2>1, <2>2
<1>. QED  BY <1>4 DEF S

\* What ready_queue_delete has to make of rq: r is exact without t, and keeps
\* its first task and its klocktsk unless t was that.
Deleted(r, rq, R, t, pri) ==
    /\ RQOK(r, R \ {t}, pri)
    /\ r.klocktsk = IF rq.klocktsk = t THEN NULL ELSE rq.klocktsk
    /\ top_of_queues(rq) # NULL /\ top_of_queues(rq) # t =>
         top_of_queues(r) = top_of_queues(rq)

\* Deleting a task that is in the ready queue.
LEMMA DeleteOK ==
  ASSUME NEW rq, NEW R, NEW pri \in [Tasks -> Pri], NEW t \in R,
         R \subseteq Tasks, RQOK(rq, R, pri),
         NEW r, r = ready_queue_delete(rq, t, pri[t], FALSE)
  PROVE  Deleted(r, rq, R, t, pri)
<1>. DEFINE p == pri[t]
            old == rq.tskque[p]
            q == QueRemove(old, t)
            bits == IF q = <<>> THEN rq.bitmap \ {p} ELSE rq.bitmap
<1>0. p \in Pri /\ NUM_PRI \in Nat
  BY ConstantsAssumption
<1>1. /\ rq.tskque \in [Pri -> Seq(Tasks)] /\ rq.top_priority \in 0..NUM_PRI
      /\ rq.bitmap \in SUBSET Pri /\ rq.klocktsk \in Tasks \cup {NULL}
  BY DEF RQOK, RDYQUE
<1>12. p \in Int /\ rq.top_priority \in Int /\ NUM_PRI \in Int /\ \A x \in rq.bitmap : x \in Int
  BY <1>0, <1>1 DEF Pri
<1>2. old \in Seq(Tasks) /\ IsInjective(old) /\ ToSet(old) = {x \in R : pri[x] = p}
  BY <1>0, <1>1 DEF RQOK, QueuesExact
<1>3. /\ q \in Seq(Tasks) /\ IsInjective(q) /\ ToSet(q) = ToSet(old) \ {t}
      /\ old # <<>> /\ Head(old) # t => q # <<>> /\ Head(q) = Head(old)
  BY <1>2, QueRemoveProperties
<1>4. /\ rq.bitmap = {x \in Pri : rq.tskque[x] # <<>>}
      /\ \A x \in rq.bitmap : rq.top_priority <= x
      /\ rq.top_priority \in rq.bitmap \cup {NUM_PRI}
  BY DEF RQOK, IndexExact
<1>5. old # <<>> /\ p \in rq.bitmap
  <2>1. t \in ToSet(old)
    BY <1>2
  <2>2. old # <<>>
    BY <1>2, <2>1, MemberPosition
  <2>. QED  BY <1>0, <1>4, <2>2
<1>6. /\ r.tskque = [rq.tskque EXCEPT ![p] = q]
      /\ r.bitmap = bits
      /\ r.klocktsk = IF rq.klocktsk = t THEN NULL ELSE rq.klocktsk
      /\ r.top_priority = IF q = <<>> /\ p = rq.top_priority THEN BitSearch1(bits, p)
                         ELSE rq.top_priority
      /\ DOMAIN r = {"tskque", "bitmap", "klocktsk", "top_priority"}
      /\ r = [tskque |-> r.tskque, bitmap |-> r.bitmap, klocktsk |-> r.klocktsk,
              top_priority |-> r.top_priority]
  BY <1>0, <1>1 DEF ready_queue_delete, isQueEmpty
<1>13. bits \in SUBSET Pri
  BY <1>1
<1>. HIDE DEF p, old, q, bits
<1>7. /\ BitSearch1(bits, p) \in bits \cup {NUM_PRI}
      /\ \A x \in bits : x >= p => BitSearch1(bits, p) <= x
  <2>1. CASE \E x \in bits : x >= p
    <3>1. \E x \in bits : x >= p /\ \A y \in bits : y >= p => x <= y
      BY <2>1, <1>0, <1>13, BitsMinimum
    <3>. QED  BY <2>1, <3>1 DEF BitSearch1
  <2>2. CASE ~ \E x \in bits : x >= p
    BY <2>2 DEF BitSearch1
  <2>. QED  BY <2>1, <2>2
<1>8. IndexExact(r)
  <2>1. r.bitmap = {x \in Pri : r.tskque[x] # <<>>}
    <3>1. \A x \in Pri : r.tskque[x] = IF x = p THEN q ELSE rq.tskque[x]
      BY <1>0, <1>1, <1>6
    <3>2. \A x \in Pri : x \in bits <=> IF x = p THEN q # <<>> ELSE x \in rq.bitmap
      BY <1>5 DEF bits
    <3>3. \A x \in Pri : x \in bits <=> r.tskque[x] # <<>>
      BY <1>4, <3>1, <3>2
    <3>. QED  BY <1>6, <1>13, <3>3
  <2>2. \A x \in r.bitmap : r.top_priority <= x
    <3>1. bits \subseteq rq.bitmap
      BY DEF bits
    <3>2. CASE q = <<>> /\ p = rq.top_priority
      BY <3>1, <3>2, <1>4, <1>6, <1>7, <1>12
    <3>3. CASE ~(q = <<>> /\ p = rq.top_priority)
      BY <3>1, <3>3, <1>4, <1>6
    <3>. QED  BY <3>2, <3>3
  <2>3. r.top_priority \in r.bitmap \cup {NUM_PRI}
    BY <1>4, <1>5, <1>6, <1>7 DEF bits
  <2>. QED  BY <2>1, <2>2, <2>3 DEF IndexExact
<1>9. r \in RDYQUE
  <2>1. r.tskque \in [Pri -> Seq(Tasks)]
    BY <1>0, <1>1, <1>3, <1>6
  <2>3. r.bitmap \in SUBSET Pri /\ r.klocktsk \in Tasks \cup {NULL}
    BY <1>1, <1>6, <1>13
  <2>2. r.top_priority \in 0..NUM_PRI
    <3>1. \A x \in bits \cup {NUM_PRI} : x \in 0..NUM_PRI
      BY <1>0, <1>13 DEF Pri
    <3>. QED  BY <1>1, <1>6, <1>7, <3>1
  <2>. QED  BY <1>6, <2>1, <2>2, <2>3 DEF RDYQUE
<1>10. RQOK(r, R \ {t}, pri)
  <2>. DEFINE R2 == R \ {t}
  <2>1. ToSet(q) = {x \in R2 : pri[x] = p}
    BY <1>2, <1>3
  <2>2. \A x \in Tasks : pri[x] # p => (x \in R <=> x \in R2)
    BY DEF p
  <2>3. R2 \subseteq Tasks
    OBVIOUS
  <2>. HIDE DEF R2
  <2>5. r.tskque = [rq.tskque EXCEPT ![p] = q]
    BY <1>6
  <2>6. q \in Seq(Tasks) /\ IsInjective(q)
    BY <1>3
  <2>7. p \in Pri
    BY <1>0
  <2>4. RQOK(r, R2, pri)
    BY ONLY <2>7, RQOK(rq, R, pri), R \subseteq Tasks, pri \in [Tasks -> Pri], <1>8, <1>9, <2>1, <2>2, <2>3, <2>5, <2>6, Refile, ZenonT(60)
  <2>. QED  BY <2>4 DEF R2
<1>11. ASSUME rq.top_priority # NUM_PRI, Head(rq.tskque[rq.top_priority]) # t
       PROVE  /\ r.top_priority = rq.top_priority
              /\ Head(r.tskque[r.top_priority]) = Head(rq.tskque[rq.top_priority])
  <2>1. rq.top_priority \in Pri
    BY <1>11, <1>1, <1>4
  <2>2. CASE rq.top_priority = p
    BY <1>0, <1>1, <1>3, <1>5, <1>6, <1>11, <2>2 DEF old
  <2>3. CASE rq.top_priority # p
    BY <1>0, <1>1, <1>6, <2>1, <2>3
  <2>. QED  BY <2>2, <2>3
<1>14. ASSUME top_of_queues(rq) # NULL, top_of_queues(rq) # t
       PROVE  top_of_queues(r) = top_of_queues(rq)
  <2>1. rq.top_priority # NUM_PRI /\ top_of_queues(rq) = Head(rq.tskque[rq.top_priority])
    BY <1>14 DEF top_of_queues, QueNext
  <2>. QED  BY <1>11, <1>14, <2>1 DEF top_of_queues, QueNext
<1>15. r.klocktsk = IF rq.klocktsk = t THEN NULL ELSE rq.klocktsk
  BY <1>6
<1>. QED  BY <1>10, <1>14, <1>15 DEF Deleted

\* Setting klocktsk leaves the queues and the index alone.
LEMMA SetKlocktskOK ==
  ASSUME NEW rq, NEW R, NEW pri, NEW k \in Tasks \cup {NULL}, RQOK(rq, R, pri),
         NEW r, r = set_klocktsk(rq, k)
  PROVE  /\ RQOK(r, R, pri)
         /\ r.klocktsk = k /\ r.tskque = rq.tskque /\ r.top_priority = rq.top_priority
<1>1. /\ r \in RDYQUE /\ r.klocktsk = k /\ r.tskque = rq.tskque
      /\ r.top_priority = rq.top_priority /\ r.bitmap = rq.bitmap
  BY DEF set_klocktsk, RQOK, RDYQUE
<1>2. QueuesExact(r, R, pri)
  BY <1>1 DEF RQOK, QueuesExact
<1>3. IndexExact(r)
  BY <1>1 DEF RQOK, IndexExact
<1>. QED  BY <1>1, <1>2, <1>3 DEF RQOK

\* A permutation of one queue.
LEMMA ReorderOK ==
  ASSUME NEW rq, NEW R, NEW pri \in [Tasks -> Pri], NEW p \in Pri, NEW q \in Seq(Tasks),
         R \subseteq Tasks, RQOK(rq, R, pri),
         IsInjective(q), ToSet(q) = ToSet(rq.tskque[p]), q # <<>>, rq.tskque[p] # <<>>,
         NEW r, r = reorder(rq, p, q)
  PROVE  /\ RQOK(r, R, pri)
         /\ r.klocktsk = rq.klocktsk /\ r.top_priority = rq.top_priority
         /\ r.tskque = [rq.tskque EXCEPT ![p] = q]
<1>1. /\ r \in RDYQUE /\ r.klocktsk = rq.klocktsk /\ r.tskque = [rq.tskque EXCEPT ![p] = q]
      /\ r.top_priority = rq.top_priority /\ r.bitmap = rq.bitmap
      /\ rq.tskque \in [Pri -> Seq(Tasks)]
  BY DEF reorder, RQOK, RDYQUE
<1>2. \A x \in Pri : r.tskque[x] = <<>> <=> rq.tskque[x] = <<>>
  BY <1>1
<1>3. IndexExact(r)
  BY <1>1, <1>2 DEF RQOK, IndexExact
<1>4. \A x \in Tasks : pri[x] # p => (x \in R <=> x \in R)
  OBVIOUS
<1>5. ToSet(q) = {x \in R : pri[x] = p}
  BY DEF RQOK, QueuesExact
<1>6. r \in RDYQUE /\ r.tskque = [rq.tskque EXCEPT ![p] = q]
  BY <1>1
<1>7. RQOK(r, R, pri)
  BY <1>3, <1>4, <1>5, <1>6, Refile, Zenon
<1>. QED  BY <1>1, <1>7

\* What the two searches for the next task find.
LEMMA TopOK ==
  ASSUME NEW rq, NEW R, NEW pri, R \subseteq Tasks, pri \in [Tasks -> Pri], RQOK(rq, R, pri)
  PROVE  /\ top_of_queues(rq) = NULL => R = {} /\ rq.top_priority = NUM_PRI
         /\ top_of_queues(rq) # NULL => /\ top_of_queues(rq) \in R
                                       /\ pri[top_of_queues(rq)] = rq.top_priority
                                       /\ rq.top_priority \in Pri
         /\ \A t \in R : rq.top_priority <= pri[t]
<1>1. /\ rq.tskque \in [Pri -> Seq(Tasks)] /\ rq.top_priority \in 0..NUM_PRI
      /\ rq.bitmap = {x \in Pri : rq.tskque[x] # <<>>}
      /\ \A x \in rq.bitmap : rq.top_priority <= x
      /\ rq.top_priority \in rq.bitmap \cup {NUM_PRI}
  BY DEF RQOK, RDYQUE, IndexExact
<1>2. \A x \in Pri : ToSet(rq.tskque[x]) = {t \in R : pri[t] = x}
  BY DEF RQOK, QueuesExact
<1>3. ASSUME NEW t \in R PROVE pri[t] \in rq.bitmap /\ pri[t] \in Pri
  <2>1. pri[t] \in Pri /\ t \in ToSet(rq.tskque[pri[t]])
    BY <1>2
  <2>2. rq.tskque[pri[t]] # <<>>
    BY <1>1, <2>1, MemberPosition
  <2>. QED  BY <1>1, <2>1, <2>2
<1>4. NUM_PRI \in Nat /\ \A x \in Pri : x \in Int /\ x < NUM_PRI
  BY ConstantsAssumption DEF Pri
<1>5. CASE rq.top_priority = NUM_PRI
  <2>1. \A x \in rq.bitmap : FALSE
    BY <1>1, <1>4, <1>5
  <2>2. R = {}
    BY <1>3, <2>1
  <2>. QED  BY <1>5, <2>2 DEF top_of_queues
<1>6. CASE rq.top_priority # NUM_PRI
  <2>1. rq.top_priority \in Pri /\ rq.tskque[rq.top_priority] # <<>>
    BY <1>1, <1>6
  <2>2. Head(rq.tskque[rq.top_priority]) \in ToSet(rq.tskque[rq.top_priority])
    BY <1>1, <2>1, MemberPosition
  <2>3. top_of_queues(rq) = Head(rq.tskque[rq.top_priority])
    BY <1>6 DEF top_of_queues, QueNext
  <2>4. top_of_queues(rq) \in R /\ pri[top_of_queues(rq)] = rq.top_priority
    BY <1>2, <2>1, <2>2, <2>3
  <2>5. top_of_queues(rq) # NULL
    BY <2>4, ConstantsAssumption
  <2>. QED  BY <1>1, <1>3, <2>1, <2>4, <2>5
<1>. QED  BY <1>5, <1>6

\* RQOK only looks at the priorities of the tasks in the queue.
LEMMA PrioritiesAgree ==
  ASSUME NEW rq, NEW R, NEW pri, NEW pri2, RQOK(rq, R, pri), \A t \in R : pri[t] = pri2[t]
  PROVE  RQOK(rq, R, pri2)
<1>1. \A p \in Pri : {t \in R : pri[t] = p} = {t \in R : pri2[t] = p}
  OBVIOUS
<1>2. QueuesExact(rq, R, pri2)
  BY <1>1 DEF RQOK, QueuesExact
<1>. QED  BY <1>2 DEF RQOK

\* A time slice moves a task behind its equals; another task at the head stays.
LEMMA MoveLastOK ==
  ASSUME NEW rq, NEW R, NEW pri \in [Tasks -> Pri], NEW s \in R,
         R \subseteq Tasks, RQOK(rq, R, pri),
         NEW r, r = ready_queue_move_last(rq, s, pri[s])
  PROVE  /\ RQOK(r, R, pri)
         /\ r.klocktsk = rq.klocktsk /\ r.top_priority = rq.top_priority
         /\ top_of_queues(rq) # s => top_of_queues(r) = top_of_queues(rq)
         /\ r.tskque[pri[s]] # <<>>
<1>. DEFINE p == pri[s]
            old == rq.tskque[p]
            rest == QueRemove(old, s)
            q == QueInsert(rest, s)
<1>1. /\ p \in Pri /\ rq.tskque \in [Pri -> Seq(Tasks)]
      /\ old \in Seq(Tasks) /\ IsInjective(old) /\ ToSet(old) = {x \in R : pri[x] = p}
  BY DEF RQOK, RDYQUE, QueuesExact
<1>2. s \in ToSet(old) /\ s \in Tasks
  BY <1>1
<1>3. old # <<>>
  BY <1>1, <1>2, MemberPosition
<1>. HIDE DEF p, old
<1>4. rest \in Seq(Tasks) /\ IsInjective(rest)
  BY <1>1, QueRemoveProperties
<1>5. ToSet(rest) = ToSet(old) \ {s}
  BY <1>1, QueRemoveProperties
<1>6. Head(old) # s => rest # <<>> /\ Head(rest) = Head(old)
  BY <1>1, <1>3, QueRemoveProperties
<1>. HIDE DEF rest
<1>7. q \in Seq(Tasks) /\ q # <<>>
  BY <1>2, <1>4, QueInsertProperties
<1>8. ToSet(q) = ToSet(rest) \cup {s}
  BY <1>2, <1>4, QueInsertProperties
<1>9. IsInjective(q)
  <2>1. s \notin ToSet(rest)
    BY <1>5
  <2>. QED  BY <1>2, <1>4, <2>1, QueInsertProperties
<1>10. Head(q) = IF rest = <<>> THEN s ELSE Head(rest)
  BY <1>2, <1>4, QueInsertProperties
<1>. HIDE DEF q
<1>11. ToSet(q) = ToSet(old)
  BY <1>2, <1>5, <1>8
<1>12. r = reorder(rq, p, q)
  BY DEF ready_queue_move_last, p, q, rest, old
<1>13. /\ RQOK(r, R, pri)
       /\ r.klocktsk = rq.klocktsk /\ r.top_priority = rq.top_priority
       /\ r.tskque = [rq.tskque EXCEPT ![p] = q]
  <2>1. ToSet(q) = ToSet(rq.tskque[p])
    BY <1>11 DEF old
  <2>2. rq.tskque[p] # <<>>
    BY <1>3 DEF old
  <2>3. p \in Pri
    BY <1>1
  <2>4. q \in Seq(Tasks)
    BY <1>7
  <2>5. q # <<>>
    BY <1>7
  <2>. QED
    BY <1>9, <1>12, <2>1, <2>2, <2>3, <2>4, <2>5, ReorderOK
<1>14. ASSUME top_of_queues(rq) # s PROVE top_of_queues(r) = top_of_queues(rq)
  <2>1. CASE rq.top_priority = NUM_PRI
    BY <1>13, <2>1 DEF top_of_queues
  <2>2. CASE rq.top_priority # NUM_PRI
    <3>1. rq.top_priority \in Pri
      BY <2>2 DEF RQOK, RDYQUE, IndexExact
    <3>2. top_of_queues(rq) = Head(rq.tskque[rq.top_priority])
      BY <2>2 DEF top_of_queues, QueNext
    <3>3. top_of_queues(r) = Head(r.tskque[rq.top_priority])
      BY <2>2, <1>13 DEF top_of_queues, QueNext
    <3>4. CASE rq.top_priority = p
      <4>1. r.tskque[p] = q /\ Head(old) # s
        BY <1>1, <1>13, <1>14, <3>2, <3>4 DEF old
      <4>. QED  BY <1>6, <1>10, <3>2, <3>3, <3>4, <4>1 DEF old
    <3>5. CASE rq.top_priority # p
      BY <1>1, <1>13, <3>1, <3>2, <3>3, <3>5
    <3>. QED  BY <3>4, <3>5
  <2>. QED  BY <2>1, <2>2
<1>15. r.tskque[p] # <<>>
  BY <1>1, <1>7, <1>13
<1>. QED  BY <1>13, <1>14, <1>15 DEF p

\* A rotation keeps the tasks.
LEMMA RotateOK ==
  ASSUME NEW rq, NEW R, NEW pri \in [Tasks -> Pri], NEW p \in Pri,
         R \subseteq Tasks, RQOK(rq, R, pri),
         NEW r, r = ready_queue_rotate(rq, p)
  PROVE  RQOK(r, R, pri) /\ r.klocktsk = rq.klocktsk
<1>. DEFINE old == rq.tskque[p]
<1>1. old \in Seq(Tasks) /\ IsInjective(old)
  BY DEF RQOK, RDYQUE, QueuesExact
<1>2. CASE old = <<>>
  BY <1>2 DEF ready_queue_rotate, isQueEmpty
<1>3. CASE old # <<>>
  <2>. DEFINE h == Head(old)
              rest == QueRemoveNext(old)
              q == QueInsert(rest, h)
  <2>. HIDE DEF old
  <2>1. rest \in Seq(Tasks) /\ IsInjective(rest) /\ h \in Tasks /\ h \in ToSet(old)
    BY <1>1, <1>3, QueRemoveNextProperties
  <2>2. ToSet(rest) = ToSet(old) \ {h}
    BY <1>1, <1>3, QueRemoveNextProperties
  <2>. HIDE DEF rest, h
  <2>3. q \in Seq(Tasks) /\ q # <<>>
    BY <2>1, QueInsertProperties
  <2>4. ToSet(q) = ToSet(rest) \cup {h}
    BY <2>1, QueInsertProperties
  <2>5. IsInjective(q)
    <3>1. h \notin ToSet(rest)
      BY <2>2
    <3>. QED  BY <2>1, <3>1, QueInsertProperties
  <2>6. r = reorder(rq, p, q)
    BY <1>3 DEF ready_queue_rotate, isQueEmpty, QueNext, old, h, rest, q
  <2>. HIDE DEF q
  <2>7. ToSet(q) = ToSet(old)
    BY <2>1, <2>2, <2>4
  <2>8. ToSet(q) = ToSet(rq.tskque[p])
    BY <2>7 DEF old
  <2>9. rq.tskque[p] # <<>>
    BY <1>3 DEF old
  <2>10. q \in Seq(Tasks)
    BY <2>3
  <2>11. q # <<>>
    BY <2>3
  <2>12. /\ RQOK(r, R, pri)
         /\ r.klocktsk = rq.klocktsk /\ r.top_priority = rq.top_priority
         /\ r.tskque = [rq.tskque EXCEPT ![p] = q]
    BY <2>5, <2>6, <2>8, <2>9, <2>10, <2>11, ReorderOK
  <2>. QED  BY <2>12
<1>. QED  BY <1>2, <1>3

-----------------------------------------------------------------------------
(* The scheduler's operations                                              *)

\* The ready queue rq and the task s that should run are right for the tasks
\* R that are ready, their priorities and the tasks K that hold a kernel lock.
SchedOK(rq, s, R, pri, K) ==
    /\ RQOK(rq, R, pri)
    /\ rq.klocktsk # NULL => rq.klocktsk \in R /\ rq.klocktsk \in K
    /\ s # NULL => s \in R
    /\ s = NULL => R = {}
    /\ K = {} => s = top_of_queues(rq)

\* ready_queue_top is always a right choice.
LEMMA ReadyTopOK ==
  ASSUME NEW rq, NEW R, NEW pri, NEW K, R \subseteq Tasks, pri \in [Tasks -> Pri],
         RQOK(rq, R, pri), rq.klocktsk # NULL => rq.klocktsk \in R /\ rq.klocktsk \in K
  PROVE  SchedOK(rq, ready_queue_top(rq), R, pri, K)
<1>1. /\ top_of_queues(rq) = NULL => R = {}
      /\ top_of_queues(rq) # NULL => top_of_queues(rq) \in R
  BY TopOK
<1>2. CASE rq.klocktsk = NULL
  BY <1>1, <1>2 DEF SchedOK, ready_queue_top
<1>3. CASE rq.klocktsk # NULL
  BY <1>3 DEF SchedOK, ready_queue_top
<1>. QED  BY <1>2, <1>3

\* The end of a time slice never takes the first place from another task.
LEMMA SliceOK ==
  ASSUME NEW rq, NEW R, NEW pri \in [Tasks -> Pri], NEW s, NEW e \in BOOLEAN,
         R \subseteq Tasks, RQOK(rq, R, pri), s # NULL => s \in R,
         NEW r, r = time_slice_schedule(rq, s, pri, e)
  PROVE  /\ RQOK(r, R, pri)
         /\ r.klocktsk = rq.klocktsk
         /\ top_of_queues(rq) # s => top_of_queues(r) = top_of_queues(rq)
<1>1. CASE slice_expired(s, e)
  <2>1. s \in R /\ r = ready_queue_move_last(rq, s, pri[s])
    BY <1>1 DEF slice_expired, time_slice_schedule
  <2>. QED  BY <2>1, MoveLastOK
<1>2. CASE ~slice_expired(s, e)
  BY <1>2 DEF time_slice_schedule
<1>. QED  BY <1>1, <1>2

\* reschedule() after any change that leaves the ready queue exact.
LEMMA RescheduleOK ==
  ASSUME NEW rq, NEW R, NEW pri \in [Tasks -> Pri], NEW K, NEW e \in BOOLEAN,
         R \subseteq Tasks, RQOK(rq, R, pri),
         rq.klocktsk # NULL => rq.klocktsk \in R /\ rq.klocktsk \in K,
         schedtsk # NULL => schedtsk \in R,
         reschedule(rq, pri, e)
  PROVE  SchedOK(ready_queue', schedtsk', R, pri, K)
<1>. DEFINE top == ready_queue_top(rq)
<1>1. SchedOK(rq, top, R, pri, K)
  BY ReadyTopOK
<1>2. schedtsk' = top
  BY DEF reschedule
<1>3. CASE schedtsk # top /\ schedtsk = ctxtsk
  <2>1. ready_queue' = time_slice_schedule(rq, schedtsk, pri, e)
    BY <1>3 DEF reschedule
  <2>2. /\ RQOK(ready_queue', R, pri)
        /\ ready_queue'.klocktsk = rq.klocktsk
        /\ top_of_queues(rq) # schedtsk => top_of_queues(ready_queue') = top_of_queues(rq)
    BY <2>1, SliceOK
  <2>. QED  BY <1>1, <1>2, <1>3, <2>2 DEF SchedOK
<1>4. CASE ~(schedtsk # top /\ schedtsk = ctxtsk)
  <2>1. ready_queue' = rq
    BY <1>4 DEF reschedule
  <2>. QED  BY <1>1, <1>2, <2>1
<1>. QED  BY <1>3, <1>4

\* make_ready, which compares priorities instead of calling reschedule().
LEMMA MakeReadyOK ==
  ASSUME NEW R, NEW K, NEW t \in Tasks, NEW e \in BOOLEAN, priority \in [Tasks -> Pri],
         R \subseteq Tasks, t \notin R, klocked[t] \in BOOLEAN, klocked[t] => t \in K,
         SchedOK(ready_queue, schedtsk, R, priority, K),
         make_ready(t, e)
  PROVE  SchedOK(ready_queue', schedtsk', R \cup {t}, priority, K)
<1>. DEFINE rq == ready_queue_insert(ready_queue, t, priority[t], klocked[t])
            R2 == R \cup {t}
<1>0. RQOK(ready_queue, R, priority)
  BY DEF SchedOK
<1>1. /\ RQOK(rq, R2, priority)
      /\ rq.klocktsk = IF klocked[t] THEN t ELSE ready_queue.klocktsk
      /\ rq.top_priority = IF priority[t] < ready_queue.top_priority
                             THEN priority[t] ELSE ready_queue.top_priority
      /\ priority[t] >= ready_queue.top_priority =>
           Head(rq.tskque[rq.top_priority]) = Head(ready_queue.tskque[ready_queue.top_priority])
      /\ priority[t] < ready_queue.top_priority => Head(rq.tskque[rq.top_priority]) = t
  <2>. HIDE DEF R2
  <2>1. Inserted(rq, ready_queue, R, t, priority, klocked[t])
    BY <1>0, InsertOK
  <2>. QED  BY <2>1 DEF Inserted, R2
<1>2. rq.klocktsk # NULL => rq.klocktsk \in R2 /\ rq.klocktsk \in K
  BY <1>1 DEF SchedOK
<1>3. /\ ready_queue.top_priority \in 0..NUM_PRI /\ priority[t] \in Pri /\ NUM_PRI \in Nat
      /\ t # NULL /\ R2 \subseteq Tasks /\ R2 # {}
  BY <1>0, ConstantsAssumption DEF RQOK, RDYQUE
<1>4. CASE priority[t] < ready_queue.top_priority
  <2>1. /\ schedtsk' = t
        /\ ready_queue' = IF schedtsk = ctxtsk
                            THEN time_slice_schedule(rq, schedtsk, priority, e) ELSE rq
    BY <1>4 DEF make_ready
  <2>2. top_of_queues(rq) = t
    <3>1. rq.top_priority # NUM_PRI
      BY <1>1, <1>3, <1>4 DEF Pri
    <3>. QED  BY <1>1, <1>4, <3>1 DEF top_of_queues, QueNext
  <2>3. schedtsk # t /\ (schedtsk # NULL => schedtsk \in R2)
    BY <1>3 DEF SchedOK
  <2>. HIDE DEF rq, R2
  <2>4. /\ RQOK(ready_queue', R2, priority)
        /\ ready_queue'.klocktsk = rq.klocktsk
        /\ top_of_queues(ready_queue') = t
    <3>1. CASE schedtsk = ctxtsk
      BY <1>1, <1>3, <2>1, <2>2, <2>3, <3>1, SliceOK
    <3>2. CASE schedtsk # ctxtsk
      BY <1>1, <2>1, <2>2, <3>2
    <3>. QED  BY <3>1, <3>2
  <2>5. t \in R2
    BY DEF R2
  <2>6. SchedOK(ready_queue', schedtsk', R2, priority, K)
    BY <1>2, <1>3, <2>1, <2>4, <2>5 DEF SchedOK
  <2>. QED  BY <2>6 DEF R2
<1>5. CASE ~(priority[t] < ready_queue.top_priority)
  <2>1. schedtsk' = schedtsk /\ ready_queue' = rq
    BY <1>5 DEF make_ready
  <2>2. priority[t] >= ready_queue.top_priority /\ ready_queue.top_priority # NUM_PRI
    BY <1>3, <1>5 DEF Pri
  <2>3. top_of_queues(rq) = top_of_queues(ready_queue)
    BY <1>1, <1>5, <2>2 DEF top_of_queues, QueNext
  <2>4. schedtsk # NULL /\ schedtsk \in R
    BY <1>0, <2>2, TopOK DEF SchedOK
  <2>. HIDE DEF rq
  <2>. QED  BY <1>1, <1>2, <2>1, <2>3, <2>4 DEF SchedOK
<1>. QED  BY <1>4, <1>5

\* The queue without one of its tasks, and the top of what is left.
LEMMA DeleteTopOK ==
  ASSUME NEW R, NEW K, NEW t \in R, priority \in [Tasks -> Pri], R \subseteq Tasks,
         SchedOK(ready_queue, schedtsk, R, priority, K),
         NEW rq, rq = ready_queue_delete(ready_queue, t, priority[t], FALSE)
  PROVE  /\ SchedOK(rq, ready_queue_top(rq), R \ {t}, priority, K)
         /\ schedtsk # t => SchedOK(rq, schedtsk, R \ {t}, priority, K)
<1>. DEFINE R2 == R \ {t}
<1>0. RQOK(ready_queue, R, priority)
  BY DEF SchedOK
<1>1. /\ RQOK(rq, R2, priority)
      /\ rq.klocktsk = IF ready_queue.klocktsk = t THEN NULL ELSE ready_queue.klocktsk
      /\ top_of_queues(ready_queue) # NULL /\ top_of_queues(ready_queue) # t =>
           top_of_queues(rq) = top_of_queues(ready_queue)
  <2>1. Deleted(rq, ready_queue, R, t, priority)
    BY <1>0, DeleteOK
  <2>. QED  BY <2>1 DEF Deleted
<1>2. R2 \subseteq Tasks /\ (rq.klocktsk # NULL => rq.klocktsk \in R2 /\ rq.klocktsk \in K)
  BY <1>1 DEF SchedOK
<1>3. SchedOK(rq, ready_queue_top(rq), R2, priority, K)
  BY <1>1, <1>2, ReadyTopOK
<1>4. ASSUME schedtsk # t PROVE SchedOK(rq, schedtsk, R2, priority, K)
  <2>1. schedtsk # NULL /\ schedtsk \in R2
    BY <1>4 DEF SchedOK
  <2>2. ASSUME K = {} PROVE schedtsk = top_of_queues(rq)
    <3>1. schedtsk = top_of_queues(ready_queue)
      BY <2>2 DEF SchedOK
    <3>. QED  BY <1>1, <1>4, <2>1, <3>1
  <2>. QED  BY <1>1, <1>2, <2>1, <2>2 DEF SchedOK
<1>. QED  BY <1>3, <1>4

\* Deleting a task that waits for a kernel lock changes nothing.
LEMMA DeleteWaiterOK ==
  ASSUME NEW rq, NEW R, NEW pri, NEW t \in Tasks, NEW p, RQOK(rq, R, pri),
         rq.klocktsk # t
  PROVE  ready_queue_delete(rq, t, p, TRUE) = rq
<1>1. rq \in RDYQUE
  BY DEF RQOK
<1>. QED  BY <1>1 DEF ready_queue_delete, RDYQUE

\* make_non_ready, of a runnable task or of one that waits for a kernel lock.
LEMMA MakeNonReadyOK ==
  ASSUME NEW R, NEW K, NEW t \in Tasks, priority \in [Tasks -> Pri], R \subseteq Tasks,
         klockwait[t] \in BOOLEAN, klockwait[t] <=> t \notin R,
         SchedOK(ready_queue, schedtsk, R, priority, K),
         make_non_ready(t)
  PROVE  SchedOK(ready_queue', schedtsk', R \ {t}, priority, K)
<1>. DEFINE rq == ready_queue_delete(ready_queue, t, priority[t], klockwait[t])
<1>0. /\ ready_queue' = rq
      /\ schedtsk' = IF schedtsk = t THEN ready_queue_top(rq) ELSE schedtsk
  BY DEF make_non_ready
<1>1. CASE t \in R
  <2>1. rq = ready_queue_delete(ready_queue, t, priority[t], FALSE)
    BY <1>1
  <2>. HIDE DEF rq
  <2>2. /\ SchedOK(rq, ready_queue_top(rq), R \ {t}, priority, K)
        /\ schedtsk # t => SchedOK(rq, schedtsk, R \ {t}, priority, K)
    BY <1>1, <2>1, DeleteTopOK
  <2>. QED  BY <1>0, <2>2
<1>2. CASE t \notin R
  <2>1. /\ ready_queue.klocktsk # t /\ schedtsk # t /\ RQOK(ready_queue, R, priority)
        /\ R \ {t} = R
    BY <1>2, ConstantsAssumption DEF SchedOK
  <2>2. rq = ready_queue
    BY <1>2, <2>1, DeleteWaiterOK
  <2>. QED  BY <1>0, <2>1, <2>2
<1>. QED  BY <1>1, <1>2

-----------------------------------------------------------------------------
(* The kernel locks                                                        *)

\* The types of the variables that SchedOK does not speak of
TypeRest ==
    /\ state \in [Tasks -> TSTAT]
    /\ ipriority \in [Tasks -> Pri] /\ priority \in [Tasks -> Pri]
    /\ suscnt \in [Tasks -> 0..MaxCount]
    /\ slicetime \in [Tasks -> SliceTimes \cup {0}]
    /\ klocked \in [Tasks -> BOOLEAN] /\ klockwait \in [Tasks -> BOOLEAN]
    /\ lockq \in [Locks -> Seq(Tasks)] /\ locked \in SUBSET Locks
    /\ inlock \in [Tasks -> Locks \cup {NULL}]
    /\ ctxtsk \in Tasks \cup {NULL}
    /\ dispatch_disabled \in BOOLEAN

\* q links the members of S, each one once.
Links(q, S) == q \in Seq(Tasks) /\ IsInjective(q) /\ ToSet(q) = S

Waiters(l) == {t \in Tasks : klockwait[t] /\ inlock[t] = l}

\* Unlinking a task
LEMMA LinksRemove ==
  ASSUME NEW q, NEW S, NEW t \in Tasks, Links(q, S)
  PROVE  Links(QueRemove(q, t), S \ {t})
<1>1. q \in Seq(Tasks) /\ IsInjective(q) /\ ToSet(q) = S
  BY DEF Links
<1>2. QueRemove(q, t) \in Seq(Tasks) /\ IsInjective(QueRemove(q, t))
  BY <1>1, QueRemoveProperties
<1>3. ToSet(QueRemove(q, t)) = ToSet(q) \ {t}
  BY <1>1, QueRemoveProperties
<1>. QED  BY <1>1, <1>2, <1>3 DEF Links

\* Linking a task that is not linked
LEMMA LinksInsert ==
  ASSUME NEW q, NEW S, NEW t \in Tasks, Links(q, S), t \notin S
  PROVE  Links(QueInsert(q, t), S \cup {t})
<1>1. q \in Seq(Tasks) /\ t \in Tasks /\ IsInjective(q) /\ t \notin ToSet(q)
  BY DEF Links
<1>4. ToSet(q) = S
  BY DEF Links
<1>2. QueInsert(q, t) \in Seq(Tasks) /\ IsInjective(QueInsert(q, t))
  BY <1>1, QueInsertProperties
<1>3. ToSet(QueInsert(q, t)) = ToSet(q) \cup {t}
  BY ONLY <1>1, QueInsertProperties
<1>. QED  BY <1>2, <1>3, <1>4 DEF Links

\* Taking the first task out
LEMMA LinksNext ==
  ASSUME NEW q, NEW S, Links(q, S), q # <<>>
  PROVE  Links(QueRemoveNext(q), S \ {QueNext(q)}) /\ QueNext(q) \in S
<1>1. q \in Seq(Tasks) /\ IsInjective(q) /\ ToSet(q) = S
  BY DEF Links
<1>2. /\ QueRemoveNext(q) \in Seq(Tasks) /\ IsInjective(QueRemoveNext(q))
      /\ Head(q) \in ToSet(q)
  BY <1>1, QueRemoveNextProperties
<1>3. ToSet(QueRemoveNext(q)) = ToSet(q) \ {Head(q)}
  BY <1>1, QueRemoveNextProperties
<1>. QED  BY <1>1, <1>2, <1>3 DEF Links, QueNext

\* A queue is empty when nothing is to be linked.
LEMMA LinksEmpty ==
  ASSUME NEW q, NEW S, Links(q, S)
  PROVE  q = <<>> <=> S = {}
BY MemberPosition DEF Links

\* LockQueues, said with Links
LEMMA LockQueuesLinks ==
  ASSUME lockq \in [Locks -> Seq(Tasks)]
  PROVE  LockQueues <=> \A l \in Locks : Links(lockq[l], Waiters(l))
BY DEF LockQueues, Links, Waiters

\* Task t leaves the queue of the lock it waits for, if it waits for one, and
\* goes to state x: termination, suspension, priority change and waiting.
LEMMA LeaveLockOK ==
  ASSUME NEW t \in Tasks, NEW x, TypeRest, KernelLockExact,
         lockq' = leave_lockq(t),
         klockwait' = [klockwait EXCEPT ![t] = FALSE],
         state' = [state EXCEPT ![t] = x],
         klocked' = klocked, locked' = locked,
         inlock' \in {inlock, [inlock EXCEPT ![t] = NULL]},
         klocked[t] => x \in {"READY", "SUSPEND"} /\ inlock' = inlock
  PROVE  KernelLockExact' /\ lockq' \in [Locks -> Seq(Tasks)]
<1>1. /\ klocked \in [Tasks -> BOOLEAN] /\ klockwait \in [Tasks -> BOOLEAN]
      /\ state \in [Tasks -> TSTAT] /\ inlock \in [Tasks -> Locks \cup {NULL}]
      /\ lockq \in [Locks -> Seq(Tasks)]
  BY DEF TypeRest
<1>2. \A l \in Locks : Links(lockq[l], Waiters(l))
  BY <1>1, LockQueuesLinks DEF KernelLockExact
<1>3. \A u \in Tasks : inlock'[u] = inlock[u] \/ u = t
  BY <1>1
<1>4. ASSUME NEW l \in Locks PROVE Links(lockq'[l], Waiters(l)')
  <2>1. CASE klockwait[t]
    <3>1. lockq'[l] = QueRemove(lockq[l], t)
      BY <2>1 DEF leave_lockq
    <3>2. Waiters(l)' = Waiters(l) \ {t}
      BY <1>1, <1>3 DEF Waiters
    <3>3. Links(QueRemove(lockq[l], t), Waiters(l) \ {t})
      BY <1>2, LinksRemove
    <3>. QED  BY <3>1, <3>2, <3>3
  <2>2. CASE ~klockwait[t]
    <3>1. lockq'[l] = lockq[l]
      BY <2>2 DEF leave_lockq
    <3>2. Waiters(l)' = Waiters(l)
      BY <1>1, <1>3, <2>2 DEF Waiters
    <3>. QED  BY <1>2, <3>1, <3>2
  <2>. QED  BY <2>1, <2>2
<1>5. lockq' \in [Locks -> Seq(Tasks)]
  <2>1. \A l \in Locks : lockq'[l] \in Seq(Tasks)
    BY <1>4 DEF Links
  <2>. QED  BY <1>1, <2>1 DEF leave_lockq
<1>6. LockQueues'
  BY <1>4, <1>5 DEF LockQueues, Links, Waiters
<1>7. LockHolders'
  <2>1. \A u \in Tasks : klocked[u] => inlock'[u] = inlock[u]
    BY <1>3
  <2>2. {inlock'[u] : u \in {v \in Tasks : klocked[v]}} = {inlock[u] : u \in {v \in Tasks : klocked[v]}}
    BY <2>1
  <2>. QED  BY <2>1, <2>2 DEF LockHolders, KernelLockExact
<1>8. LockStates'
  BY <1>1, <1>3 DEF LockStates, KernelLockExact
<1>. QED  BY <1>5, <1>6, <1>7, <1>8 DEF KernelLockExact

\* The first branch of LockOBJ: the lock l is free.
LEMMA TakeLockOK ==
  ASSUME NEW t \in Tasks, NEW l \in Locks, TypeRest, KernelLockExact,
         state[t] = "READY", ~klockwait[t], ~klocked[t], l \notin locked,
         klocked' = [klocked EXCEPT ![t] = TRUE],
         locked' = locked \cup {l},
         inlock' = [inlock EXCEPT ![t] = l],
         UNCHANGED <<lockq, klockwait, state>>
  PROVE  KernelLockExact'
<1>1. /\ klocked \in [Tasks -> BOOLEAN] /\ klockwait \in [Tasks -> BOOLEAN]
      /\ inlock \in [Tasks -> Locks \cup {NULL}]
  BY DEF TypeRest
<1>2. LockHolders'
  <2>1. \A u \in Tasks : klocked[u] => u # t /\ inlock[u] \in locked /\ inlock'[u] = inlock[u]
    BY <1>1 DEF KernelLockExact, LockHolders
  <2>2. \A u \in Tasks : klocked'[u] <=> klocked[u] \/ u = t
    BY <1>1
  <2>3. inlock'[t] = l
    BY <1>1
  <2>4. \A u, v \in Tasks : klocked'[u] /\ klocked'[v] /\ inlock'[u] = inlock'[v] => u = v
    BY <2>1, <2>2, <2>3 DEF KernelLockExact, LockHolders
  <2>5. locked' = {inlock'[u] : u \in {v \in Tasks : klocked'[v]}}
    BY <2>1, <2>2, <2>3 DEF KernelLockExact, LockHolders
  <2>. QED  BY <2>4, <2>5 DEF LockHolders
<1>3. LockQueues'
  <2>1. \A k \in Locks : {u \in Tasks : klockwait'[u] /\ inlock'[u] = k}
                         = {u \in Tasks : klockwait[u] /\ inlock[u] = k}
    BY <1>1
  <2>. QED  BY <2>1 DEF KernelLockExact, LockQueues
<1>4. LockStates'
  BY <1>1 DEF LockStates, KernelLockExact
<1>. QED  BY <1>2, <1>3, <1>4 DEF KernelLockExact

\* The second branch of LockOBJ: t queues for the lock l.
LEMMA AwaitLockOK ==
  ASSUME NEW t \in Tasks, NEW l \in Locks, TypeRest, KernelLockExact,
         state[t] = "READY", ~klockwait[t], ~klocked[t], l \in locked,
         klockwait' = [klockwait EXCEPT ![t] = TRUE],
         lockq' = [leave_lockq(t) EXCEPT ![l] = QueInsert(@, t)],
         inlock' = [inlock EXCEPT ![t] = l],
         UNCHANGED <<locked, klocked, state>>
  PROVE  KernelLockExact' /\ lockq' \in [Locks -> Seq(Tasks)]
<1>1. /\ klocked \in [Tasks -> BOOLEAN] /\ klockwait \in [Tasks -> BOOLEAN]
      /\ inlock \in [Tasks -> Locks \cup {NULL}] /\ lockq \in [Locks -> Seq(Tasks)]
  BY DEF TypeRest
<1>2. \A k \in Locks : Links(lockq[k], Waiters(k))
  BY <1>1, LockQueuesLinks DEF KernelLockExact
<1>3. lockq' = [lockq EXCEPT ![l] = QueInsert(lockq[l], t)]
  BY <1>1 DEF leave_lockq
<1>4. ASSUME NEW k \in Locks PROVE Links(lockq'[k], Waiters(k)')
  <2>1. CASE k = l
    <3>1. lockq'[k] = QueInsert(lockq[l], t)
      BY <1>1, <1>3, <2>1
    <3>2. Waiters(k)' = Waiters(l) \cup {t} /\ t \notin Waiters(l)
      BY <1>1, <2>1 DEF Waiters
    <3>3. Links(QueInsert(lockq[l], t), Waiters(l) \cup {t})
      BY <1>2, <3>2, LinksInsert
    <3>. QED  BY <3>1, <3>2, <3>3
  <2>2. CASE k # l
    <3>1. lockq'[k] = lockq[k]
      BY <1>1, <1>3, <2>2
    <3>2. Waiters(k)' = Waiters(k)
      BY <1>1, <2>2 DEF Waiters
    <3>. QED  BY <1>2, <3>1, <3>2
  <2>. QED  BY <2>1, <2>2
<1>5. lockq' \in [Locks -> Seq(Tasks)]
  <2>1. \A k \in Locks : lockq'[k] \in Seq(Tasks)
    BY <1>4 DEF Links
  <2>. QED  BY <1>1, <1>3, <2>1
<1>6. LockQueues'
  BY <1>4, <1>5 DEF LockQueues, Links, Waiters
<1>7. LockHolders'
  <2>1. \A u \in Tasks : klocked[u] => inlock'[u] = inlock[u]
    BY <1>1
  <2>2. {inlock'[u] : u \in {v \in Tasks : klocked[v]}} = {inlock[u] : u \in {v \in Tasks : klocked[v]}}
    BY <2>1
  <2>. QED  BY <2>1, <2>2 DEF LockHolders, KernelLockExact
<1>8. LockStates'
  BY <1>1 DEF LockStates, KernelLockExact
<1>. QED  BY <1>5, <1>6, <1>7, <1>8 DEF KernelLockExact

\* UnlockOBJ of the lock l that t holds; t stays READY or waits.
LEMMA UnlockLockOK ==
  ASSUME NEW t \in Tasks, NEW l, NEW rq, NEW x, TypeRest, KernelLockExact,
         klocked[t], l = inlock[t], unlock(t, l, rq),
         state' = [state EXCEPT ![t] = x],
         inlock' = [inlock EXCEPT ![t] = NULL]
  PROVE  /\ KernelLockExact' /\ lockq' \in [Locks -> Seq(Tasks)] /\ locked' \in SUBSET Locks
         /\ klocked' \in [Tasks -> BOOLEAN] /\ klockwait' \in [Tasks -> BOOLEAN]
<1>1. /\ klocked \in [Tasks -> BOOLEAN] /\ klockwait \in [Tasks -> BOOLEAN]
      /\ inlock \in [Tasks -> Locks \cup {NULL}] /\ lockq \in [Locks -> Seq(Tasks)]
      /\ state \in [Tasks -> TSTAT] /\ locked \in SUBSET Locks
  BY DEF TypeRest
<1>2. \A k \in Locks : Links(lockq[k], Waiters(k))
  BY <1>1, LockQueuesLinks DEF KernelLockExact
<1>3. l \in locked /\ l \in Locks
  BY <1>1 DEF KernelLockExact, LockHolders
<1>9. ~klockwait[t] /\ \A u \in Tasks : klocked[u] /\ u # t => inlock[u] # l
  BY DEF KernelLockExact, LockHolders, LockStates
<1>4. CASE lockq[l] = <<>>
  <2>1. /\ locked' = locked \ {l} /\ klocked' = [klocked EXCEPT ![t] = FALSE]
        /\ klockwait' = klockwait /\ lockq' = lockq
    BY <1>4 DEF unlock, isQueEmpty
  <2>2. Waiters(l) = {}
    BY <1>2, <1>3, <1>4, LinksEmpty
  <2>3. LockQueues'
    <3>1. \A k \in Locks : Waiters(k)' = Waiters(k)
      BY <1>1, <1>9, <2>1 DEF Waiters
    <3>. QED  BY <2>1, <3>1 DEF KernelLockExact, LockQueues, Waiters
  <2>4. LockHolders'
    <3>1. \A u \in Tasks : klocked'[u] <=> klocked[u] /\ u # t
      BY <1>1, <2>1
    <3>2. \A u \in Tasks : u # t => inlock'[u] = inlock[u]
      BY <1>1
    <3>3. \A u, v \in Tasks : klocked'[u] /\ klocked'[v] /\ inlock'[u] = inlock'[v] => u = v
      BY <3>1, <3>2 DEF KernelLockExact, LockHolders
    <3>4. locked' = {inlock'[u] : u \in {v \in Tasks : klocked'[v]}}
      BY <1>9, <2>1, <3>1, <3>2 DEF KernelLockExact, LockHolders
    <3>. QED  BY <3>3, <3>4 DEF LockHolders
  <2>5. LockStates'
    <3>1. \A u \in Tasks : klockwait[u] => u # t /\ inlock[u] # l
      BY <1>9, <2>2 DEF Waiters
    <3>. QED  BY <1>1, <2>1, <3>1 DEF KernelLockExact, LockStates
  <2>. QED  BY <1>1, <2>1, <2>3, <2>4, <2>5 DEF KernelLockExact
<1>5. CASE lockq[l] # <<>>
  <2>. DEFINE w == QueNext(lockq[l])
  <2>1. /\ locked' = locked /\ klocked' = [klocked EXCEPT ![t] = FALSE, ![w] = TRUE]
        /\ klockwait' = [klockwait EXCEPT ![w] = FALSE]
        /\ lockq' = [lockq EXCEPT ![l] = QueRemoveNext(lockq[l])]
    BY <1>1, <1>3, <1>5 DEF unlock, isQueEmpty
  <2>2. Links(QueRemoveNext(lockq[l]), Waiters(l) \ {w}) /\ w \in Waiters(l)
    BY <1>2, <1>3, <1>5, LinksNext
  <2>. HIDE DEF w
  <2>3. /\ w \in Tasks /\ klockwait[w] /\ inlock[w] = l /\ w # t /\ ~klocked[w]
        /\ state[w] = "READY"
    BY <1>9, <2>2 DEF Waiters, KernelLockExact, LockStates
  <2>4. ASSUME NEW k \in Locks PROVE Links(lockq'[k], Waiters(k)')
    <3>1. CASE k = l
      <4>1. lockq'[k] = QueRemoveNext(lockq[l])
        BY <1>1, <2>1, <3>1
      <4>2. Waiters(k)' = Waiters(l) \ {w}
        BY <1>1, <1>9, <2>1, <2>3, <3>1 DEF Waiters
      <4>. QED  BY <2>2, <4>1, <4>2
    <3>2. CASE k # l
      <4>1. lockq'[k] = lockq[k]
        BY <1>1, <2>1, <3>2
      <4>2. Waiters(k)' = Waiters(k)
        BY <1>1, <1>9, <2>1, <2>3, <3>2 DEF Waiters
      <4>. QED  BY <1>2, <4>1, <4>2
    <3>. QED  BY <3>1, <3>2
  <2>5. lockq' \in [Locks -> Seq(Tasks)]
    <3>1. \A k \in Locks : lockq'[k] \in Seq(Tasks)
      BY <2>4 DEF Links
    <3>. QED  BY <1>1, <2>1, <3>1
  <2>6. LockQueues'
    BY <2>4, <2>5 DEF LockQueues, Links, Waiters
  <2>7. LockHolders'
    <3>1. \A u \in Tasks : klocked'[u] <=> (klocked[u] /\ u # t) \/ u = w
      BY <1>1, <2>1, <2>3
    <3>2. \A u \in Tasks : u # t => inlock'[u] = inlock[u]
      BY <1>1
    <3>3. \A u, v \in Tasks : klocked'[u] /\ klocked'[v] /\ inlock'[u] = inlock'[v] => u = v
      BY <1>9, <2>3, <3>1, <3>2 DEF KernelLockExact, LockHolders
    <3>4. locked' = {inlock'[u] : u \in {v \in Tasks : klocked'[v]}}
      <4>1. ASSUME NEW x1 \in locked
            PROVE  \E u \in Tasks : klocked'[u] /\ inlock'[u] = x1
        <5>1. PICK u \in Tasks : klocked[u] /\ inlock[u] = x1
          BY DEF KernelLockExact, LockHolders
        <5>2. CASE u = t
          BY <2>3, <3>1, <3>2, <5>1, <5>2
        <5>3. CASE u # t
          BY <3>1, <3>2, <5>1, <5>3
        <5>. QED  BY <5>2, <5>3
      <4>2. ASSUME NEW u \in Tasks, klocked'[u] PROVE inlock'[u] \in locked
        BY <1>3, <2>3, <3>1, <3>2, <4>2 DEF KernelLockExact, LockHolders
      <4>. DEFINE kl == klocked'
                  il == inlock'
                  img == {il[u] : u \in {v \in Tasks : kl[v]}}
      <4>3. \A x1 \in img : x1 \in locked
        BY <4>2
      <4>4. \A x1 \in locked : x1 \in img
        BY <4>1
      <4>5. locked = img
        BY <4>3, <4>4
      <4>. QED  BY <2>1, <4>5
    <3>. QED  BY <3>3, <3>4 DEF LockHolders
  <2>8. LockStates'
    BY <1>1, <1>9, <2>1, <2>3 DEF KernelLockExact, LockStates
  <2>. QED  BY <1>1, <2>1, <2>5, <2>6, <2>7, <2>8 DEF KernelLockExact
<1>. QED  BY <1>4, <1>5

-----------------------------------------------------------------------------
(* The inductive invariant: the conjunction of the properties the model    *)
(* checker checks, regrouped by what the lemmas above speak of             *)

Holders == {t \in Tasks : klocked[t]}

SchedInv == SchedOK(ready_queue, schedtsk, Runnable, priority, Holders)

\* The tasks that do not exist or are dormant.
Ended == {t \in Tasks : ~task_alive(state[t])}

\* The task that has disabled dispatching holds no lock, and stays runnable
\* unless an interrupt handler terminates it.
DisabledOK == dispatch_disabled => ctxtsk \in Runnable \cup Ended /\ inlock[ctxtsk] = NULL

IInv == TypeRest /\ SchedInv /\ KernelLockExact /\ DisabledOK /\ SuspendCounted

\* What the invariant says of a single task.
LEMMA TaskFacts ==
  ASSUME IInv, NEW t \in Tasks
  PROVE  /\ Runnable \subseteq Tasks /\ priority \in [Tasks -> Pri]
         /\ klocked[t] \in BOOLEAN /\ klockwait[t] \in BOOLEAN
         /\ t \in Runnable <=> state[t] = "READY" /\ ~klockwait[t]
         /\ klockwait[t] => state[t] = "READY" /\ ~klocked[t]
         /\ klocked[t] => /\ t \in Holders /\ state[t] \in {"READY", "SUSPEND"}
                          /\ inlock[t] \in Locks /\ inlock[t] # NULL
         /\ Running(t) => t \in Runnable \/ EndedDisabled(t)
         /\ Running(t) /\ (~dispatch_disabled \/ klocked[t]) => t \in Runnable
         /\ InTask(t) => t \in Runnable \cup Ended /\ ~klocked[t]
<1>1. /\ Runnable \subseteq Tasks /\ priority \in [Tasks -> Pri]
      /\ klocked[t] \in BOOLEAN /\ klockwait[t] \in BOOLEAN
      /\ t \in Runnable <=> state[t] = "READY" /\ ~klockwait[t]
      /\ klocked[t] => t \in Holders
  BY DEF IInv, TypeRest, Runnable, Holders
<1>2. /\ klockwait[t] => state[t] = "READY" /\ ~klocked[t]
      /\ klocked[t] => state[t] \in {"READY", "SUSPEND"}
  BY DEF IInv, KernelLockExact, LockStates
<1>3. klocked[t] => inlock[t] \in Locks /\ inlock[t] # NULL
  BY ConstantsAssumption DEF IInv, TypeRest, KernelLockExact, LockHolders
<1>4. Running(t) => t \in Runnable \/ EndedDisabled(t)
  <2>1. t # NULL
    BY ConstantsAssumption
  <2>. QED  BY <2>1 DEF Running, IInv, SchedInv, SchedOK, DisabledOK, Ended, EndedDisabled
<1>5. EndedDisabled(t) => dispatch_disabled /\ ~klocked[t] /\ t \in Ended
  BY <1>2 DEF EndedDisabled, task_alive, Ended
<1>. QED  BY <1>1, <1>2, <1>3, <1>4, <1>5 DEF InTask

\* SchedOK only looks at the priorities of the runnable tasks.
LEMMA SchedPriorities ==
  ASSUME NEW rq, NEW s, NEW R, NEW pri, NEW pri2, NEW K, SchedOK(rq, s, R, pri, K),
         \A t \in R : pri[t] = pri2[t]
  PROVE  SchedOK(rq, s, R, pri2, K)
<1>1. RQOK(rq, R, pri2)
  BY PrioritiesAgree DEF SchedOK
<1>. QED  BY <1>1 DEF SchedOK

\* A task becomes READY: it starts, is resumed, or its wait ends.
LEMMA BecomeReady ==
  ASSUME IInv, NEW t \in Tasks, NEW e \in BOOLEAN, state[t] # "READY", make_ready(t, e),
         UNCHANGED <<priority, klocked, klockwait, lockq, locked, inlock, ctxtsk,
                     dispatch_disabled>>
  PROVE  SchedInv' /\ KernelLockExact' /\ DisabledOK'
<1>1. state' = [state EXCEPT ![t] = "READY"] /\ state \in [Tasks -> TSTAT]
  BY DEF make_ready, IInv, TypeRest
<1>2. Runnable' = Runnable \cup {t} /\ t \notin Runnable /\ Holders' = Holders
  BY <1>1, TaskFacts DEF Runnable, Holders
<1>3. SchedOK(ready_queue, schedtsk, Runnable, priority, Holders)
  BY DEF IInv, SchedInv
<1>4. SchedOK(ready_queue', schedtsk', Runnable \cup {t}, priority, Holders)
  BY <1>2, <1>3, TaskFacts, MakeReadyOK
<1>5. SchedInv'
  BY <1>2, <1>4 DEF SchedInv
<1>6. KernelLockExact'
  <2>1. LockHolders'
    BY DEF IInv, KernelLockExact, LockHolders
  <2>2. LockQueues'
    BY DEF IInv, KernelLockExact, LockQueues
  <2>3. LockStates'
    BY <1>1 DEF IInv, KernelLockExact, LockStates
  <2>. QED  BY <2>1, <2>2, <2>3 DEF KernelLockExact
<1>7. DisabledOK'
  <2>1. Ended \ {t} \subseteq Ended'
    BY <1>1 DEF Ended
  <2>. QED  BY <1>2, <2>1 DEF IInv, DisabledOK
<1>. QED  BY <1>5, <1>6, <1>7

\* A task that is not READY goes to another such state.
LEMMA StayUnready ==
  ASSUME IInv, NEW t \in Tasks, NEW x, state[t] # "READY", x # "READY",
         state' = [state EXCEPT ![t] = x], klocked[t] => x = "SUSPEND",
         priority' \in [Tasks -> Pri], \A u \in Tasks : u # t => priority'[u] = priority[u],
         inlock' \in {inlock, [inlock EXCEPT ![t] = NULL]},
         klocked[t] => inlock' = inlock,
         task_alive(x) => task_alive(state[t]),
         dispatch_disabled' => dispatch_disabled /\ ctxtsk' = ctxtsk,
         UNCHANGED <<klocked, klockwait, lockq, locked, ready_queue, schedtsk>>
  PROVE  SchedInv' /\ KernelLockExact' /\ DisabledOK'
<1>1. /\ state \in [Tasks -> TSTAT] /\ klockwait \in [Tasks -> BOOLEAN] /\ TypeRest
      /\ inlock \in [Tasks -> Locks \cup {NULL}]
  BY DEF IInv, TypeRest
<1>2. Runnable' = Runnable /\ t \notin Runnable /\ Holders' = Holders /\ ~klockwait[t]
  BY <1>1, TaskFacts DEF Runnable, Holders
<1>3. SchedInv'
  <2>1. SchedOK(ready_queue, schedtsk, Runnable, priority, Holders)
    BY DEF IInv, SchedInv
  <2>2. \A u \in Runnable : priority[u] = priority'[u]
    BY <1>2 DEF Runnable
  <2>3. SchedOK(ready_queue, schedtsk, Runnable, priority', Holders)
    BY <2>1, <2>2, SchedPriorities
  <2>. QED  BY <1>2, <2>3 DEF SchedInv
<1>4. KernelLockExact'
  <2>1. klockwait' = [klockwait EXCEPT ![t] = FALSE] /\ lockq' = leave_lockq(t)
    BY <1>1, <1>2 DEF leave_lockq
  <2>2. klocked[t] => x \in {"READY", "SUSPEND"} /\ inlock' = inlock
    OBVIOUS
  <2>3. KernelLockExact
    BY DEF IInv
  <2>. QED  BY <1>1, <2>1, <2>2, <2>3, LeaveLockOK
<1>5. DisabledOK'
  <2>1. SUFFICES ASSUME dispatch_disabled'
                 PROVE ctxtsk' \in Runnable' \cup Ended' /\ inlock'[ctxtsk'] = NULL
    BY DEF DisabledOK
  <2>2. /\ ctxtsk \in Runnable \cup Ended /\ inlock[ctxtsk] = NULL /\ ctxtsk \in Tasks
        /\ ctxtsk' = ctxtsk
    BY <2>1 DEF IInv, DisabledOK, Runnable, Ended
  <2>3. Ended \subseteq Ended'
    BY <1>1 DEF Ended
  <2>. QED  BY <1>1, <1>2, <2>2, <2>3
<1>. QED  BY <1>3, <1>4, <1>5

\* A READY task leaves the ready queue, or the queue of a kernel lock.
LEMMA LeaveReady ==
  ASSUME IInv, NEW t \in Tasks, NEW x, state[t] = "READY", x # "READY", make_non_ready(t),
         state' = [state EXCEPT ![t] = x], klocked[t] => x = "SUSPEND",
         klockwait' = [klockwait EXCEPT ![t] = FALSE],
         priority' \in [Tasks -> Pri], \A u \in Tasks : u # t => priority'[u] = priority[u],
         inlock' \in {inlock, [inlock EXCEPT ![t] = NULL]},
         klocked[t] => inlock' = inlock,
         dispatch_disabled' => /\ dispatch_disabled /\ ctxtsk' = ctxtsk
                               /\ t = ctxtsk => ~task_alive(x),
         UNCHANGED <<klocked, locked>>
  PROVE  SchedInv' /\ KernelLockExact' /\ DisabledOK' /\ lockq' \in [Locks -> Seq(Tasks)]
<1>1. /\ state \in [Tasks -> TSTAT] /\ klockwait \in [Tasks -> BOOLEAN] /\ TypeRest
      /\ inlock \in [Tasks -> Locks \cup {NULL}]
  BY DEF IInv, TypeRest
<1>2. Runnable' = Runnable \ {t} /\ Holders' = Holders
  BY <1>1 DEF Runnable, Holders
<1>3. SchedInv'
  <2>1. SchedOK(ready_queue, schedtsk, Runnable, priority, Holders)
    BY DEF IInv, SchedInv
  <2>2. SchedOK(ready_queue', schedtsk', Runnable \ {t}, priority, Holders)
    BY <2>1, TaskFacts, MakeNonReadyOK
  <2>3. \A u \in Runnable \ {t} : priority[u] = priority'[u]
    BY DEF Runnable
  <2>4. SchedOK(ready_queue', schedtsk', Runnable \ {t}, priority', Holders)
    BY <2>2, <2>3, SchedPriorities
  <2>. QED  BY <1>2, <2>4 DEF SchedInv
<1>4. KernelLockExact' /\ lockq' \in [Locks -> Seq(Tasks)]
  <2>1. lockq' = leave_lockq(t)
    BY DEF make_non_ready
  <2>2. klocked[t] => x \in {"READY", "SUSPEND"} /\ inlock' = inlock
    OBVIOUS
  <2>3. KernelLockExact
    BY DEF IInv
  <2>. QED  BY <1>1, <2>1, <2>2, <2>3, LeaveLockOK
<1>5. DisabledOK'
  <2>1. SUFFICES ASSUME dispatch_disabled'
                 PROVE ctxtsk' \in Runnable' \cup Ended' /\ inlock'[ctxtsk'] = NULL
    BY DEF DisabledOK
  <2>2. /\ ctxtsk \in Runnable \cup Ended /\ inlock[ctxtsk] = NULL /\ ctxtsk \in Tasks
        /\ ctxtsk' = ctxtsk
    BY <2>1 DEF IInv, DisabledOK, Runnable, Ended
  <2>3. Ended \ {t} \subseteq Ended' /\ (t = ctxtsk => t \in Ended')
    BY <1>1, <2>1 DEF Ended
  <2>. QED  BY <1>1, <1>2, <2>2, <2>3
<1>. QED  BY <1>3, <1>4, <1>5

\* UnlockOBJ leaves a right choice, with or without a hand-over.  R is the set
\* of the tasks that rq holds when unlock begins.
LEMMA UnlockSchedOK ==
  ASSUME IInv, NEW t \in Tasks, NEW l, NEW rq, NEW R, NEW x,
         R = {u \in Tasks : state'[u] = "READY" /\ ~klockwait[u]},
         RQOK(rq, R, priority), klocked[t], l = inlock[t], unlock(t, l, rq),
         state' = [state EXCEPT ![t] = x], UNCHANGED priority
  PROVE  SchedInv'
<1>. DEFINE rq0 == set_klocktsk(rq, NULL)
            w == QueNext(lockq[l])
<1>1. /\ klocked \in [Tasks -> BOOLEAN] /\ klockwait \in [Tasks -> BOOLEAN]
      /\ lockq \in [Locks -> Seq(Tasks)] /\ state \in [Tasks -> TSTAT]
      /\ priority \in [Tasks -> Pri] /\ R \subseteq Tasks
  BY DEF IInv, TypeRest
<1>2. l \in Locks /\ ~klockwait[t]
  BY TaskFacts
<1>3. RQOK(rq0, R, priority) /\ rq0.klocktsk = NULL
  BY SetKlocktskOK
<1>. HIDE DEF rq0
<1>4. CASE lockq[l] = <<>>
  <2>1. ready_queue' = rq0 /\ schedtsk' = ready_queue_top(rq0) /\ klockwait' = klockwait
    BY <1>4 DEF unlock, isQueEmpty, rq0
  <2>2. Runnable' = R
    BY <2>1 DEF Runnable
  <2>3. SchedOK(rq0, ready_queue_top(rq0), R, priority, Holders')
    BY <1>1, <1>3, ReadyTopOK
  <2>. QED  BY <2>1, <2>2, <2>3 DEF SchedInv
<1>5. CASE lockq[l] # <<>>
  <2>. DEFINE rq1 == ready_queue_insert_top(rq0, w, priority[w], TRUE)
  <2>1. /\ ready_queue' = rq1 /\ schedtsk' = ready_queue_top(rq1)
        /\ klocked' = [klocked EXCEPT ![t] = FALSE, ![w] = TRUE]
        /\ klockwait' = [klockwait EXCEPT ![w] = FALSE]
    BY <1>5 DEF unlock, isQueEmpty, rq0
  <2>2. Links(lockq[l], Waiters(l))
    BY <1>1, <1>2, LockQueuesLinks DEF IInv, KernelLockExact
  <2>3. w \in Waiters(l)
    BY <1>5, <2>2, LinksNext
  <2>. HIDE DEF w
  <2>4. w \in Tasks /\ klockwait[w]
    BY <2>3 DEF Waiters
  <2>5. state[w] = "READY" /\ w # t
    BY <1>2, <2>4, TaskFacts
  <2>6. w \notin R /\ Runnable' = R \cup {w} /\ w \in Holders'
    BY <1>1, <2>1, <2>4, <2>5 DEF Runnable, Holders
  <2>7. RQOK(rq1, R \cup {w}, priority) /\ rq1.klocktsk = w
    <3>1. Inserted(rq1, rq0, R, w, priority, TRUE)
      BY <1>1, <1>3, <2>4, <2>6, InsertOK
    <3>. QED  BY <3>1 DEF Inserted
  <2>. HIDE DEF rq1
  <2>8. R \cup {w} \subseteq Tasks /\ w \in R \cup {w}
    BY <1>1, <2>4
  <2>9. SchedOK(rq1, ready_queue_top(rq1), R \cup {w}, priority, Holders')
    BY <1>1, <2>6, <2>7, <2>8, ReadyTopOK
  <2>. QED  BY <2>1, <2>6, <2>9 DEF SchedInv
<1>. QED  BY <1>4, <1>5

-----------------------------------------------------------------------------
(* Every action keeps the invariant                                        *)

\* The state that task_initialize leaves
LEMMA InitOK == Init => IInv
<1>. SUFFICES ASSUME Init PROVE IInv
  OBVIOUS
<1>1. <<>> \in Seq(Tasks) /\ ToSet(<<>>) = {} /\ IsInjective(<<>>)
  BY DEF ToSet, IsInjective
<1>2. NUM_PRI \in Nat \ {0} /\ MaxCount \in Nat \ {0}
  BY ConstantsAssumption
<1>3. TypeRest
  <2>1. 0 \in Pri /\ 0 \in 0..MaxCount /\ "NONEXIST" \in TSTAT
    BY <1>2 DEF Pri, TSTAT
  <2>. QED  BY <1>1, <2>1 DEF Init, TypeRest
<1>4. Runnable = {} /\ Holders = {}
  BY DEF Init, Runnable, Holders
<1>5. SchedInv
  <2>1. /\ ready_queue \in RDYQUE /\ ready_queue.klocktsk = NULL
        /\ ready_queue.tskque = [p \in Pri |-> <<>>] /\ ready_queue.bitmap = {}
        /\ ready_queue.top_priority = NUM_PRI
    BY <1>1, <1>2 DEF Init, RDYQUE
  <2>2. QueuesExact(ready_queue, Runnable, priority)
    BY <1>1, <1>4, <2>1 DEF QueuesExact
  <2>3. IndexExact(ready_queue)
    BY <2>1 DEF IndexExact
  <2>4. schedtsk = NULL
    BY DEF Init
  <2>. QED  BY <1>4, <2>1, <2>2, <2>3, <2>4 DEF SchedInv, SchedOK, RQOK, top_of_queues
<1>6. KernelLockExact
  <2>1. LockHolders
    BY DEF Init, LockHolders
  <2>2. LockQueues
    BY <1>1 DEF Init, LockQueues
  <2>3. LockStates
    BY DEF Init, LockStates
  <2>. QED  BY <2>1, <2>2, <2>3 DEF KernelLockExact
<1>7. DisabledOK /\ SuspendCounted
  BY DEF Init, DisabledOK, SuspendCounted
<1>. QED  BY <1>3, <1>5, <1>6, <1>7 DEF IInv

\* make_dormant of a task without a kernel lock
LEMMA MakeDormant ==
  ASSUME IInv, NEW t \in Tasks, NEW ipri \in Pri, ~klocked[t], make_dormant(t, ipri)
  PROVE  /\ state' = [state EXCEPT ![t] = "DORMANT"]
         /\ priority' \in [Tasks -> Pri] /\ \A u \in Tasks : u # t => priority'[u] = priority[u]
         /\ klockwait' = [klockwait EXCEPT ![t] = FALSE]
         /\ klocked' = klocked
         /\ state' \in [Tasks -> TSTAT] /\ ipriority' \in [Tasks -> Pri]
         /\ suscnt' \in [Tasks -> 0..MaxCount] /\ slicetime' \in [Tasks -> SliceTimes \cup {0}]
         /\ klockwait' \in [Tasks -> BOOLEAN]
         /\ SuspendCounted'
<1>1. MaxCount \in Nat
  BY ConstantsAssumption
<1>2. SuspendCounted'
  BY DEF make_dormant, IInv, TypeRest, SuspendCounted
<1>. QED  BY <1>1, <1>2 DEF make_dormant, IInv, TypeRest, TSTAT

\* A task that holds no kernel lock leaves the scheduler, from whatever state.
LEMMA EndOK ==
  ASSUME IInv, NEW t \in Tasks, NEW x, ~klocked[t], ter_tsk(t), ~task_alive(x),
         state' = [state EXCEPT ![t] = x],
         klockwait' = [klockwait EXCEPT ![t] = FALSE],
         priority' \in [Tasks -> Pri], \A u \in Tasks : u # t => priority'[u] = priority[u],
         inlock' \in {inlock, [inlock EXCEPT ![t] = NULL]},
         dispatch_disabled' => dispatch_disabled /\ ctxtsk' = ctxtsk,
         UNCHANGED <<klocked, locked>>
  PROVE  SchedInv' /\ KernelLockExact' /\ DisabledOK' /\ lockq' \in [Locks -> Seq(Tasks)]
<1>1. x # "READY"
  BY DEF task_alive
<1>2. CASE state[t] = "READY"
  <2>1. make_non_ready(t)
    BY <1>2 DEF ter_tsk
  <2>. QED  BY <1>1, <1>2, <2>1, LeaveReady
<1>3. CASE state[t] # "READY"
  <2>1. UNCHANGED <<ready_queue, lockq, schedtsk>>
    BY <1>3 DEF ter_tsk
  <2>2. klockwait' = klockwait
    BY <1>3, TaskFacts DEF IInv, TypeRest
  <2>3. lockq' \in [Locks -> Seq(Tasks)]
    BY <2>1 DEF IInv, TypeRest
  <2>. QED  BY <1>1, <1>3, <2>1, <2>2, <2>3, StayUnready
<1>. QED  BY <1>2, <1>3

\* _ter_tsk and make_dormant, which tk_ext_tsk and tk_ter_tsk have in common.
LEMMA TerminateOK ==
  ASSUME IInv, NEW t \in Tasks, ~klocked[t], ter_tsk(t), make_dormant(t, ipriority[t]),
         ipriority[t] \in Pri, inlock' \in {inlock, [inlock EXCEPT ![t] = NULL]},
         dispatch_disabled' => dispatch_disabled /\ ctxtsk' = ctxtsk, UNCHANGED locked
  PROVE  SchedInv' /\ KernelLockExact' /\ DisabledOK' /\ lockq' \in [Locks -> Seq(Tasks)]
BY MakeDormant, EndOK DEF task_alive

\* One step of CreTsk
LEMMA CreTskOK == ASSUME IInv, NEW t \in Tasks, NEW p \in Pri, CreTsk(t, p) PROVE IInv'
<1>1. state[t] = "NONEXIST" /\ make_dormant(t, p)
  BY DEF CreTsk
<1>2. UNCHANGED <<ready_queue, lockq, locked, inlock, ctxtsk, schedtsk, dispatch_disabled>>
  BY DEF CreTsk
<1>3. ~klocked[t] /\ ~klockwait[t] /\ klockwait \in [Tasks -> BOOLEAN]
  BY <1>1, TaskFacts DEF IInv, TypeRest
<1>4. SchedInv' /\ KernelLockExact' /\ DisabledOK'
  <2>1. klockwait' = klockwait
    BY <1>1, <1>3, MakeDormant
  <2>. QED  BY <1>1, <1>2, <1>3, <2>1, MakeDormant, StayUnready DEF task_alive
<1>5. TypeRest'
  BY <1>1, <1>2, <1>3, MakeDormant DEF IInv, TypeRest
<1>. QED  BY <1>1, <1>3, <1>4, <1>5, MakeDormant DEF IInv

\* One step of DelTsk
LEMMA DelTskOK == ASSUME IInv, NEW t \in Tasks, DelTsk(t) PROVE IInv'
<1>1. TypeRest'
  BY DEF DelTsk, IInv, TypeRest, TSTAT
<1>2. SuspendCounted'
  BY DEF DelTsk, IInv, TypeRest, SuspendCounted
<1>3. ~klocked[t]
  BY TaskFacts DEF DelTsk
<1>4. SchedInv' /\ KernelLockExact' /\ DisabledOK'
  BY <1>1, <1>3, StayUnready DEF DelTsk, TypeRest, task_alive
<1>. QED  BY <1>1, <1>2, <1>4 DEF IInv

\* One step of StaTsk
LEMMA StaTskOK == ASSUME IInv, NEW t \in Tasks, NEW e \in BOOLEAN, StaTsk(t, e) PROVE IInv'
<1>0. state' = [state EXCEPT ![t] = "READY"]
  BY DEF StaTsk, make_ready
<1>1. TypeRest'
  BY <1>0 DEF StaTsk, IInv, TypeRest, TSTAT
<1>2. SuspendCounted'
  BY <1>0 DEF StaTsk, IInv, TypeRest, SuspendCounted
<1>4. SchedInv' /\ KernelLockExact' /\ DisabledOK'
  BY BecomeReady DEF StaTsk
<1>. QED  BY <1>1, <1>2, <1>4 DEF IInv

\* One step of ExtTsk
LEMMA ExtTskOK == ASSUME IInv, NEW t \in Tasks, ExtTsk(t) PROVE IInv'
<1>1. /\ ~klocked[t] /\ make_dormant(t, ipriority[t]) /\ ipriority[t] \in Pri
      /\ ter_tsk(t)
      /\ UNCHANGED <<locked, inlock>> /\ ~dispatch_disabled' /\ ctxtsk' = NULL
      /\ dispatch_disabled' \in BOOLEAN
  BY TaskFacts DEF ExtTsk, IInv, TypeRest
<1>2. SchedInv' /\ KernelLockExact' /\ DisabledOK' /\ lockq' \in [Locks -> Seq(Tasks)]
  BY <1>1, TerminateOK
<1>3. TypeRest'
  BY <1>1, <1>2, MakeDormant DEF IInv, TypeRest
<1>. QED  BY <1>1, <1>2, <1>3, MakeDormant DEF IInv

\* One step of ExdTsk
LEMMA ExdTskOK == ASSUME IInv, NEW t \in Tasks, ExdTsk(t) PROVE IInv'
<1>1. ~klocked[t] /\ ter_tsk(t) /\ state[t] \in {"READY", "NONEXIST", "DORMANT"}
  BY TaskFacts DEF ExdTsk, Ended, task_alive, IInv, TypeRest, TSTAT
<1>2. /\ ~dispatch_disabled' /\ dispatch_disabled' \in BOOLEAN
      /\ state' = [state EXCEPT ![t] = "NONEXIST"]
      /\ priority' \in [Tasks -> Pri]
      /\ klockwait' = [klockwait EXCEPT ![t] = FALSE]
      /\ UNCHANGED <<ipriority, priority, suscnt, slicetime, klocked, locked, inlock>>
  BY DEF ExdTsk, IInv, TypeRest
<1>3. SchedInv' /\ KernelLockExact' /\ DisabledOK' /\ lockq' \in [Locks -> Seq(Tasks)]
  BY <1>1, <1>2, EndOK DEF task_alive
<1>4. TypeRest'
  BY <1>2, <1>3 DEF ExdTsk, IInv, TypeRest, TSTAT
<1>5. SuspendCounted'
  BY <1>1, <1>2 DEF IInv, TypeRest, SuspendCounted
<1>. QED  BY <1>3, <1>4, <1>5 DEF IInv

\* One step of TerTsk
LEMMA TerTskOK == ASSUME IInv, NEW t \in Tasks, TerTsk(t) PROVE IInv'
<1>1. /\ ~klocked[t] /\ make_dormant(t, ipriority[t]) /\ ipriority[t] \in Pri
      /\ ter_tsk(t) /\ UNCHANGED <<locked, ctxtsk, dispatch_disabled>>
      /\ inlock' = [inlock EXCEPT ![t] = NULL]
  BY DEF TerTsk, IInv, TypeRest
<1>2. SchedInv' /\ KernelLockExact' /\ DisabledOK' /\ lockq' \in [Locks -> Seq(Tasks)]
  BY <1>1, TerminateOK
<1>3. TypeRest'
  BY <1>1, <1>2, MakeDormant DEF IInv, TypeRest
<1>. QED  BY <1>1, <1>2, <1>3, MakeDormant DEF IInv

\* One step of ChgPri
LEMMA ChgPriOK ==
  ASSUME IInv, NEW t \in Tasks, NEW pri \in Pri, NEW e \in BOOLEAN, ChgPri(t, pri, e)
  PROVE  IInv'
<1>1. /\ priority' = [priority EXCEPT ![t] = pri] /\ priority \in [Tasks -> Pri]
      /\ priority' \in [Tasks -> Pri] /\ priority'[t] = pri
      /\ \A u \in Tasks : u # t => priority'[u] = priority[u]
      /\ klockwait \in [Tasks -> BOOLEAN] /\ state \in [Tasks -> TSTAT] /\ TypeRest
  BY DEF ChgPri, change_task_priority, IInv, TypeRest
<1>2. UNCHANGED <<state, ipriority, suscnt, slicetime, klocked, locked, inlock, ctxtsk,
                  dispatch_disabled>>
  BY DEF ChgPri
<1>3. CASE state[t] # "READY"
  <2>1. UNCHANGED <<ready_queue, schedtsk, lockq, klockwait>>
    BY <1>3 DEF ChgPri, change_task_priority
  <2>2. state' = [state EXCEPT ![t] = state[t]]
    BY <1>1, <1>2
  <2>3. klocked[t] => state[t] = "SUSPEND"
    BY <1>3, TaskFacts
  <2>4. SchedInv' /\ KernelLockExact' /\ DisabledOK'
    BY <1>1, <1>2, <1>3, <2>1, <2>2, <2>3, StayUnready
  <2>5. TypeRest' /\ SuspendCounted'
    BY <1>1, <1>2, <2>1 DEF IInv, TypeRest, SuspendCounted
  <2>. QED  BY <2>4, <2>5 DEF IInv
<1>4. CASE state[t] = "READY"
  <2>. DEFINE out == ready_queue_delete(ready_queue, t, priority[t], klockwait[t])
              in == ready_queue_insert(out, t, pri, klocked[t])
              R == Runnable \ {t}
              R2 == R \cup {t}
  <2>1. /\ reschedule(in, priority', e) /\ lockq' = leave_lockq(t)
        /\ klockwait' = [klockwait EXCEPT ![t] = FALSE]
    BY <1>4 DEF ChgPri, change_task_priority
  <2>2. SchedOK(ready_queue, schedtsk, Runnable, priority, Holders)
    BY DEF IInv, SchedInv
  <2>3. /\ RQOK(out, R, priority)
        /\ out.klocktsk # NULL => out.klocktsk \in R /\ out.klocktsk \in Holders
    <3>1. CASE klockwait[t]
      <4>1. t \notin Runnable /\ R = Runnable
        BY <3>1 DEF Runnable
      <4>2. RQOK(ready_queue, Runnable, priority) /\ ready_queue.klocktsk # t
        BY <2>2, <4>1, ConstantsAssumption DEF SchedOK
      <4>3. out = ready_queue
        BY <3>1, <4>2, DeleteWaiterOK
      <4>. QED  BY <2>2, <4>1, <4>3 DEF SchedOK
    <3>2. CASE ~klockwait[t]
      <4>1. t \in Runnable /\ Runnable \subseteq Tasks
        BY <1>4, <3>2 DEF Runnable
      <4>2. RQOK(ready_queue, Runnable, priority)
        BY <2>2 DEF SchedOK
      <4>3. out = ready_queue_delete(ready_queue, t, priority[t], FALSE)
        BY <1>1, <3>2
      <4>4. Deleted(out, ready_queue, Runnable, t, priority)
        BY <1>1, <4>1, <4>2, <4>3, DeleteOK
      <4>. QED  BY <2>2, <4>4 DEF Deleted, SchedOK
    <3>. QED  BY <3>1, <3>2
  <2>4. R \subseteq Tasks /\ t \notin R /\ R2 \subseteq Tasks
    BY DEF Runnable
  <2>5. PICK np : np = priority'
    OBVIOUS
  <2>6. /\ np \in [Tasks -> Pri] /\ np[t] = pri
        /\ \A u \in R : priority[u] = np[u]
    BY <1>1, <2>5 DEF Runnable
  <2>7. Runnable' = R2 /\ Holders' = Holders
    BY <1>1, <1>2, <1>4, <2>1 DEF Runnable, Holders
  <2>8. /\ klocked[t] \in BOOLEAN /\ (klocked[t] => t \in Holders)
        /\ schedtsk # NULL => schedtsk \in R2
    BY <2>2, TaskFacts DEF SchedOK
  <2>. HIDE DEF out, R
  <2>9. RQOK(out, R, np)
    BY <2>3, <2>6, PrioritiesAgree
  <2>10. Inserted(in, out, R, t, np, klocked[t])
    <3>1. in = ready_queue_insert(out, t, np[t], klocked[t])
      BY <2>6
    <3>. HIDE DEF in
    <3>. QED  BY <2>4, <2>6, <2>8, <2>9, <3>1, InsertOK
  <2>11. RQOK(in, R2, np) /\ (in.klocktsk # NULL => in.klocktsk \in R2 /\ in.klocktsk \in Holders)
    BY <2>3, <2>8, <2>10 DEF Inserted
  <2>. HIDE DEF in, R2
  <2>12. SchedOK(ready_queue', schedtsk', R2, np, Holders)
    <3>1. reschedule(in, np, e)
      BY <2>1, <2>5 DEF reschedule
    <3>. QED  BY <2>4, <2>6, <2>8, <2>11, <3>1, RescheduleOK
  <2>13. SchedInv'
    BY <2>5, <2>7, <2>12 DEF SchedInv
  <2>14. KernelLockExact' /\ lockq' \in [Locks -> Seq(Tasks)]
    <3>1. state' = [state EXCEPT ![t] = "READY"]
      BY <1>1, <1>2, <1>4
    <3>2. klocked[t] => "READY" \in {"READY", "SUSPEND"} /\ inlock' = inlock
      BY <1>2
    <3>3. KernelLockExact
      BY DEF IInv
    <3>. QED  BY <1>1, <1>2, <2>1, <3>1, <3>2, <3>3, LeaveLockOK
  <2>15. DisabledOK'
    BY <1>2, <2>7 DEF IInv, DisabledOK, R2, R, Ended
  <2>16. TypeRest' /\ SuspendCounted'
    BY <1>1, <1>2, <2>1, <2>14 DEF IInv, TypeRest, SuspendCounted
  <2>. QED  BY <2>13, <2>14, <2>15, <2>16 DEF IInv
<1>. QED  BY <1>3, <1>4

\* One step of RotRdq
LEMMA RotRdqOK == ASSUME IInv, NEW p \in Pri, NEW e \in BOOLEAN, RotRdq(p, e) PROVE IInv'
<1>. DEFINE rq == ready_queue_rotate(ready_queue, p)
<1>1. /\ reschedule(rq, priority, e) /\ priority \in [Tasks -> Pri]
      /\ UNCHANGED <<state, ipriority, priority, suscnt, slicetime, klocked, klockwait, lockq,
                     locked, inlock, ctxtsk, dispatch_disabled>>
  BY DEF RotRdq, rotate_ready_queue, tcb, IInv, TypeRest
<1>2. SchedOK(ready_queue, schedtsk, Runnable, priority, Holders) /\ Runnable \subseteq Tasks
  BY DEF IInv, SchedInv, Runnable
<1>3. RQOK(rq, Runnable, priority) /\ rq.klocktsk = ready_queue.klocktsk
  BY <1>1, <1>2, RotateOK DEF SchedOK
<1>. HIDE DEF rq
<1>4. SchedOK(ready_queue', schedtsk', Runnable, priority, Holders)
  <2>1. /\ rq.klocktsk # NULL => rq.klocktsk \in Runnable /\ rq.klocktsk \in Holders
        /\ schedtsk # NULL => schedtsk \in Runnable
    BY <1>2, <1>3 DEF SchedOK
  <2>. QED  BY <1>1, <1>2, <1>3, <2>1, RescheduleOK
<1>5. Runnable' = Runnable /\ Holders' = Holders
  BY <1>1 DEF Runnable, Holders
<1>6. SchedInv' /\ DisabledOK'
  BY <1>1, <1>4, <1>5 DEF SchedInv, DisabledOK, Ended, IInv
<1>7. TypeRest' /\ SuspendCounted'
  BY <1>1 DEF IInv, TypeRest, SuspendCounted
<1>8. KernelLockExact'
  BY <1>1 DEF IInv, KernelLockExact, LockHolders, LockQueues, LockStates
<1>. QED  BY <1>6, <1>7, <1>8 DEF IInv

\* One step of ChgSlt
LEMMA ChgSltOK == ASSUME IInv, NEW t \in Tasks, NEW slt \in SliceTimes, ChgSlt(t, slt) PROVE IInv'
<1>1. /\ slicetime' = [slicetime EXCEPT ![t] = slt]
      /\ UNCHANGED <<state, ipriority, priority, suscnt, klocked, klockwait, ready_queue, lockq,
                     locked, inlock, ctxtsk, schedtsk, dispatch_disabled>>
  BY DEF ChgSlt
<1>2. Runnable' = Runnable /\ Holders' = Holders
  BY <1>1 DEF Runnable, Holders
<1>3. SchedInv' /\ DisabledOK'
  BY <1>1, <1>2 DEF SchedInv, DisabledOK, Ended, IInv
<1>4. TypeRest' /\ SuspendCounted'
  BY <1>1 DEF IInv, TypeRest, SuspendCounted
<1>5. KernelLockExact'
  BY <1>1 DEF IInv, KernelLockExact, LockHolders, LockQueues, LockStates
<1>. QED  BY <1>3, <1>4, <1>5 DEF IInv

\* One step of SusTsk
LEMMA SusTskOK == ASSUME IInv, NEW t \in Tasks, SusTsk(t) PROVE IInv'
<1>1. /\ suscnt' = [suscnt EXCEPT ![t] = suscnt[t] + 1] /\ suscnt[t] < MaxCount
      /\ ~(t = ctxtsk /\ dispatch_disabled) /\ task_alive(state[t])
      /\ UNCHANGED <<ipriority, priority, slicetime, klocked, locked, inlock, ctxtsk,
                     dispatch_disabled>>
      /\ priority' \in [Tasks -> Pri]
  BY DEF SusTsk, sus_allowed, IInv, TypeRest
<1>2. suscnt[t] \in 0..MaxCount /\ suscnt' \in [Tasks -> 0..MaxCount] /\ suscnt'[t] > 0
      /\ \A u \in Tasks : u # t => suscnt'[u] = suscnt[u]
  BY <1>1, ConstantsAssumption DEF IInv, TypeRest
<1>3. CASE state[t] = "READY"
  <2>1. /\ make_non_ready(t) /\ state' = [state EXCEPT ![t] = "SUSPEND"]
        /\ klockwait' = [klockwait EXCEPT ![t] = FALSE]
    BY <1>3 DEF SusTsk
  <2>2. SchedInv' /\ KernelLockExact' /\ DisabledOK' /\ lockq' \in [Locks -> Seq(Tasks)]
    BY <1>1, <1>3, <2>1, LeaveReady
  <2>3. TypeRest'
    BY <1>1, <1>2, <2>1, <2>2 DEF IInv, TypeRest, TSTAT
  <2>4. SuspendCounted'
    BY <1>2, <2>1 DEF IInv, TypeRest, SuspendCounted
  <2>. QED  BY <2>2, <2>3, <2>4 DEF IInv
<1>4. CASE state[t] # "READY"
  <2>. DEFINE x == IF state[t] = "WAIT" THEN "WAITSUS" ELSE state[t]
  <2>1. /\ state' = [state EXCEPT ![t] = x]
        /\ UNCHANGED <<klockwait, ready_queue, lockq, schedtsk>>
    BY <1>4 DEF SusTsk
  <2>2. x # "READY" /\ (klocked[t] => x = "SUSPEND") /\ x \in {"SUSPEND", "WAITSUS"}
    BY <1>1, <1>4, TaskFacts DEF task_alive
  <2>. HIDE DEF x
  <2>3. SchedInv' /\ KernelLockExact' /\ DisabledOK'
    BY <1>1, <1>4, <2>1, <2>2, StayUnready
  <2>4. TypeRest'
    BY <1>1, <1>2, <2>1, <2>2 DEF IInv, TypeRest, TSTAT
  <2>5. SuspendCounted'
    BY <1>2, <2>1, <2>2 DEF IInv, TypeRest, SuspendCounted
  <2>. QED  BY <2>3, <2>4, <2>5 DEF IInv
<1>. QED  BY <1>3, <1>4

\* The common body of tk_rsm_tsk and tk_frsm_tsk
LEMMA ResumeOK ==
  ASSUME IInv, NEW t \in Tasks, NEW cnt \in 0..MaxCount, NEW e \in BOOLEAN,
         state[t] \in {"SUSPEND", "WAITSUS"}, resume(t, cnt, e),
         UNCHANGED <<ipriority, priority, slicetime, klocked, klockwait, lockq, locked, inlock,
                     ctxtsk, dispatch_disabled>>
  PROVE  IInv'
<1>1. /\ suscnt' = [suscnt EXCEPT ![t] = cnt] /\ suscnt \in [Tasks -> 0..MaxCount]
      /\ state \in [Tasks -> TSTAT] /\ cnt \in Int /\ priority' \in [Tasks -> Pri]
  BY DEF resume, IInv, TypeRest
<1>2. CASE cnt > 0 /\ UNCHANGED <<state, ready_queue, schedtsk>>
  <2>1. state' = [state EXCEPT ![t] = state[t]]
    BY <1>1, <1>2
  <2>2. klocked[t] => state[t] = "SUSPEND"
    BY TaskFacts
  <2>3. SchedInv' /\ KernelLockExact' /\ DisabledOK'
    BY <1>1, <1>2, <2>1, <2>2, StayUnready
  <2>4. TypeRest'
    BY <1>1, <1>2 DEF IInv, TypeRest
  <2>5. SuspendCounted'
    BY <1>1, <1>2 DEF IInv, SuspendCounted
  <2>. QED  BY <2>3, <2>4, <2>5 DEF IInv
<1>3. CASE cnt = 0 /\ state[t] = "SUSPEND" /\ make_ready(t, e)
  <2>1. state' = [state EXCEPT ![t] = "READY"]
    BY <1>3 DEF make_ready
  <2>3. SchedInv' /\ KernelLockExact' /\ DisabledOK'
    BY <1>1, <1>3, BecomeReady
  <2>4. TypeRest'
    BY <1>1, <2>1 DEF IInv, TypeRest, TSTAT
  <2>5. SuspendCounted'
    BY <1>1, <1>3, <2>1 DEF IInv, SuspendCounted
  <2>. QED  BY <2>3, <2>4, <2>5 DEF IInv
<1>4. CASE /\ cnt = 0 /\ state[t] = "WAITSUS"
           /\ state' = [state EXCEPT ![t] = "WAIT"] /\ UNCHANGED <<ready_queue, schedtsk>>
  <2>2. ~klocked[t]
    BY <1>4, TaskFacts
  <2>3. SchedInv' /\ KernelLockExact' /\ DisabledOK'
    BY <1>1, <1>4, <2>2, StayUnready DEF task_alive
  <2>4. TypeRest'
    BY <1>1, <1>4 DEF IInv, TypeRest, TSTAT
  <2>5. SuspendCounted'
    BY <1>1, <1>4 DEF IInv, SuspendCounted
  <2>. QED  BY <2>3, <2>4, <2>5 DEF IInv
<1>. QED  BY <1>2, <1>3, <1>4 DEF resume

\* One step of RsmTsk
LEMMA RsmTskOK == ASSUME IInv, NEW t \in Tasks, NEW e \in BOOLEAN, RsmTsk(t, e) PROVE IInv'
<1>1. suscnt[t] - 1 \in 0..MaxCount
  <2>1. suscnt[t] > 0 /\ suscnt[t] \in 0..MaxCount
    BY DEF RsmTsk, IInv, TypeRest, SuspendCounted
  <2>. QED  BY <2>1, ConstantsAssumption
<1>. QED  BY <1>1, ResumeOK DEF RsmTsk

\* One step of FrsmTsk
LEMMA FrsmTskOK == ASSUME IInv, NEW t \in Tasks, NEW e \in BOOLEAN, FrsmTsk(t, e) PROVE IInv'
<1>1. 0 \in 0..MaxCount
  BY ConstantsAssumption
<1>. QED  BY <1>1, ResumeOK DEF FrsmTsk

\* One step of MakeWait
LEMMA MakeWaitOK == ASSUME IInv, NEW t \in Tasks, MakeWait(t) PROVE IInv'
<1>1. ~klocked[t] /\ state[t] = "READY" /\ priority' \in [Tasks -> Pri]
  BY TaskFacts DEF MakeWait, IInv, TypeRest
<1>2. SchedInv' /\ KernelLockExact' /\ DisabledOK' /\ lockq' \in [Locks -> Seq(Tasks)]
  BY <1>1, LeaveReady DEF MakeWait
<1>3. TypeRest'
  BY <1>2 DEF MakeWait, IInv, TypeRest, TSTAT
<1>4. SuspendCounted'
  BY <1>1 DEF MakeWait, IInv, TypeRest, SuspendCounted
<1>. QED  BY <1>2, <1>3, <1>4 DEF IInv

\* One step of WaitRelease
LEMMA WaitReleaseOK == ASSUME IInv, NEW t \in Tasks, NEW e \in BOOLEAN, WaitRelease(t, e) PROVE IInv'
<1>1. /\ UNCHANGED <<ipriority, priority, suscnt, slicetime, klocked, klockwait, lockq, locked,
                     inlock, ctxtsk, dispatch_disabled>>
      /\ state \in [Tasks -> TSTAT] /\ priority' \in [Tasks -> Pri]
  BY DEF WaitRelease, IInv, TypeRest
<1>2. CASE state[t] = "WAIT" /\ make_ready(t, e)
  <2>1. state' = [state EXCEPT ![t] = "READY"]
    BY <1>2 DEF make_ready
  <2>2. SchedInv' /\ KernelLockExact' /\ DisabledOK'
    BY <1>1, <1>2, BecomeReady
  <2>3. TypeRest'
    BY <1>1, <2>1 DEF IInv, TypeRest, TSTAT
  <2>4. SuspendCounted'
    BY <1>1, <1>2, <2>1 DEF IInv, SuspendCounted
  <2>. QED  BY <2>2, <2>3, <2>4 DEF IInv
<1>3. CASE /\ state[t] = "WAITSUS" /\ state' = [state EXCEPT ![t] = "SUSPEND"]
           /\ UNCHANGED <<ready_queue, schedtsk>>
  <2>2. SchedInv' /\ KernelLockExact' /\ DisabledOK'
    BY <1>1, <1>3, StayUnready DEF task_alive
  <2>3. TypeRest'
    BY <1>1, <1>3 DEF IInv, TypeRest, TSTAT
  <2>4. SuspendCounted'
    BY <1>1, <1>3 DEF IInv, SuspendCounted
  <2>. QED  BY <2>2, <2>3, <2>4 DEF IInv
<1>. QED  BY <1>2, <1>3 DEF WaitRelease

\* One step of LockOBJ
LEMMA LockOBJOK == ASSUME IInv, NEW t \in Tasks, NEW l \in Locks, LockOBJ(t, l) PROVE IInv'
<1>1. /\ Running(t) /\ ~dispatch_disabled /\ ~klocked[t]
      /\ inlock' = [inlock EXCEPT ![t] = l]
      /\ UNCHANGED <<state, ipriority, priority, suscnt, slicetime, ctxtsk, dispatch_disabled>>
  BY DEF LockOBJ
<1>2. /\ t \in Runnable /\ state[t] = "READY" /\ ~klockwait[t] /\ Runnable \subseteq Tasks
      /\ priority \in [Tasks -> Pri]
  BY <1>1, TaskFacts
<1>3. SchedOK(ready_queue, schedtsk, Runnable, priority, Holders) /\ KernelLockExact /\ TypeRest
  BY DEF IInv, SchedInv
<1>4. DisabledOK' /\ SuspendCounted'
  BY <1>1 DEF IInv, DisabledOK, SuspendCounted
<1>5. CASE /\ l \notin locked /\ locked' = locked \cup {l}
           /\ klocked' = [klocked EXCEPT ![t] = TRUE]
           /\ ready_queue' = set_klocktsk(ready_queue, t)
           /\ UNCHANGED <<klockwait, lockq, schedtsk>>
  <2>1. KernelLockExact'
    BY <1>1, <1>2, <1>3, <1>5, TakeLockOK
  <2>2. TypeRest'
    BY <1>1, <1>3, <1>5 DEF TypeRest
  <2>3. Runnable' = Runnable /\ t \in Holders'
    BY <1>1, <1>3, <1>5 DEF Runnable, Holders, TypeRest
  <2>4. RQOK(ready_queue', Runnable, priority) /\ ready_queue'.klocktsk = t
    BY <1>3, <1>5, SetKlocktskOK DEF SchedOK
  <2>5. SchedInv'
    BY <1>1, <1>2, <1>3, <1>5, <2>3, <2>4 DEF SchedInv, SchedOK
  <2>. QED  BY <1>4, <2>1, <2>2, <2>5 DEF IInv
<1>6. CASE /\ l \in locked
           /\ LET rq == ready_queue_delete(ready_queue, t, priority[t], klockwait[t])
              IN  ready_queue' = rq /\ schedtsk' = ready_queue_top(rq)
           /\ klockwait' = [klockwait EXCEPT ![t] = TRUE]
           /\ lockq' = [leave_lockq(t) EXCEPT ![l] = QueInsert(@, t)]
           /\ UNCHANGED <<locked, klocked>>
  <2>1. KernelLockExact' /\ lockq' \in [Locks -> Seq(Tasks)]
    BY <1>1, <1>2, <1>3, <1>6, AwaitLockOK
  <2>2. TypeRest'
    BY <1>1, <1>3, <1>6, <2>1 DEF TypeRest
  <2>3. Runnable' = Runnable \ {t} /\ Holders' = Holders
    BY <1>1, <1>3, <1>6 DEF Runnable, Holders, TypeRest
  <2>4. /\ ready_queue' = ready_queue_delete(ready_queue, t, priority[t], FALSE)
        /\ schedtsk' = ready_queue_top(ready_queue')
    BY <1>2, <1>3, <1>6 DEF TypeRest
  <2>5. SchedOK(ready_queue', ready_queue_top(ready_queue'), Runnable \ {t}, priority, Holders)
    BY <1>2, <1>3, <2>4, DeleteTopOK
  <2>6. SchedInv'
    BY <1>1, <2>3, <2>4, <2>5 DEF SchedInv
  <2>. QED  BY <1>4, <2>1, <2>2, <2>6 DEF IInv
<1>. QED  BY <1>5, <1>6 DEF LockOBJ

\* A task that holds a lock has not disabled dispatching, and a hand-over does
\* not touch the task that has.
LEMMA UnlockDisabledOK ==
  ASSUME IInv, NEW t \in Tasks, NEW x, Running(t), klocked[t],
         state' = [state EXCEPT ![t] = x], UNCHANGED <<ctxtsk, dispatch_disabled>>
  PROVE  DisabledOK'
<1>1. inlock[t] # NULL /\ ctxtsk = t
  BY TaskFacts DEF Running
<1>2. ~dispatch_disabled
  BY <1>1 DEF IInv, DisabledOK
<1>. QED  BY <1>2 DEF DisabledOK

\* One step of UnlockOBJ
LEMMA UnlockOBJOK == ASSUME IInv, NEW t \in Tasks, UnlockOBJ(t) PROVE IInv'
<1>1. /\ Running(t) /\ klocked[t] /\ unlock(t, inlock[t], ready_queue)
      /\ inlock' = [inlock EXCEPT ![t] = NULL]
      /\ UNCHANGED <<state, ipriority, priority, suscnt, slicetime, ctxtsk, dispatch_disabled>>
  BY DEF UnlockOBJ
<1>2. TypeRest /\ KernelLockExact /\ SchedOK(ready_queue, schedtsk, Runnable, priority, Holders)
  BY DEF IInv, SchedInv
<1>3. state' = [state EXCEPT ![t] = state[t]]
  BY <1>1, <1>2 DEF TypeRest
<1>4. /\ KernelLockExact' /\ lockq' \in [Locks -> Seq(Tasks)] /\ locked' \in SUBSET Locks
      /\ klocked' \in [Tasks -> BOOLEAN] /\ klockwait' \in [Tasks -> BOOLEAN]
  BY <1>1, <1>2, <1>3, UnlockLockOK
<1>5. SchedInv'
  <2>1. Runnable = {u \in Tasks : state'[u] = "READY" /\ ~klockwait[u]}
    BY <1>1 DEF Runnable
  <2>2. RQOK(ready_queue, Runnable, priority)
    BY <1>2 DEF SchedOK
  <2>. QED  BY <1>1, <1>3, <2>1, <2>2, UnlockSchedOK
<1>6. DisabledOK'
  BY <1>1, <1>3, UnlockDisabledOK
<1>7. TypeRest' /\ SuspendCounted'
  BY <1>1, <1>2, <1>4 DEF IInv, TypeRest, SuspendCounted
<1>. QED  BY <1>4, <1>5, <1>6, <1>7 DEF IInv

\* One step of WaitUnlock
LEMMA WaitUnlockOK == ASSUME IInv, NEW t \in Tasks, WaitUnlock(t) PROVE IInv'
<1>. DEFINE rq == ready_queue_delete(ready_queue, t, priority[t], klockwait[t])
            R == Runnable \ {t}
<1>1. /\ Running(t) /\ klocked[t] /\ unlock(t, inlock[t], rq)
      /\ state' = [state EXCEPT ![t] = "WAIT"]
      /\ inlock' = [inlock EXCEPT ![t] = NULL]
      /\ UNCHANGED <<ipriority, priority, suscnt, slicetime, ctxtsk, dispatch_disabled>>
  BY DEF WaitUnlock
<1>2. TypeRest /\ KernelLockExact /\ SchedOK(ready_queue, schedtsk, Runnable, priority, Holders)
  BY DEF IInv, SchedInv
<1>3. t \in Runnable /\ state[t] = "READY" /\ ~klockwait[t] /\ Runnable \subseteq Tasks
  BY <1>1, TaskFacts
<1>4. /\ KernelLockExact' /\ lockq' \in [Locks -> Seq(Tasks)] /\ locked' \in SUBSET Locks
      /\ klocked' \in [Tasks -> BOOLEAN] /\ klockwait' \in [Tasks -> BOOLEAN]
  BY <1>1, <1>2, UnlockLockOK
<1>5. SchedInv'
  <2>1. R = {u \in Tasks : state'[u] = "READY" /\ ~klockwait[u]}
    BY <1>1, <1>2 DEF Runnable, TypeRest
  <2>2. rq = ready_queue_delete(ready_queue, t, priority[t], FALSE)
    BY <1>2, <1>3 DEF TypeRest
  <2>3. RQOK(ready_queue, Runnable, priority) /\ priority \in [Tasks -> Pri]
    BY <1>2 DEF SchedOK, TypeRest
  <2>. HIDE DEF rq
  <2>4. Deleted(rq, ready_queue, Runnable, t, priority)
    BY <1>3, <2>2, <2>3, DeleteOK
  <2>5. RQOK(rq, R, priority)
    BY <2>4 DEF Deleted
  <2>. HIDE DEF R
  <2>. QED  BY <1>1, <2>1, <2>5, UnlockSchedOK
<1>6. DisabledOK'
  BY <1>1, UnlockDisabledOK
<1>7. TypeRest'
  BY <1>1, <1>2, <1>4 DEF TypeRest, TSTAT
<1>8. SuspendCounted'
  BY <1>1, <1>2, <1>3 DEF IInv, TypeRest, SuspendCounted
<1>. QED  BY <1>4, <1>5, <1>6, <1>7, <1>8 DEF IInv

\* Dispatching changes only which task runs.
LEMMA DispatchingOK ==
  ASSUME IInv,
         UNCHANGED <<tcb, ready_queue, lockq, locked, inlock, schedtsk>>,
         ctxtsk' \in {ctxtsk, schedtsk}, dispatch_disabled' \in BOOLEAN, DisabledOK'
  PROVE  IInv'
<1>1. UNCHANGED <<state, ipriority, priority, suscnt, slicetime, klocked, klockwait,
                  ready_queue, lockq, locked, inlock, schedtsk>>
  BY DEF tcb
<1>2. Runnable' = Runnable /\ Holders' = Holders
  BY <1>1 DEF Runnable, Holders
<1>3. SchedInv'
  BY <1>1, <1>2 DEF SchedInv, IInv
<1>4. ctxtsk' \in Tasks \cup {NULL}
  BY DEF IInv, TypeRest, SchedInv, SchedOK, Runnable
<1>5. TypeRest' /\ SuspendCounted'
  BY <1>1, <1>4 DEF IInv, TypeRest, SuspendCounted
<1>6. KernelLockExact'
  BY <1>1 DEF IInv, KernelLockExact, LockHolders, LockQueues, LockStates
<1>. QED  BY <1>3, <1>5, <1>6 DEF IInv

\* One step of TimerTick
LEMMA TimerTickOK == ASSUME IInv, TimerTick PROVE IInv'
<1>. DEFINE s == schedtsk
            q == ready_queue'.tskque[priority[s]]
<1>1. /\ s # NULL /\ ctxtsk = s
      /\ ready_queue' = ready_queue_move_last(ready_queue, s, priority[s])
      /\ schedtsk' = Head(q)
      /\ UNCHANGED <<state, ipriority, priority, suscnt, slicetime, klocked, klockwait, lockq,
                     locked, inlock, ctxtsk, dispatch_disabled>>
  BY DEF TimerTick, tcb, QueNext
<1>2. /\ SchedOK(ready_queue, s, Runnable, priority, Holders) /\ priority \in [Tasks -> Pri]
      /\ RQOK(ready_queue, Runnable, priority) /\ s \in Runnable /\ Runnable \subseteq Tasks
  BY <1>1 DEF IInv, SchedInv, SchedOK, TypeRest, Runnable
<1>3. /\ RQOK(ready_queue', Runnable, priority)
      /\ ready_queue'.klocktsk = ready_queue.klocktsk
      /\ ready_queue'.top_priority = ready_queue.top_priority
      /\ q # <<>>
  BY <1>1, <1>2, MoveLastOK
<1>4. q \in Seq(Tasks) /\ ToSet(q) = {u \in Runnable : priority[u] = priority[s]}
  BY <1>2, <1>3 DEF RQOK, RDYQUE, QueuesExact
<1>5. schedtsk' \in Runnable
  BY <1>1, <1>3, <1>4, MemberPosition
<1>6. ASSUME Holders = {} PROVE schedtsk' = top_of_queues(ready_queue')
  <2>1. s = top_of_queues(ready_queue)
    BY <1>2, <1>6 DEF SchedOK
  <2>2. priority[s] = ready_queue.top_priority /\ ready_queue.top_priority \in Pri
    BY <1>1, <1>2, <2>1, TopOK
  <2>3. ready_queue.top_priority # NUM_PRI
    BY <2>2, ConstantsAssumption DEF Pri
  <2>. QED  BY <1>1, <1>3, <2>2, <2>3 DEF top_of_queues, QueNext
<1>7. Runnable' = Runnable /\ Holders' = Holders
  BY <1>1 DEF Runnable, Holders
<1>8. schedtsk' # NULL
  BY <1>5, ConstantsAssumption DEF Runnable
<1>9. SchedInv'
  <2>1. ready_queue'.klocktsk # NULL =>
          ready_queue'.klocktsk \in Runnable /\ ready_queue'.klocktsk \in Holders
    BY <1>2, <1>3 DEF SchedOK
  <2>2. SchedOK(ready_queue', schedtsk', Runnable, priority, Holders)
    BY <1>3, <1>5, <1>6, <1>8, <2>1 DEF SchedOK
  <2>. QED  BY <1>1, <1>7, <2>2 DEF SchedInv
<1>10. TypeRest' /\ SuspendCounted' /\ DisabledOK'
  BY <1>1, <1>7 DEF IInv, TypeRest, SuspendCounted, DisabledOK, Ended
<1>11. KernelLockExact'
  BY <1>1 DEF IInv, KernelLockExact, LockHolders, LockQueues, LockStates
<1>. QED  BY <1>9, <1>10, <1>11 DEF IInv

\* One step of the system
LEMMA NextOK == IInv /\ [Next]_vars => IInv'
<1>. SUFFICES ASSUME IInv, [Next]_vars PROVE IInv'
  OBVIOUS
<1>1. ASSUME NEW t \in Tasks, DisDsp(t) PROVE IInv'
  <2>1. t \in Runnable \cup Ended /\ inlock[t] = NULL /\ ctxtsk = t
    BY <1>1, TaskFacts DEF DisDsp, InTask, Running
  <2>2. DisabledOK'
    BY <1>1, <2>1 DEF DisDsp, tcb, DisabledOK, Runnable, Ended
  <2>. QED  BY <1>1, <2>2, DispatchingOK DEF DisDsp
<1>2. ASSUME NEW t \in Tasks, EnaDsp(t) PROVE IInv'
  BY <1>2, DispatchingOK DEF EnaDsp, DisabledOK
<1>3. CASE Dispatch
  <2>1. dispatch_disabled' \in BOOLEAN
    BY <1>3 DEF Dispatch, IInv, TypeRest
  <2>. QED  BY <1>3, <2>1, DispatchingOK DEF Dispatch, DisabledOK
<1>4. CASE UNCHANGED vars
  <2>1. UNCHANGED <<tcb, ready_queue, lockq, locked, inlock, ctxtsk, schedtsk, dispatch_disabled>>
    BY <1>4 DEF vars
  <2>2. DisabledOK' /\ dispatch_disabled' \in BOOLEAN
    BY <2>1 DEF DisabledOK, IInv, Runnable, Ended, tcb, TypeRest
  <2>. QED  BY <2>1, <2>2, DispatchingOK
<1>. QED
  BY <1>1, <1>2, <1>3, <1>4, CreTskOK, DelTskOK, StaTskOK, ExtTskOK, ExdTskOK, TerTskOK,
     ChgPriOK, RotRdqOK, ChgSltOK, SusTskOK, RsmTskOK, FrsmTskOK, MakeWaitOK, WaitReleaseOK,
     LockOBJOK, UnlockOBJOK, WaitUnlockOK, TimerTickOK DEF Next

-----------------------------------------------------------------------------
(* The theorems                                                            *)

\* The invariant holds in every reachable state of the scheduler.
THEOREM Invariance == Spec => []IInv
BY InitOK, NextOK, PTL DEF Spec

\* The invariant contains the properties that the model checker checks.
LEMMA InvImplies ==
  IInv => /\ TypeOK /\ ReadyQueueExact /\ SchedtskRunnable /\ TopPriorityScheduled
          /\ KlocktskHolds /\ RunningReady
<1>. SUFFICES ASSUME IInv
     PROVE  /\ TypeOK /\ ReadyQueueExact /\ SchedtskRunnable /\ TopPriorityScheduled
            /\ KlocktskHolds /\ RunningReady
  OBVIOUS
<1>1. /\ RQOK(ready_queue, Runnable, priority)
      /\ ready_queue.klocktsk # NULL =>
           ready_queue.klocktsk \in Runnable /\ ready_queue.klocktsk \in Holders
      /\ schedtsk # NULL => schedtsk \in Runnable
      /\ schedtsk = NULL => Runnable = {}
      /\ Holders = {} => schedtsk = top_of_queues(ready_queue)
  BY DEF IInv, SchedInv, SchedOK
<1>2. TypeOK
  <2>1. ready_queue \in RDYQUE /\ schedtsk \in Tasks \cup {NULL}
    BY <1>1 DEF RQOK, Runnable
  <2>. QED  BY <2>1 DEF IInv, TypeRest, TypeOK
<1>3. ReadyQueueExact
  BY <1>1 DEF RQOK, ReadyQueueExact
<1>4. SchedtskRunnable
  BY <1>1 DEF SchedtskRunnable
<1>5. TopPriorityScheduled
  BY <1>1 DEF TopPriorityScheduled, Holders
<1>6. KlocktskHolds
  BY <1>1 DEF KlocktskHolds, Holders
<1>7. RunningReady
  <2>1. \A t \in Tasks : Running(t) => t \in Runnable \/ EndedDisabled(t)
    BY TaskFacts
  <2>2. dispatch_disabled => ctxtsk \in Tasks /\ inlock[ctxtsk] = NULL
    BY DEF IInv, DisabledOK, Runnable, Ended
  <2>. QED  BY <2>1, <2>2 DEF RunningReady
<1>. QED  BY <1>2, <1>3, <1>4, <1>5, <1>6, <1>7

\* The kernel's variables keep their types; suscnt stays within INT_MAX.
THEOREM TypeCorrect == Spec => []TypeOK
BY Invariance, InvImplies, PTL

\* ready_queue.h: no operation loses, duplicates or misfiles a task, and the
\* bitmap and top_priority always agree with the queues.
THEOREM ReadyQueueCorrect == Spec => []ReadyQueueExact
BY Invariance, InvImplies, PTL

\* task.c: schedtsk is always a runnable task, or NULL when there is none.
THEOREM SchedtskCorrect == Spec => []SchedtskRunnable
BY Invariance, InvImplies, PTL

\* task.c, timer.c: without kernel locks the first task of the highest
\* priority is always the one scheduled.
THEOREM PriorityCorrect == Spec => []TopPriorityScheduled
BY Invariance, InvImplies, PTL

\* klock.c: one holder per locked lock, and every waiter is in its queue.
THEOREM KernelLockCorrect == Spec => []KernelLockExact
<1>1. IInv => KernelLockExact
  BY DEF IInv
<1>. QED  BY <1>1, Invariance, PTL

\* ready_queue.h: klocktsk is a runnable task that holds a lock, or NULL.
THEOREM KlocktskCorrect == Spec => []KlocktskHolds
BY Invariance, InvImplies, PTL

\* wait.c: the running task is READY unless a handler has terminated it under
\* disabled dispatching, and a task that has disabled dispatching is outside
\* every kernel lock.
THEOREM RunningCorrect == Spec => []RunningReady
BY Invariance, InvImplies, PTL

\* task_sync.c: a task is suspended exactly as long as requests are nested.
THEOREM SuspendCorrect == Spec => []SuspendCounted
<1>1. IInv => SuspendCounted
  BY DEF IInv
<1>. QED  BY <1>1, Invariance, PTL

=============================================================================
