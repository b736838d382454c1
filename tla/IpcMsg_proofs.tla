--------------------------- MODULE IpcMsg_proofs ---------------------------
(***************************************************************************)
(* The ring of ipc_msg.c implements the bounded queue with selective       *)
(* receive, for any capacity, any messages and any number of threads.      *)
(***************************************************************************)
EXTENDS IpcMsg, Queue_proofs

\* The ring index of a place before the end of the array, and of the end.
LEMMA RingIndex ==
  /\ \A i \in 0..MAX_QUEUED_MSGS - 1 : i % MAX_QUEUED_MSGS = i
  /\ MAX_QUEUED_MSGS % MAX_QUEUED_MSGS = 0
BY MailboxAssumption, SMT

\* A mailbox of the right type whose head is where memset left it: rcv_msg
\* shifts the messages and never moves the head.
GoodMailbox(b) == /\ b \in IPC_MAILBOX
                  /\ b.head = 0
                  /\ b.tail = b.count % MAX_QUEUED_MSGS

IInv == /\ GoodMailbox(mb)
        /\ pc \in [Receivers -> {"idle", "wait", "woken"}]
        /\ mask \in [Receivers -> SUBSET Types] /\ timed \in [Receivers -> BOOLEAN]
        /\ msg \in [Receivers -> MESSAGE]
        /\ \A r \in Receivers : pc[r] # "idle" => mask[r] \in Masks

\* The contents of such a mailbox are the first 'count' places of the array.
LEMMA ContentsOf ==
  ASSUME NEW b, GoodMailbox(b)
  PROVE  /\ \A i \in 0..b.count : i < MAX_QUEUED_MSGS => slot(b, i) = i
         /\ Contents(b) \in Seq(MESSAGE) /\ Len(Contents(b)) = b.count
         /\ \A i \in 1..b.count : Contents(b)[i] = b.messages[i - 1]
         /\ b.count \in 0..MAX_QUEUED_MSGS
<1>1. /\ b.count \in 0..MAX_QUEUED_MSGS /\ b.head = 0
      /\ b.messages \in [0..MAX_QUEUED_MSGS - 1 -> MESSAGE]
  BY DEF GoodMailbox, IPC_MAILBOX
<1>2. \A i \in 0..b.count : i < MAX_QUEUED_MSGS => slot(b, i) = i
  <2>. SUFFICES ASSUME NEW i \in 0..b.count, i < MAX_QUEUED_MSGS PROVE slot(b, i) = i
    OBVIOUS
  <2>1. b.head + i = i /\ i \in 0..MAX_QUEUED_MSGS - 1
    BY <1>1, MailboxAssumption
  <2>. QED  BY <2>1, RingIndex DEF slot
<1>3. \A i \in 1..b.count : slot(b, i - 1) = i - 1 /\ i - 1 \in 0..MAX_QUEUED_MSGS - 1
  BY <1>1, <1>2, MailboxAssumption
<1>4. Contents(b) = [i \in 1..b.count |-> b.messages[i - 1]]
  BY <1>3 DEF Contents
<1>5. \A i \in 1..b.count : b.messages[i - 1] \in MESSAGE
  BY <1>1, <1>3
<1>6. Contents(b) \in Seq(MESSAGE) /\ Len(Contents(b)) = b.count
  BY <1>1, <1>4, <1>5, IsASeq, LenProperties, MailboxAssumption
<1>. QED  BY <1>1, <1>2, <1>4, <1>6

\* snd_msg on a mailbox that is not full appends.
LEMMA SendAppends ==
  ASSUME NEW b, NEW c, NEW m \in MESSAGE, GoodMailbox(b), ~full(b),
         c = [b EXCEPT !.messages[b.tail] = m,
                       !.tail = (@ + 1) % MAX_QUEUED_MSGS,
                       !.count = @ + 1]
  PROVE  GoodMailbox(c) /\ Contents(c) = Append(Contents(b), m)
<1>1. /\ b.count \in 0..MAX_QUEUED_MSGS /\ b.head = 0 /\ b.tail = b.count % MAX_QUEUED_MSGS
      /\ b.messages \in [0..MAX_QUEUED_MSGS - 1 -> MESSAGE]
      /\ b \in IPC_MAILBOX
  BY DEF GoodMailbox, IPC_MAILBOX
<1>2. b.count < MAX_QUEUED_MSGS /\ b.tail = b.count
  BY <1>1, RingIndex, MailboxAssumption DEF full
<1>2a. /\ b.count \in Nat /\ MAX_QUEUED_MSGS \in Nat /\ b.count + 1 <= MAX_QUEUED_MSGS
  <2>1. b.count \in 0..MAX_QUEUED_MSGS /\ b.count < MAX_QUEUED_MSGS
    BY <1>1, <1>2
  <2>. QED  BY <2>1, MailboxAssumption
<1>3. /\ c.messages = [b.messages EXCEPT ![b.count] = m] /\ c.head = 0
      /\ c.count = b.count + 1 /\ c.tail = (b.count + 1) % MAX_QUEUED_MSGS
      /\ c = [messages |-> c.messages, head |-> c.head, tail |-> c.tail, count |-> c.count]
  BY <1>1, <1>2 DEF IPC_MAILBOX
<1>4. /\ c.tail \in 0..MAX_QUEUED_MSGS - 1 /\ c.head \in 0..MAX_QUEUED_MSGS - 1
      /\ c.count \in 0..MAX_QUEUED_MSGS
  <2>1. b.count + 1 \in 0..MAX_QUEUED_MSGS - 1 \/ b.count + 1 = MAX_QUEUED_MSGS
    BY <1>2a
  <2>2. (b.count + 1) % MAX_QUEUED_MSGS = b.count + 1 \/ (b.count + 1) % MAX_QUEUED_MSGS = 0
    BY <2>1, RingIndex
  <2>3. (b.count + 1) % MAX_QUEUED_MSGS \in 0..MAX_QUEUED_MSGS - 1
    BY <2>1, <2>2, RingIndex, MailboxAssumption
  <2>. QED  BY <1>2a, <1>3, <2>3
<1>5. c.messages \in [0..MAX_QUEUED_MSGS - 1 -> MESSAGE]
  BY <1>1, <1>3
<1>6. c \in IPC_MAILBOX
  BY <1>3, <1>4, <1>5 DEF IPC_MAILBOX
<1>7. GoodMailbox(c)
  BY <1>3, <1>6 DEF GoodMailbox
<1>. DEFINE p == Contents(b)
            q == Contents(c)
            r == Append(p, m)
<1>8. /\ p \in Seq(MESSAGE) /\ Len(p) = b.count /\ \A i \in 1..b.count : p[i] = b.messages[i - 1]
      /\ q \in Seq(MESSAGE) /\ Len(q) = c.count /\ \A i \in 1..c.count : q[i] = c.messages[i - 1]
  BY <1>7, ContentsOf
<1>. HIDE DEF p, q
<1>9. /\ r \in Seq(MESSAGE) /\ Len(r) = b.count + 1
      /\ \A i \in 1..b.count : r[i] = p[i]
      /\ r[b.count + 1] = m
  BY <1>8, AppendProperties
<1>10. \A i \in 1..Len(q) : q[i] = r[i]
  <2>. SUFFICES ASSUME NEW i \in 1..Len(q) PROVE q[i] = r[i]
    OBVIOUS
  <2>1. i \in 1..b.count + 1 /\ i - 1 \in 0..MAX_QUEUED_MSGS - 1
    <3>1. Len(q) = b.count + 1
      BY <1>3, <1>8
    <3>. QED  BY <1>2a, <3>1
  <2>0. q[i] = c.messages[i - 1]
    BY <1>8
  <2>2. CASE i = b.count + 1
    <3>1. i - 1 = b.count /\ b.count \in 0..MAX_QUEUED_MSGS - 1
      BY <1>1, <2>1, <2>2
    <3>. QED  BY <1>1, <1>3, <1>9, <2>0, <2>2, <3>1
  <2>3. CASE i # b.count + 1
    <3>1. i \in 1..b.count
      BY <1>1, <2>1, <2>3
    <3>. QED  BY <1>1, <1>3, <1>8, <1>9, <2>0, <2>1, <3>1
  <2>. QED  BY <2>2, <2>3
<1>11. q = r
  BY <1>3, <1>8, <1>9, <1>10, SeqEqual
<1>. QED  BY <1>7, <1>11 DEF p, q

\* rcv_msg takes the i-th message out and closes the gap.
LEMMA RemoveShifts ==
  ASSUME NEW b, GoodMailbox(b), NEW i \in 0..b.count - 1
  PROVE  GoodMailbox(remove(b, i)) /\ Contents(remove(b, i)) = RemoveAt(Contents(b), i + 1)
<1>. DEFINE c == remove(b, i)
            p == Contents(b)
            q == Contents(c)
            r == RemoveAt(p, i + 1)
<1>1. /\ b.count \in 0..MAX_QUEUED_MSGS /\ b.head = 0 /\ b \in IPC_MAILBOX
      /\ b.messages \in [0..MAX_QUEUED_MSGS - 1 -> MESSAGE]
  BY DEF GoodMailbox, IPC_MAILBOX
<1>2. /\ MAX_QUEUED_MSGS \in Nat /\ b.count \in Nat /\ i \in Nat
      /\ i + 1 <= b.count /\ b.count <= MAX_QUEUED_MSGS
  <2>1. b.count \in Nat /\ MAX_QUEUED_MSGS \in Nat /\ b.count <= MAX_QUEUED_MSGS
    BY <1>1, MailboxAssumption
  <2>. QED  BY <2>1
<1>3. \A j \in 0..b.count - 1 : slot(b, j) = j /\ j \in 0..MAX_QUEUED_MSGS - 1
  BY <1>2, ContentsOf
<1>4. /\ c.messages = shift(b, i) /\ c.head = 0 /\ c.count = b.count - 1
      /\ c.tail = b.count - 1
      /\ c = [messages |-> c.messages, head |-> c.head, tail |-> c.tail, count |-> c.count]
  <2>1. slot(b, b.count - 1) = b.count - 1
    BY <1>2, <1>3
  <2>2. c = [b EXCEPT !.messages = shift(b, i), !.count = b.count - 1, !.tail = b.count - 1]
    BY <2>1 DEF remove
  <2>. HIDE DEF c
  <2>3. b = [messages |-> b.messages, head |-> b.head, tail |-> b.tail, count |-> b.count]
    BY <1>1 DEF IPC_MAILBOX
  <2>4. c = [messages |-> shift(b, i), head |-> b.head, tail |-> b.count - 1, count |-> b.count - 1]
    BY <2>2, <2>3
  <2>. QED  BY <1>1, <2>4
<1>5. \A n \in 0..MAX_QUEUED_MSGS - 1 :
        shift(b, i)[n] = IF n \in i..b.count - 2 THEN b.messages[n + 1] ELSE b.messages[n]
  <2>. SUFFICES ASSUME NEW n \in 0..MAX_QUEUED_MSGS - 1
                PROVE  shift(b, i)[n] = IF n \in i..b.count - 2 THEN b.messages[n + 1]
                                                               ELSE b.messages[n]
    OBVIOUS
  <2>1. \A j \in i..b.count - 2 : slot(b, j) = j
    BY <1>2, <1>3
  <2>2. (\E j \in i..b.count - 2 : n = slot(b, j)) <=> n \in i..b.count - 2
    BY <2>1
  <2>3. n \in i..b.count - 2 => n + 1 \in 0..MAX_QUEUED_MSGS - 1
    BY <1>2
  <2>4. n \in i..b.count - 2 => (n + 1) % MAX_QUEUED_MSGS = n + 1
    BY <2>3, RingIndex
  <2>. QED  BY <2>2, <2>4 DEF shift
<1>6. c.messages \in [0..MAX_QUEUED_MSGS - 1 -> MESSAGE]
  <2>1. \A n \in 0..MAX_QUEUED_MSGS - 1 : shift(b, i)[n] \in MESSAGE
    <3>. SUFFICES ASSUME NEW n \in 0..MAX_QUEUED_MSGS - 1 PROVE shift(b, i)[n] \in MESSAGE
      OBVIOUS
    <3>1. n \in i..b.count - 2 => n + 1 \in 0..MAX_QUEUED_MSGS - 1
      BY <1>2
    <3>. QED  BY <1>1, <1>5, <3>1
  <2>2. shift(b, i) = [n \in 0..MAX_QUEUED_MSGS - 1 |-> shift(b, i)[n]]
    BY DEF shift
  <2>. QED  BY <1>4, <2>1, <2>2
<1>7. GoodMailbox(c)
  <2>1. /\ b.count - 1 \in 0..MAX_QUEUED_MSGS - 1 /\ b.count - 1 \in 0..MAX_QUEUED_MSGS
        /\ 0 \in 0..MAX_QUEUED_MSGS - 1
    BY <1>2
  <2>2. (b.count - 1) % MAX_QUEUED_MSGS = b.count - 1
    BY <2>1, RingIndex
  <2>3. c \in IPC_MAILBOX
    BY <1>4, <1>6, <2>1 DEF IPC_MAILBOX
  <2>. QED  BY <1>4, <2>2, <2>3 DEF GoodMailbox
<1>. HIDE DEF c
<1>8. /\ p \in Seq(MESSAGE) /\ Len(p) = b.count /\ \A j \in 1..b.count : p[j] = b.messages[j - 1]
      /\ q \in Seq(MESSAGE) /\ Len(q) = c.count /\ \A j \in 1..c.count : q[j] = c.messages[j - 1]
  BY <1>7, ContentsOf
<1>. HIDE DEF p, q
<1>9. i + 1 \in 1..Len(p)
  BY <1>2, <1>8
<1>10. /\ r \in Seq(MESSAGE) /\ Len(r) = Len(p) - 1
       /\ \A j \in 1..Len(p) - 1 : r[j] = IF j < i + 1 THEN p[j] ELSE p[j + 1]
  BY <1>8, <1>9, RemoveAtProperties
<1>. HIDE DEF r
<1>11. ASSUME NEW j \in 1..b.count - 1 PROVE q[j] = r[j]
  <2>1. /\ j \in 1..b.count /\ j + 1 \in 1..b.count /\ j - 1 \in 0..MAX_QUEUED_MSGS - 1
        /\ j + 1 - 1 = j /\ j - 1 + 1 = j
    BY <1>2
  <2>2. q[j] = c.messages[j - 1]
    BY <1>4, <1>8
  <2>3. q[j] = IF j - 1 \in i..b.count - 2 THEN b.messages[j - 1 + 1] ELSE b.messages[j - 1]
    BY <1>4, <1>5, <2>1, <2>2
  <2>4. p[j] = b.messages[j - 1] /\ p[j + 1] = b.messages[j]
    BY <1>8, <2>1
  <2>5. r[j] = IF j < i + 1 THEN p[j] ELSE p[j + 1]
    BY <1>8, <1>10
  <2>6. j < i + 1 <=> ~(j - 1 \in i..b.count - 2)
    BY <1>2
  <2>. QED  BY <2>1, <2>3, <2>4, <2>5, <2>6
<1>12. Len(q) = Len(r) /\ Len(q) = b.count - 1
  BY <1>4, <1>8, <1>10
<1>13. q = r
  BY <1>8, <1>10, <1>11, <1>12, SeqEqual
<1>. QED  BY <1>7, <1>13 DEF c, p, q, r

\* What one pass of the loop does: it takes the oldest matching message out, or
\* leaves the mailbox alone.
LEMMA PassStep ==
  ASSUME IInv, NEW r \in Receivers, NEW mk \in Masks, NEW tmo, Pass(r, mk, tmo)
  PROVE  /\ GoodMailbox(mb') /\ msg' \in [Receivers -> MESSAGE]
         /\ pc' \in [Receivers -> {"idle", "wait", "woken"}]
         /\ \A u \in Receivers : u # r => pc'[u] = pc[u]
         /\ MQ!Receive(r, mk) \/ UNCHANGED <<Contents(mb), msg>>
<1>1. /\ GoodMailbox(mb) /\ msg \in [Receivers -> MESSAGE]
      /\ pc \in [Receivers -> {"idle", "wait", "woken"}]
  BY DEF IInv
<1>2. CASE \E i \in Matching(mk) :
             /\ \A j \in Matching(mk) : i <= j
             /\ msg' = [msg EXCEPT ![r] = mb.messages[slot(mb, i)]]
             /\ mb' = remove(mb, i)
             /\ pc' = [pc EXCEPT ![r] = "idle"]
  <2>1. PICK i \in Matching(mk) :
             /\ \A j \in Matching(mk) : i <= j
             /\ msg' = [msg EXCEPT ![r] = mb.messages[slot(mb, i)]]
             /\ mb' = remove(mb, i)
             /\ pc' = [pc EXCEPT ![r] = "idle"]
    BY <1>2
  <2>2. i \in 0..mb.count - 1 /\ Accepts(mk, mb.messages[slot(mb, i)])
    BY DEF Matching
  <2>3. GoodMailbox(mb') /\ Contents(mb') = RemoveAt(Contents(mb), i + 1)
    BY <1>1, <2>1, <2>2, RemoveShifts
  <2>4. /\ Len(Contents(mb)) = mb.count /\ mb.count \in Nat
        /\ Contents(mb) \in Seq(MESSAGE)
    BY <1>1, ContentsOf, MailboxAssumption
  <2>5. \A j \in 0..mb.count - 1 : mb.messages[slot(mb, j)] = Contents(mb)[j + 1]
    <3>1. \A j \in 0..mb.count - 1 : j + 1 \in 1..mb.count /\ j + 1 - 1 = j
      BY <2>4
    <3>. QED  BY <3>1 DEF Contents
  <2>6. i + 1 \in 1..Len(Contents(mb))
    BY <2>2, <2>4
  <2>7. \A j \in 1..(i + 1) - 1 : ~Accepts(mk, Contents(mb)[j])
    <3>. SUFFICES ASSUME NEW j \in 1..(i + 1) - 1, Accepts(mk, Contents(mb)[j]) PROVE FALSE
      OBVIOUS
    <3>1. j - 1 \in 0..mb.count - 1 /\ j - 1 < i /\ j - 1 + 1 = j
      BY <2>2, <2>4
    <3>2. j - 1 \in Matching(mk)
      BY <2>5, <3>1 DEF Matching
    <3>. QED  BY <2>1, <2>2, <3>1, <3>2
  <2>8. Accepts(mk, Contents(mb)[i + 1]) /\ msg' = [msg EXCEPT ![r] = Contents(mb)[i + 1]]
    BY <2>1, <2>2, <2>5
  <2>9. MQ!Receive(r, mk)
    <3>1. MQ!RemoveAt(Contents(mb), i + 1) = RemoveAt(Contents(mb), i + 1)
      BY DEF MQ!RemoveAt, RemoveAt
    <3>2. Contents(mb)' = MQ!RemoveAt(Contents(mb), i + 1)
      BY <2>3, <3>1
    <3>3. \E k \in 1..Len(Contents(mb)) :
             /\ Accepts(mk, Contents(mb)[k])
             /\ \A j \in 1..k - 1 : ~Accepts(mk, Contents(mb)[j])
             /\ msg' = [msg EXCEPT ![r] = Contents(mb)[k]]
             /\ Contents(mb)' = MQ!RemoveAt(Contents(mb), k)
      <4>. WITNESS i + 1 \in 1..Len(Contents(mb))
      <4>. QED  BY <2>7, <2>8, <3>2
    <3>. QED  BY <3>3 DEF MQ!Receive
  <2>10. Contents(mb)[i + 1] \in MESSAGE
    BY <2>4, <2>6, ElementOfSeq
  <2>. QED  BY <1>1, <2>1, <2>3, <2>8, <2>9, <2>10
<1>3. CASE /\ Matching(mk) = {}
           /\ pc' = [pc EXCEPT ![r] = IF tmo = "poll" THEN "idle" ELSE "wait"]
           /\ UNCHANGED <<mb, msg>>
  BY <1>1, <1>3
<1>. QED  BY <1>2, <1>3 DEF Pass

\* Every step keeps the invariant and is a step of the queue, or none.
LEMMA StepRefines ==
  ASSUME IInv, [Next]_vars
  PROVE  IInv' /\ [MQ!Next]_<<Contents(mb), msg>>
<1>1. /\ GoodMailbox(mb) /\ msg \in [Receivers -> MESSAGE]
      /\ pc \in [Receivers -> {"idle", "wait", "woken"}]
      /\ mask \in [Receivers -> SUBSET Types] /\ timed \in [Receivers -> BOOLEAN]
      /\ \A r \in Receivers : pc[r] # "idle" => mask[r] \in Masks
  BY DEF IInv
<1>2. ASSUME NEW m \in MESSAGE, SndMsg(m)
      PROVE  IInv' /\ MQ!Next
  <2>1. GoodMailbox(mb') /\ Contents(mb') = Append(Contents(mb), m)
    BY <1>1, <1>2, SendAppends DEF SndMsg
  <2>2. mb.count < MAX_QUEUED_MSGS /\ Len(Contents(mb)) = mb.count
    <3>1. mb.count \in 0..MAX_QUEUED_MSGS /\ ~(mb.count >= MAX_QUEUED_MSGS)
      BY <1>1, <1>2, ContentsOf DEF SndMsg, full
    <3>. QED  BY <1>1, <3>1, ContentsOf, MailboxAssumption
  <2>3. /\ pc' \in [Receivers -> {"idle", "wait", "woken"}]
        /\ \A r \in Receivers : pc'[r] # "idle" => pc[r] # "idle"
    BY <1>1, <1>2 DEF SndMsg, cond_signal
  <2>4. UNCHANGED <<mask, timed, msg>>
    BY <1>2 DEF SndMsg
  <2>5. MQ!Next
    BY <2>1, <2>2, <2>4 DEF MQ!Next, MQ!Send
  <2>. QED  BY <1>1, <2>1, <2>3, <2>4, <2>5 DEF IInv
<1>3. ASSUME NEW r \in Receivers, NEW mk \in Masks, NEW tmo \in {"poll", "timed", "forever"},
             RcvMsg(r, mk, tmo)
      PROVE  IInv' /\ [MQ!Next]_<<Contents(mb), msg>>
  <2>1. /\ Pass(r, mk, tmo) /\ mask' = [mask EXCEPT ![r] = mk]
        /\ timed' = [timed EXCEPT ![r] = tmo = "timed"]
    BY <1>3 DEF RcvMsg
  <2>2. /\ GoodMailbox(mb') /\ msg' \in [Receivers -> MESSAGE]
        /\ pc' \in [Receivers -> {"idle", "wait", "woken"}]
        /\ \A u \in Receivers : u # r => pc'[u] = pc[u]
        /\ MQ!Receive(r, mk) \/ UNCHANGED <<Contents(mb), msg>>
    BY <2>1, PassStep
  <2>3. mask' \in [Receivers -> SUBSET Types] /\ timed' \in [Receivers -> BOOLEAN]
    BY <1>1, <2>1, MailboxAssumption
  <2>4. \A u \in Receivers : pc'[u] # "idle" => mask'[u] \in Masks
    BY <1>1, <2>1, <2>2
  <2>. QED  BY <2>2, <2>3, <2>4 DEF IInv, MQ!Next
<1>4. ASSUME NEW r \in Receivers, Woken(r)
      PROVE  IInv' /\ [MQ!Next]_<<Contents(mb), msg>>
  <2>1. PICK tmo : Pass(r, mask[r], tmo)
    BY <1>4 DEF Woken
  <2>2. mask[r] \in Masks /\ UNCHANGED <<mask, timed>>
    BY <1>1, <1>4 DEF Woken
  <2>3. /\ GoodMailbox(mb') /\ msg' \in [Receivers -> MESSAGE]
        /\ pc' \in [Receivers -> {"idle", "wait", "woken"}]
        /\ \A u \in Receivers : u # r => pc'[u] = pc[u]
        /\ MQ!Receive(r, mask[r]) \/ UNCHANGED <<Contents(mb), msg>>
    BY <2>1, <2>2, PassStep
  <2>4. \A u \in Receivers : pc'[u] # "idle" => mask'[u] \in Masks
    BY <1>1, <2>2, <2>3
  <2>. QED  BY <1>1, <2>2, <2>3, <2>4 DEF IInv, MQ!Next
<1>5. ASSUME NEW r \in Receivers, Timeout(r) \/ SpuriousWakeup(r)
      PROVE  IInv' /\ UNCHANGED <<Contents(mb), msg>>
  BY <1>1, <1>5 DEF Timeout, SpuriousWakeup, IInv
<1>6. ASSUME UNCHANGED vars PROVE IInv' /\ UNCHANGED <<Contents(mb), msg>>
  BY <1>1, <1>6 DEF vars, IInv
<1>. QED  BY <1>2, <1>3, <1>4, <1>5, <1>6 DEF Next

\* The initial states.
LEMMA InitRefines == Init => IInv /\ MQ!Init
<1>. SUFFICES ASSUME Init PROVE IInv /\ MQ!Init
  OBVIOUS
<1>1. PICK m \in MESSAGE : mb = [messages |-> [i \in 0..MAX_QUEUED_MSGS - 1 |-> m],
                                  head |-> 0, tail |-> 0, count |-> 0]
  BY DEF Init
<1>2. 0 \in 0..MAX_QUEUED_MSGS - 1 /\ 0 \in 0..MAX_QUEUED_MSGS
  BY MailboxAssumption
<1>3. GoodMailbox(mb)
  BY <1>1, <1>2, RingIndex DEF GoodMailbox, IPC_MAILBOX
<1>4. Contents(mb) = <<>>
  <2>1. Contents(mb) \in Seq(MESSAGE) /\ Len(Contents(mb)) = 0
    BY <1>1, <1>3, ContentsOf
  <2>. QED  BY <2>1, EmptySeq
<1>5. msg \in [Receivers -> MESSAGE]
  BY <1>1, <1>2 DEF Init
<1>. QED  BY <1>3, <1>4, <1>5 DEF Init, IInv, MQ!Init

\* In every state the ring's indices are in bounds and agree with its count.
THEOREM MailboxCorrect == Spec => []MailboxOK
<1>1. IInv => MailboxOK
  <2>. SUFFICES ASSUME IInv PROVE MailboxOK
    OBVIOUS
  <2>1. mb \in IPC_MAILBOX /\ mb.head = 0 /\ mb.tail = mb.count % MAX_QUEUED_MSGS /\ mb.count \in Int
    BY MailboxAssumption DEF IInv, GoodMailbox, IPC_MAILBOX
  <2>2. mb.head + mb.count = mb.count
    BY <2>1
  <2>. QED  BY <2>1, <2>2 DEF MailboxOK, IInv, slot
<1>2. IInv /\ [Next]_vars => IInv'
  BY StepRefines
<1>. QED  BY <1>1, <1>2, InitRefines, PTL DEF Spec

\* The ring, its shifts and the waiting threads of ipc_msg.c implement the
\* bounded queue with selective receive.
THEOREM Refinement == Spec => MQSpec
<1>1. IInv /\ [Next]_vars => IInv' /\ [MQ!Next]_<<Contents(mb), msg>>
  BY StepRefines
<1>. QED  BY <1>1, InitRefines, PTL DEF Spec, MQSpec, MQ!Spec

=============================================================================
