-------------------------- MODULE Services_proofs --------------------------
(***************************************************************************)
(* The services, for any number of tasks, subsystems, exceptions, slots,   *)
(* blocks, records and bytes: what each keeps exact (MCServices).          *)
(***************************************************************************)
EXTENDS MCServices, Queue_proofs, FiniteSetTheorems

-----------------------------------------------------------------------------
(* Threads and semaphores of the SMP core.                                 *)

woken_for(s) == {t \in SmpTasks : thread[t] = "woken" /\ s \in wants[t]}

\* As many threads are on their way to a semaphore as it counts, while others
\* are blocked; and only a created semaphore is waited for.
SmpInv ==
    /\ SmpTypeOK
    /\ wants \in [SmpTasks -> SUBSET SmpSems]
    /\ sem \in [SmpSems -> [active : BOOLEAN, count : 0..MaxSem]]
    /\ \A t \in SmpTasks : /\ thread[t] \notin {"waits", "woken"} => wants[t] = {}
                           /\ thread[t] \in {"waits", "woken"} =>
                                 \E s \in SmpSems : wants[t] = {s} /\ sem[s].active
    /\ \A s \in SmpSems : sem_waiters(s) # {} => Cardinality(woken_for(s)) >= sem[s].count

-----------------------------------------------------------------------------
(* Extended SVCs, break functions and task exceptions.                     *)

Flags == {"TEX0", "TEX1", "SSFN"}
Tex == {"TEX0", "TEX1"}
Execs == [ssid : Ssids \cup {NULL}, ran : BOOLEAN]

SelfStep == [at |-> "self_break"]

\* What follows a break function: nothing, or the end of tk_ras_tex on u.
RasRest(u) == [at |-> "ras_end", of |-> u, next |-> SelfStep]

Steps == [at : {"run", "self_break", "exit_lock", "exit"}]
         \cup [at : {"enter_lock", "enter_check", "enter"}, ssid : Ssids]
         \cup [at : {"ras_lock", "ras"}, of : SvcTasks, code : Codes]
         \cup [at : {"ras_break"}, of : SvcTasks]
         \cup [at : {"ras_end"}, of : SvcTasks, next : {Run, SelfStep}]

SvcFrames == [f : {"svc"}, ssid : Ssids, breaks : Nat, save_execssid : Execs,
              save_waitmask : BOOLEAN, save_exectex : SUBSET Codes]
SsfnFrames == [f : {"ssfn"}, save_texflg : SUBSET Flags]
BrkFrames == {b \in [f : {"brk"}, of : SvcTasks, next : Steps, save_texflg : SUBSET Flags] :
                 b.next \in {Run, RasRest(b.of)}}
Frames == SvcFrames \cup SsfnFrames \cup BrkFrames

SvcTypes ==
    /\ ssycb \in [Ssids -> {"undefined", "break"}]
    /\ tstat \in [SvcTasks -> {"DORMANT", "READY", "SUSPEND"}]
    /\ pc \in [SvcTasks -> Steps]
    /\ frames \in [SvcTasks -> Seq(Frames)]
    /\ execssid \in [SvcTasks -> Execs]
    /\ diswai \in [SvcTasks -> BOOLEAN]
    /\ texhdr \in [SvcTasks -> BOOLEAN] /\ forgotten \in [SvcTasks -> SUBSET Codes]
    /\ texmask \in [SvcTasks -> SUBSET Codes] /\ pendtex \in [SvcTasks -> SUBSET Codes]
    /\ exectex \in [SvcTasks -> SUBSET Codes] /\ texflg \in [SvcTasks -> SUBSET Flags]
    /\ reqdct \in [SvcTasks -> BOOLEAN]

\* Only these handlers call the kernel.
Callable(t, h) ==
    h.f = "brk" => h.of = t /\ (IF h.next = Run THEN "tail" ELSE "self") \in BreakCalls

\* The place of a task in its call and the handlers it is in.
PlaceOK(t, p, fr) ==
    /\ Len(fr) <= MaxFrames[t]
    /\ p.at \notin {"run", "exit_lock", "exit"} => Len(fr) < MaxFrames[t]
    /\ p.at \in {"exit_lock", "exit"} => fr # <<>> /\ Last(fr).f = "svc"
    /\ \A i \in DOMAIN fr : i < Len(fr) \/ p.at # "run" => Callable(t, fr[i])

\* t breaks u by a tk_ras_tex.
Breaks(p, fr, u) == p.at = "run" /\ fr # <<>> /\ Last(fr) \in BrkFrames
                    /\ Last(fr).next # Run /\ Last(fr).of = u

\* The lists of locks, the latest first.
None == <<>>
One(a) == <<a>>
Two(a, b) == <<a, b>>

\* Its own lock at most; or first that of the task it raises an exception on.
Own(t, locks) == locks = None \/ locks = One(t)
OnTop(t, u, locks) == locks = One(u) \/ locks = Two(u, t)
Raises(p, fr, u) == \/ p.at \in {"ras_lock", "ras", "ras_break", "ras_end"} /\ p.of = u
                    \/ Breaks(p, fr, u)

\* The locks of a task, by its place.
HoldsOK(t, p, fr, locks) ==
    /\ \/ Own(t, locks)
       \/ \E u \in SvcTasks \ {t} : OnTop(t, u, locks) /\ Raises(p, fr, u)
    /\ p.at \in {"enter_check", "enter", "exit"} => locks = One(t)
    /\ p.at \in {"ras", "ras_break"} => locks # None /\ Head(locks) = p.of
    /\ \A u \in SvcTasks : Breaks(p, fr, u) /\ (u # t \/ "self" \notin BreakCalls) =>
          locks # None /\ Head(locks) = u

\* The locks and their queues: what SvcLocksExact says, without cardinalities.
LocksInv(sl, wq, st, p) ==
    /\ \A l \in SvcTasks : wq[l] # NULL <=> \E t \in SvcTasks : Contains(sl[t], l)
    /\ \A t, u, l \in SvcTasks : Contains(sl[t], l) /\ Contains(sl[u], l) => t = u
    /\ \A l \in SvcTasks : wq[l] # NULL =>
          /\ IsInjective(wq[l])
          /\ \A t \in ToSet(wq[l]) : /\ st[t] = "READY" /\ ~Contains(sl[t], l)
                                     /\ p[t].at \in {"enter_lock", "exit_lock", "ras_lock"}
                                     /\ l = IF p[t].at = "ras_lock" THEN p[t].of ELSE t

\* The innermost extended SVC of a task, and the one around extended SVC j.
Innermost(fr, i) == i \in DOMAIN fr /\ fr[i].f = "svc" /\ \A j \in DOMAIN fr : j > i => fr[j].f # "svc"
Around(fr, i, j) == /\ i \in DOMAIN fr /\ j \in DOMAIN fr /\ i < j /\ fr[i].f = "svc" /\ fr[j].f = "svc"
                    /\ \A k \in DOMAIN fr : i < k /\ k < j => fr[k].f # "svc"

\* An extended SVC that was broken is marked, by execssid while it is the
\* innermost, else in what the one inside it saved; without one there is no mark.
BrokenOK(fr, ex) ==
    /\ \A i \in DOMAIN fr : fr[i].f = "svc" => fr[i].breaks <= 1
    /\ \A i : Innermost(fr, i) /\ fr[i].breaks # 0 => ex.ran
    /\ \A i, j : Around(fr, i, j) /\ fr[i].breaks # 0 => fr[j].save_execssid.ran
    /\ (\A i \in DOMAIN fr : fr[i].f # "svc") => ex.ssid = NULL
    /\ \A j \in DOMAIN fr : fr[j].f = "svc" /\ (\A i \in DOMAIN fr : i < j => fr[i].f # "svc") =>
          fr[j].save_execssid.ssid = NULL

\* The exceptions to execute, with the ones that extended SVCs keep until they end.
Carried(fr, ex) == ex \cup UNION {fr[i].save_exectex : i \in {j \in DOMAIN fr : fr[j].f = "svc"}}

TexOK(fr, hdr, fg, mask, pend, ex, flg, req) ==
    /\ pend \subseteq mask
    /\ ~hdr => pend = {} /\ Carried(fr, ex) \subseteq fg
    /\ 0 \in pend /\ "TEX0" \notin flg => req /\ 0 \in Carried(fr, ex)
    /\ pend # {} /\ flg \cap Tex = {} => req /\ Carried(fr, ex) # {}
    /\ \A i \in DOMAIN fr : fr[i].f \in {"ssfn", "brk"} => fr[i].save_texflg \cap Tex = flg \cap Tex

LockTypes(sl, wq) == /\ sl \in [SvcTasks -> Seq(SvcTasks)]
                     /\ wq \in [SvcTasks -> Seq(SvcTasks) \cup {NULL}]

PlacesInv == \A t \in SvcTasks : PlaceOK(t, pc[t], frames[t])
HoldsAll(sl, p, fr) == \A t \in SvcTasks : HoldsOK(t, p[t], fr[t], sl[t])
BrokenInv == \A t \in SvcTasks : BrokenOK(frames[t], execssid[t])
TexInv == \A t \in SvcTasks : TexOK(frames[t], texhdr[t], forgotten[t], texmask[t], pendtex[t], exectex[t],
                                    texflg[t], reqdct[t])

SvcInv ==
    /\ SvcTypes /\ LockTypes(svclocked, wtskq)
    /\ LocksInv(svclocked, wtskq, tstat, pc)
    /\ PlacesInv /\ HoldsAll(svclocked, pc, frames) /\ BrokenInv /\ TexInv
-----------------------------------------------------------------------------
(* Tables of slots.                                                        *)

\* The search of a table finds a free slot if there is one.
LEMMA FirstFree ==
  ASSUME NEW table, DOMAIN table \subseteq Nat, free_slots(table) # {}
  PROVE  first_free(table) \in DOMAIN table /\ table[first_free(table)] = NULL
<1>. DEFINE I == free_slots(table)
<1>1. I \in SUBSET Nat /\ I # {} /\ I \subseteq DOMAIN table
  BY DEF free_slots
<1>2. PICK m \in I : \A j \in I : m <= j
  BY <1>1, LeastMember
<1>3. lowest(I) \in I
  BY <1>2 DEF lowest
<1>. QED  BY <1>1, <1>3 DEF first_free, free_slots

\* The smaller and the greater of two numbers.
LEMMA MinMaxPair ==
  ASSUME NEW a \in Int, NEW b \in Int
  PROVE  /\ Min({a, b}) = IF a <= b THEN a ELSE b
         /\ Max({a, b}) = IF a >= b THEN a ELSE b
<1>1. \E x \in {a, b} : \A y \in {a, b} : x =< y
  OBVIOUS
<1>2. \E x \in {a, b} : \A y \in {a, b} : x >= y
  OBVIOUS
<1>3. Min({a, b}) \in {a, b} /\ \A y \in {a, b} : Min({a, b}) =< y
  BY <1>1 DEF Min
<1>4. Max({a, b}) \in {a, b} /\ \A y \in {a, b} : Max({a, b}) >= y
  BY <1>2 DEF Max
<1>. QED  BY <1>3, <1>4

-----------------------------------------------------------------------------
(* Processes, blocks of memory and devices.                                *)

\* Ids are given out in their order.
ProcInv == /\ g_procs \in [ProcSlots -> 0..MaxIds \cup {NULL}]
           /\ g_next_pid \in 1..MaxIds + 1
           /\ launching \subseteq 1..g_next_pid - 1 /\ messages \subseteq 1..g_next_pid - 1
           /\ launching \cap messages = {}
           /\ \A i \in ProcSlots : g_procs[i] # NULL => g_procs[i] < g_next_pid
           /\ \A i, j \in ProcSlots : i # j /\ g_procs[i] # NULL => g_procs[i] # g_procs[j]

\* Every step of the process manager keeps its invariant.
LEMMA ProcStep ==
  ASSUME ProcInv, ProcNext  PROVE ProcInv'
<1>. USE ManagersAssumption DEF ProcInv, ProcSlots
<1>1. ASSUME NEW msg \in BOOLEAN, cre_prc(msg)  PROVE ProcInv'
  <2>. DEFINE i == first_free(g_procs)
  <2>1. i \in ProcSlots /\ g_procs[i] = NULL
    <3>1. ProcSlots \in SUBSET Nat /\ free_slots(g_procs) # {}
      BY <1>1 DEF cre_prc
    <3>. QED  BY <3>1, FirstFree
  <2>2. g_procs' = [g_procs EXCEPT ![i] = g_next_pid] /\ g_next_pid' = g_next_pid + 1 /\ g_next_pid <= MaxIds
    BY <1>1 DEF cre_prc
  <2>. HIDE DEF i
  <2>3. /\ launching' \subseteq launching \cup {g_next_pid} /\ messages' = messages
        /\ g_next_pid \notin messages
    BY <1>1 DEF cre_prc
  <2>4. g_procs' \in [ProcSlots -> 0..MaxIds \cup {NULL}] /\ g_next_pid' \in 1..MaxIds + 1
    BY <2>1, <2>2
  <2>5. /\ launching' \subseteq 1..g_next_pid' - 1 /\ messages' \subseteq 1..g_next_pid' - 1
        /\ launching' \cap messages' = {}
    BY <2>2, <2>3
  <2>6. \A j \in ProcSlots : g_procs'[j] = IF j = i THEN g_next_pid ELSE g_procs[j]
    BY <2>1, <2>2
  <2>7. \A j \in ProcSlots : g_procs'[j] # NULL => g_procs'[j] < g_next_pid'
    BY <2>2, <2>6
  <2>8. \A j, k \in ProcSlots : j # k /\ g_procs'[j] # NULL => g_procs'[j] # g_procs'[k]
    BY <2>2, <2>6
  <2>. QED  BY <2>4, <2>5, <2>7, <2>8
<1>2. ASSUME NEW pid \in 1..MaxIds, ter_prc(pid)  PROVE ProcInv'
  <2>1. PICK i \in ProcSlots \ {0} : g_procs' = [g_procs EXCEPT ![i] = NULL]
    BY <1>2 DEF ter_prc
  <2>. QED  BY <1>2, <2>1 DEF ter_prc
<1>3. ASSUME NEW pid \in 1..MaxIds, snd_launch(pid)  PROVE ProcInv'
  BY <1>3 DEF snd_launch
<1>. QED  BY <1>1, <1>2, <1>3 DEF ProcNext

\* One entry of the table for each block, none for the other addresses.
MemInv == /\ g_mem_table \in [MemSlots -> [base_ptr : Bases, nblk : NBlks] \cup {NULL}]
          /\ malloced \subseteq Bases
          /\ \A adr \in Bases :
                adr \in malloced <=> \E i \in MemSlots : g_mem_table[i] # NULL /\ g_mem_table[i].base_ptr = adr
          /\ \A i, j \in MemSlots : g_mem_table[i] # NULL /\ g_mem_table[j] # NULL
                                    /\ g_mem_table[i].base_ptr = g_mem_table[j].base_ptr => i = j

\* Every step of the memory manager keeps its invariant.
LEMMA MemStep ==
  ASSUME MemInv, MemNext  PROVE MemInv'
<1>. USE DEF MemInv
<1>. DEFINE Entry == [base_ptr : Bases, nblk : NBlks]
<1>1. ASSUME NEW adr \in Bases, rel_mbk(adr)  PROVE MemInv'
  <2>1. PICK i \in mbk(adr) : g_mem_table' = [g_mem_table EXCEPT ![i] = NULL] /\ malloced' = malloced \ {adr}
    BY <1>1 DEF rel_mbk
  <2>2. i \in MemSlots /\ g_mem_table[i] # NULL /\ g_mem_table[i].base_ptr = adr
    BY DEF mbk
  <2>. QED  BY <2>1, <2>2
<1>2. ASSUME NEW adr \in Bases, NEW nblk \in NBlks, get_mbk(nblk, adr)  PROVE MemInv'
  <2>. DEFINE i == first_free(g_mem_table)
              e == [base_ptr |-> adr, nblk |-> nblk]
  <2>1. i \in MemSlots /\ g_mem_table[i] = NULL
    <3>1. MemSlots \in SUBSET Nat /\ free_slots(g_mem_table) # {}
      BY <1>2, ManagersAssumption DEF get_mbk, MemSlots
    <3>2. DOMAIN g_mem_table = MemSlots
      OBVIOUS
    <3>. QED  BY <3>1, <3>2, FirstFree
  <2>2. g_mem_table' = [g_mem_table EXCEPT ![i] = e] /\ malloced' = malloced \cup {adr} /\ adr \notin malloced
    BY <1>2 DEF get_mbk
  <2>3. e \in Entry /\ e # NULL /\ e.base_ptr = adr
    BY ManagersAssumption
  <2>. HIDE DEF i, e
  <2>. QED  BY <2>1, <2>2, <2>3
<1>3. ASSUME NEW adr \in Bases, NEW nblk \in NBlks, chg_mbk(adr, nblk)  PROVE MemInv'
  <2>1. PICK i \in mbk(adr) : g_mem_table' = [g_mem_table EXCEPT ![i].nblk = nblk] /\ malloced' = malloced
    BY <1>3 DEF chg_mbk
  <2>2. i \in MemSlots /\ g_mem_table[i] # NULL /\ g_mem_table[i].base_ptr = adr
    BY DEF mbk
  <2>. DEFINE e == [g_mem_table[i] EXCEPT !.nblk = nblk]
  <2>3. e \in Entry /\ e # NULL /\ e.base_ptr = adr
    BY <2>2, ManagersAssumption
  <2>4. g_mem_table' = [g_mem_table EXCEPT ![i] = e]
    BY <2>1
  <2>. HIDE DEF e
  <2>. QED  BY <2>1, <2>2, <2>3, <2>4
<1>. QED  BY <1>1, <1>2, <1>3 DEF MemNext

\* An opened device holds the bytes from rd + 1 to wr.
DevOK(d) == /\ d \in [dev_id : Nat, buf : Seq(Nat), rd : Nat, wr : Nat]
            /\ d.rd <= d.wr /\ d.wr - d.rd <= BufSize
            /\ d.buf = [k \in 1..d.wr - d.rd |-> d.rd + k]

DevInv == /\ DOMAIN g_devs = DevSlots /\ g_devs = [i \in DevSlots |-> g_devs[i]] /\ g_next_dev_id \in Nat
          /\ \A i \in DevSlots : g_devs[i] # NULL => DevOK(g_devs[i]) /\ g_devs[i].dev_id < g_next_dev_id
          /\ \A i, j \in DevSlots : i # j /\ g_devs[i] # NULL /\ g_devs[j] # NULL => g_devs[i].dev_id # g_devs[j].dev_id

\* A device that is open stays open under the same id, with its bytes in order.
LEMMA DevChange ==
  ASSUME DevInv, NEW i \in DevSlots, g_devs[i] # NULL, NEW d, DevOK(d), d.dev_id = g_devs[i].dev_id,
         g_devs' = [g_devs EXCEPT ![i] = d], UNCHANGED g_next_dev_id
  PROVE  DevInv'
<1>1. \A j \in DevSlots : g_devs'[j] = IF j = i THEN d ELSE g_devs[j]
  BY DEF DevInv
<1>2. DOMAIN g_devs' = DevSlots /\ g_devs' = [j \in DevSlots |-> g_devs'[j]]
  BY DEF DevInv
<1>. QED  BY <1>1, <1>2 DEF DevInv
\* The numbers after r up to w.
Bytes(r, w) == [k \in 1..w - r |-> r + k]

NewBytes(w, n) == [k \in 1..n |-> w + k]

\* They are a sequence, and numbers written behind them or read before them
\* leave such a sequence.
LEMMA BytesMoved ==
  ASSUME NEW r \in Nat, NEW w \in Nat, NEW n \in Nat, r <= w
  PROVE  /\ Bytes(r, w) \in Seq(Nat) /\ Len(Bytes(r, w)) = w - r
         /\ Bytes(r, w) \o NewBytes(w, n) = Bytes(r, w + n) /\ Bytes(r, w + n) \in Seq(Nat)
         /\ r + n <= w => SubSeq(Bytes(r, w), n + 1, Len(Bytes(r, w))) = Bytes(r + n, w) /\ Bytes(r + n, w) \in Seq(Nat)
<1>1. ASSUME NEW a \in Nat, NEW b \in Nat, a <= b
      PROVE  /\ Bytes(a, b) \in Seq(Nat) /\ Len(Bytes(a, b)) = b - a
             /\ \A k \in 1..b - a : Bytes(a, b)[k] = a + k
  <2>1. b - a \in Nat /\ \A k \in 1..b - a : a + k \in Nat
    BY <1>1
  <2>. QED  BY <2>1 DEF Bytes
<1>2. Bytes(r, w) \o NewBytes(w, n) = Bytes(r, w + n) /\ Bytes(r, w + n) \in Seq(Nat)
  <2>. DEFINE more == NewBytes(w, n)
              both == Bytes(r, w) \o more
  <2>1. more \in Seq(Nat) /\ Len(more) = n /\ \A k \in 1..n : more[k] = w + k
    BY DEF NewBytes
  <2>0. w + n \in Nat /\ r <= w + n
    OBVIOUS
  <2>2. /\ Bytes(r, w + n) \in Seq(Nat) /\ Len(Bytes(r, w + n)) = w + n - r
        /\ \A k \in 1..w + n - r : Bytes(r, w + n)[k] = r + k
    BY <2>0, <1>1
  <2>3. /\ Bytes(r, w) \in Seq(Nat) /\ Len(Bytes(r, w)) = w - r
        /\ \A k \in 1..w - r : Bytes(r, w)[k] = r + k
    BY <1>1
  <2>. HIDE DEF more
  <2>4. /\ both \in Seq(Nat) /\ Len(both) = w + n - r
        /\ \A k \in 1..w + n - r : both[k] = IF k <= w - r THEN Bytes(r, w)[k] ELSE more[k - (w - r)]
    <3>1. /\ both \in Seq(Nat) /\ Len(both) = Len(Bytes(r, w)) + Len(more)
          /\ \A k \in 1..Len(Bytes(r, w)) + Len(more) :
                both[k] = IF k <= Len(Bytes(r, w)) THEN Bytes(r, w)[k] ELSE more[k - Len(Bytes(r, w))]
      BY <2>1, <2>3, ConcatProperties
    <3>. HIDE DEF both
    <3>2. (w - r) + n = w + n - r
      OBVIOUS
    <3>. QED  BY <2>1, <2>3, <3>1, <3>2
  <2>. HIDE DEF both
  <2>5. ASSUME NEW k \in 1..w + n - r  PROVE both[k] = Bytes(r, w + n)[k]
    <3>1. CASE k <= w - r
      BY <2>2, <2>3, <2>4, <3>1
    <3>2. CASE k > w - r
      <4>1. k - (w - r) \in 1..n
        BY <3>2
      <4>. QED  BY <2>1, <2>2, <2>4, <3>2, <4>1
    <3>. QED  BY <3>1, <3>2
  <2>6. both = Bytes(r, w + n)
    BY <2>2, <2>4, <2>5, SeqEqual
  <2>. QED  BY <2>2, <2>6 DEF both, more
<1>3. ASSUME r + n <= w
      PROVE  SubSeq(Bytes(r, w), n + 1, Len(Bytes(r, w))) = Bytes(r + n, w) /\ Bytes(r + n, w) \in Seq(Nat)
  <2>. DEFINE left == SubSeq(Bytes(r, w), n + 1, w - r)
  <2>1. /\ Bytes(r, w) \in Seq(Nat) /\ Len(Bytes(r, w)) = w - r
        /\ \A k \in 1..w - r : Bytes(r, w)[k] = r + k
    BY <1>1
  <2>2. /\ Bytes(r + n, w) \in Seq(Nat) /\ Len(Bytes(r + n, w)) = w - (r + n)
        /\ \A k \in 1..w - (r + n) : Bytes(r + n, w)[k] = (r + n) + k
    <3>1. r + n \in Nat
      OBVIOUS
    <3>. QED  BY <1>1, <1>3, <3>1
  <2>3. \A k \in n + 1..w - r : Bytes(r, w)[k] \in Nat
    BY <2>1
  <2>4. /\ left \in Seq(Nat) /\ Len(left) = IF n + 1 <= w - r THEN (w - r) - (n + 1) + 1 ELSE 0
        /\ \A k \in 1..(w - r) - (n + 1) + 1 : left[k] = Bytes(r, w)[(n + 1) + k - 1]
    BY <2>3, SubSeqProperties
  <2>. HIDE DEF left
  <2>5. Len(left) = w - (r + n)
    BY <1>3, <2>4
  <2>6. ASSUME NEW k \in 1..w - (r + n)  PROVE left[k] = Bytes(r + n, w)[k]
    <3>1. n + k \in 1..w - r /\ (n + 1) + k - 1 = n + k /\ k \in 1..(w - r) - (n + 1) + 1
      BY <1>3
    <3>2. left[k] = Bytes(r, w)[n + k]
      BY <2>4, <3>1
    <3>. QED  BY <2>1, <2>2, <3>1, <3>2
  <2>7. left = Bytes(r + n, w)
    BY <2>2, <2>4, <2>5, <2>6, SeqEqual
  <2>. QED  BY <2>1, <2>2, <2>7 DEF left
<1>. QED  BY <1>1, <1>2, <1>3

\* What a call does to an opened device.
LEMMA DevWritten ==
  ASSUME NEW o, DevOK(o), NEW sz \in Nat, NEW n, n = to_write(o, sz)
  PROVE  LET d == [o EXCEPT !.buf = @ \o [k \in 1..n |-> o.wr + k], !.wr = @ + n]
         IN  DevOK(d) /\ d.dev_id = o.dev_id
<1>. DEFINE d == [o EXCEPT !.buf = @ \o [k \in 1..n |-> o.wr + k], !.wr = @ + n]
<1>1. /\ o \in [dev_id : Nat, buf : Seq(Nat), rd : Nat, wr : Nat] /\ o.rd \in Nat /\ o.wr \in Nat /\ o.rd <= o.wr
      /\ o.wr - o.rd <= BufSize /\ o.buf = Bytes(o.rd, o.wr)
  BY DEF DevOK, Bytes
<1>2. Len(o.buf) = o.wr - o.rd /\ BufSize \in Nat
  BY <1>1, BytesMoved, ManagersAssumption
<1>3. n \in Nat /\ o.wr + n - o.rd <= BufSize
  <2>1. BufSize - Len(o.buf) \in Int /\ BufSize - Len(o.buf) >= 0
    BY <1>1, <1>2
  <2>2. n = IF sz <= BufSize - Len(o.buf) THEN sz ELSE BufSize - Len(o.buf)
    BY <2>1, MinMaxPair DEF to_write
  <2>. QED  BY <1>1, <1>2, <2>1, <2>2, SMTT(40)
<1>4. o.buf \o NewBytes(o.wr, n) = Bytes(o.rd, o.wr + n) /\ Bytes(o.rd, o.wr + n) \in Seq(Nat)
  <2>1. ASSUME NEW r \in Nat, NEW w \in Nat, r <= w
        PROVE  Bytes(r, w) \o NewBytes(w, n) = Bytes(r, w + n) /\ Bytes(r, w + n) \in Seq(Nat)
    BY <1>3, <2>1, BytesMoved, ZenonT(60)
  <2>. QED  BY <1>1, <2>1
<1>41. d = [o EXCEPT !.buf = Bytes(o.rd, o.wr + n), !.wr = o.wr + n]
  BY <1>1, <1>4 DEF NewBytes
<1>5. /\ d \in [dev_id : Nat, buf : Seq(Nat), rd : Nat, wr : Nat] /\ d.dev_id = o.dev_id
      /\ d.buf = Bytes(o.rd, o.wr + n) /\ d.rd = o.rd /\ d.wr = o.wr + n
  <2>. HIDE DEF d
  <2>1. o.wr + n \in Nat
    BY <1>1, <1>3
  <2>. QED  BY <1>1, <1>4, <1>41, <2>1
<1>6. d.rd <= d.wr /\ d.wr - d.rd <= BufSize
  BY <1>1, <1>3, <1>5, SMTT(40)
<1>. HIDE DEF d
<1>7. DevOK(d) /\ d.dev_id = o.dev_id
  BY <1>5, <1>6 DEF DevOK, Bytes
<1>. QED  BY <1>7 DEF d

\* Reading takes the first bytes away.
LEMMA DevRead ==
  ASSUME NEW o, DevOK(o), NEW sz \in Nat, NEW n, n = Min({sz, Len(o.buf)})
  PROVE  LET d == [o EXCEPT !.buf = SubSeq(@, n + 1, Len(@)), !.rd = @ + n]
         IN  DevOK(d) /\ d.dev_id = o.dev_id
<1>. DEFINE d == [o EXCEPT !.buf = SubSeq(@, n + 1, Len(@)), !.rd = @ + n]
<1>1. /\ o \in [dev_id : Nat, buf : Seq(Nat), rd : Nat, wr : Nat] /\ o.rd \in Nat /\ o.wr \in Nat /\ o.rd <= o.wr
      /\ o.wr - o.rd <= BufSize /\ o.buf = Bytes(o.rd, o.wr)
  BY DEF DevOK, Bytes
<1>2. Len(o.buf) = o.wr - o.rd /\ BufSize \in Nat
  BY <1>1, BytesMoved, ManagersAssumption
<1>3. n \in Nat /\ o.rd + n <= o.wr
  <2>1. n = IF sz <= Len(o.buf) THEN sz ELSE Len(o.buf)
    BY <1>1, <1>2, MinMaxPair
  <2>. QED  BY <1>1, <1>2, <2>1
<1>4. SubSeq(o.buf, n + 1, Len(o.buf)) = Bytes(o.rd + n, o.wr) /\ Bytes(o.rd + n, o.wr) \in Seq(Nat)
  <2>1. ASSUME NEW r \in Nat, NEW w \in Nat, r <= w, r + n <= w
        PROVE  /\ SubSeq(Bytes(r, w), n + 1, Len(Bytes(r, w))) = Bytes(r + n, w)
               /\ Bytes(r + n, w) \in Seq(Nat)
    BY <1>3, <2>1, BytesMoved
  <2>. QED  BY <1>1, <1>3, <2>1, ZenonT(60)
<1>41. d = [o EXCEPT !.buf = Bytes(o.rd + n, o.wr), !.rd = o.rd + n]
  BY <1>1, <1>4
<1>5. /\ d \in [dev_id : Nat, buf : Seq(Nat), rd : Nat, wr : Nat] /\ d.dev_id = o.dev_id
      /\ d.buf = Bytes(o.rd + n, o.wr) /\ d.rd = o.rd + n /\ d.wr = o.wr
  <2>. HIDE DEF d
  <2>1. o.rd + n \in Nat
    BY <1>1, <1>3
  <2>. QED  BY <1>1, <1>4, <1>41, <2>1
<1>6. d.rd <= d.wr /\ d.wr - d.rd <= BufSize
  BY <1>1, <1>2, <1>3, <1>5, SMTT(60)
<1>. HIDE DEF d
<1>7. DevOK(d) /\ d.dev_id = o.dev_id
  BY <1>5, <1>6 DEF DevOK, Bytes
<1>. QED  BY <1>7 DEF d

\* A new device, and one that is flushed, hold nothing.
LEMMA DevEmpty ==
  /\ \A id \in Nat : DevOK([dev_id |-> id, buf |-> <<>>, rd |-> 0, wr |-> 0])
  /\ \A o : DevOK(o) => DevOK([o EXCEPT !.buf = <<>>, !.rd = o.wr])
<1>1. BufSize \in Nat
  BY ManagersAssumption
<1>2. \A w \in Nat : <<>> = [k \in 1..w - w |-> w + k]
  OBVIOUS
<1>3. <<>> \in Seq(Nat)
  OBVIOUS
<1>4. ASSUME NEW id \in Nat  PROVE DevOK([dev_id |-> id, buf |-> <<>>, rd |-> 0, wr |-> 0])
  BY <1>1, <1>2, <1>3 DEF DevOK
<1>5. ASSUME NEW o, DevOK(o)  PROVE DevOK([o EXCEPT !.buf = <<>>, !.rd = o.wr])
  <2>. DEFINE d == [o EXCEPT !.buf = <<>>, !.rd = o.wr]
  <2>1. o \in [dev_id : Nat, buf : Seq(Nat), rd : Nat, wr : Nat] /\ o.wr \in Nat
    BY <1>5 DEF DevOK
  <2>2. d \in [dev_id : Nat, buf : Seq(Nat), rd : Nat, wr : Nat] /\ d.buf = <<>> /\ d.rd = o.wr /\ d.wr = o.wr
    BY <1>3, <2>1
  <2>. HIDE DEF d
  <2>3. DevOK(d)
    BY <1>1, <1>2, <2>1, <2>2 DEF DevOK
  <2>. QED  BY <2>3 DEF d
<1>. QED  BY <1>4, <1>5

\* Every step of the device manager keeps its invariant.
LEMMA DevStep ==
  ASSUME DevInv, DevNext  PROVE DevInv'
<1>0. ASSUME NEW id, NEW i \in dev(id)  PROVE i \in DevSlots /\ g_devs[i] # NULL /\ DevOK(g_devs[i])
  BY DEF dev, DevInv
<1>1. ASSUME opn_dev_mgr  PROVE DevInv'
  <2>. DEFINE i == first_free(g_devs)
              d == [dev_id |-> g_next_dev_id, buf |-> <<>>, rd |-> 0, wr |-> 0]
  <2>1. i \in DevSlots /\ g_devs[i] = NULL
    <3>1. DevSlots \subseteq Nat /\ DOMAIN g_devs = DevSlots
      BY ManagersAssumption DEF DevSlots, DevInv
    <3>2. free_slots(g_devs) # {}
      BY <1>1 DEF opn_dev_mgr
    <3>. QED  BY <3>1, <3>2, FirstFree
  <2>2. g_devs' = [g_devs EXCEPT ![i] = d] /\ g_next_dev_id' = g_next_dev_id + 1
    BY <1>1 DEF opn_dev_mgr
  <2>3. DevOK(d) /\ d.dev_id = g_next_dev_id /\ g_next_dev_id \in Nat
    BY DevEmpty DEF DevInv
  <2>. HIDE DEF i, d
  <2>4. \A j \in DevSlots : g_devs'[j] = IF j = i THEN d ELSE g_devs[j]
    BY <2>1, <2>2 DEF DevInv
  <2>5. DOMAIN g_devs' = DevSlots /\ g_devs' = [j \in DevSlots |-> g_devs'[j]] /\ g_next_dev_id' \in Nat
    BY <2>1, <2>2 DEF DevInv
  <2>6. ASSUME NEW j \in DevSlots, g_devs[j] # NULL
        PROVE  DevOK(g_devs[j]) /\ g_devs[j].dev_id < g_next_dev_id /\ g_devs[j].dev_id \in Nat
    BY <2>6 DEF DevInv, DevOK
  <2>7. \A j \in DevSlots : g_devs'[j] # NULL => DevOK(g_devs'[j]) /\ g_devs'[j].dev_id < g_next_dev_id'
    BY <2>2, <2>3, <2>4, <2>6
  <2>8. \A j, k \in DevSlots : j # k /\ g_devs'[j] # NULL /\ g_devs'[k] # NULL => g_devs'[j].dev_id # g_devs'[k].dev_id
    <3>1. \A j \in DevSlots : g_devs[j] # NULL => g_devs[j].dev_id # d.dev_id
      BY <2>3, <2>6
    <3>. QED  BY <2>4, <3>1 DEF DevInv
  <2>. QED  BY <2>5, <2>7, <2>8 DEF DevInv
<1>2. ASSUME NEW id \in 1..MaxIds, cls_dev_mgr(id)  PROVE DevInv'
  <2>1. PICK i \in dev(id) : g_devs' = [g_devs EXCEPT ![i] = NULL] /\ UNCHANGED g_next_dev_id
    BY <1>2 DEF cls_dev_mgr
  <2>2. \A j \in DevSlots : g_devs'[j] = IF j = i THEN NULL ELSE g_devs[j]
    BY <1>0, <2>1 DEF DevInv
  <2>3. DOMAIN g_devs' = DevSlots /\ g_devs' = [j \in DevSlots |-> g_devs'[j]]
    BY <1>0, <2>1 DEF DevInv
  <2>. QED  BY <2>1, <2>2, <2>3 DEF DevInv
<1>3. ASSUME NEW id \in 1..MaxIds, flush(id)  PROVE DevInv'
  <2>1. PICK i \in dev(id) : /\ g_devs' = [g_devs EXCEPT ![i].buf = <<>>, ![i].rd = g_devs[i].wr]
                             /\ UNCHANGED g_next_dev_id
    BY <1>3 DEF flush
  <2>. DEFINE d == [g_devs[i] EXCEPT !.buf = <<>>, !.rd = g_devs[i].wr]
  <2>2. i \in DevSlots /\ g_devs[i] # NULL /\ DevOK(g_devs[i])
    BY <1>0
  <2>3. DevOK(d) /\ d.dev_id = g_devs[i].dev_id
    BY <2>2, DevEmpty DEF DevOK
  <2>4. g_devs' = [g_devs EXCEPT ![i] = d]
    BY <2>1, <2>2 DEF DevInv
  <2>. HIDE DEF d
  <2>. QED  BY <2>1, <2>2, <2>3, <2>4, DevChange
<1>4. ASSUME NEW id \in 1..MaxIds, NEW sz \in 0..MaxSz, wri_dev(id, sz)  PROVE DevInv'
  <2>1. PICK i \in dev(id) :
           /\ g_devs' = [g_devs EXCEPT ![i] = [g_devs[i] EXCEPT
                           !.buf = @ \o [k \in 1..to_write(g_devs[i], sz) |-> g_devs[i].wr + k],
                           !.wr = @ + to_write(g_devs[i], sz)]]
           /\ UNCHANGED g_next_dev_id
    BY <1>4 DEF wri_dev
  <2>. DEFINE o == g_devs[i]
              n == to_write(o, sz)
              d == [o EXCEPT !.buf = @ \o [k \in 1..n |-> o.wr + k], !.wr = @ + n]
  <2>2. i \in DevSlots /\ o # NULL /\ DevOK(o)
    BY <1>0
  <2>3. sz \in Nat
    BY ManagersAssumption
  <2>4. DevOK(d) /\ d.dev_id = o.dev_id
    BY <2>2, <2>3, DevWritten
  <2>. QED  BY <2>1, <2>2, <2>4, DevChange
<1>5. ASSUME NEW id \in 1..MaxIds, NEW sz \in 0..MaxSz, rea_dev(id, sz)  PROVE DevInv'
  <2>1. PICK i \in dev(id) :
           /\ g_devs' = [g_devs EXCEPT ![i] = [g_devs[i] EXCEPT
                           !.buf = SubSeq(@, Min({sz, Len(g_devs[i].buf)}) + 1, Len(@)),
                           !.rd = @ + Min({sz, Len(g_devs[i].buf)})]]
           /\ UNCHANGED g_next_dev_id
    BY <1>5 DEF rea_dev
  <2>. DEFINE o == g_devs[i]
              n == Min({sz, Len(o.buf)})
              d == [o EXCEPT !.buf = SubSeq(@, n + 1, Len(@)), !.rd = @ + n]
  <2>2. i \in DevSlots /\ o # NULL /\ DevOK(o)
    BY <1>0
  <2>3. sz \in Nat
    BY ManagersAssumption
  <2>4. DevOK(d) /\ d.dev_id = o.dev_id
    BY <2>2, <2>3, DevRead
  <2>. QED  BY <2>1, <2>2, <2>4, DevChange
<1>. QED  BY <1>1, <1>2, <1>3, <1>4, <1>5 DEF DevNext
-----------------------------------------------------------------------------
(* Threads and semaphores.                                                 *)

\* A thread goes to semaphore s, or leaves it: the number of those on the way.
LEMMA WokenMore ==
  ASSUME NEW S \in SUBSET SmpTasks, NEW t \in SmpTasks
  PROVE  /\ IsFiniteSet(S) /\ Cardinality(S) \in Nat
         /\ t \notin S => Cardinality(S \cup {t}) = Cardinality(S) + 1
         /\ t \in S => Cardinality(S \ {t}) = Cardinality(S) - 1
<1>1. IsFiniteSet(S)
  BY SmpAssumption, FS_Subset
<1>. QED  BY <1>1, FS_CardinalityType, FS_AddElement, FS_RemoveElement

\* A change that concerns no semaphore.
LEMMA SmpQuiet ==
  ASSUME SmpInv, SmpTypeOK', UNCHANGED <<wants, sem>>,
         \A t \in SmpTasks : thread'[t] = thread[t] \/ (wants[t] = {} /\ thread'[t] \notin {"waits", "woken"})
  PROVE  SmpInv'
<1>1. \A s \in SmpSems : sem_waiters(s)' = sem_waiters(s) /\ woken_for(s)' = woken_for(s)
  BY DEF sem_waiters, woken_for
<1>2. \A t \in SmpTasks : /\ thread'[t] \notin {"waits", "woken"} => wants'[t] = {}
                          /\ thread'[t] \in {"waits", "woken"} =>
                                 \E s \in SmpSems : wants'[t] = {s} /\ sem'[s].active
  BY DEF SmpInv
<1>. QED  BY <1>1, <1>2 DEF SmpInv

\* wai_sem of a thread that is not blocked.
LEMMA SmpWait ==
  ASSUME SmpInv, NEW t \in SmpTasks, NEW s \in SmpSems, sem[s].active, wai_or_take(t, s),
         \/ thread[t] = "runs"
         \/ thread[t] = "woken" /\ s \in wants[t]
  PROVE  SmpInv'
<1>. DEFINE W(r) == woken_for(r)
<1>1. /\ thread \in [SmpTasks -> {"none", "created", "runs", "slp_found", "asleep", "waits", "woken", "ended"}]
      /\ wants \in [SmpTasks -> SUBSET SmpSems]
      /\ sem \in [SmpSems -> [active : BOOLEAN, count : 0..MaxSem]] /\ MaxSem \in Nat
      /\ sleeping \in [SmpTasks -> BOOLEAN]
  BY SmpAssumption DEF SmpInv, SmpTypeOK
<1>2. \A r \in SmpSems : r # s => t \notin W(r)
  BY DEF SmpInv, woken_for
<1>3. CASE takeable(t, s)
  <2>1. /\ sem' = [sem EXCEPT ![s].count = @ - 1] /\ wants' = [wants EXCEPT ![t] = {}]
        /\ thread' = [thread EXCEPT ![t] = "runs"] /\ sleeping' = sleeping /\ sem[s].count > 0
    BY <1>3 DEF wai_or_take, take, go, takeable
  <2>2. /\ sem' \in [SmpSems -> [active : BOOLEAN, count : 0..MaxSem]]
        /\ sem'[s].count = sem[s].count - 1 /\ sem[s].count \in Nat
        /\ \A r \in SmpSems : sem'[r].active = sem[r].active /\ (r # s => sem'[r] = sem[r])
    BY <1>1, <2>1
  <2>3. SmpTypeOK' /\ wants' \in [SmpTasks -> SUBSET SmpSems]
    BY <1>1, <2>1, <2>2 DEF SmpTypeOK
  <2>4. \A u \in SmpTasks : /\ thread'[u] \notin {"waits", "woken"} => wants'[u] = {}
                            /\ thread'[u] \in {"waits", "woken"} =>
                                 \E r \in SmpSems : wants'[u] = {r} /\ sem'[r].active
    BY <1>1, <2>1, <2>2 DEF SmpInv
  <2>5. ASSUME NEW r \in SmpSems, sem_waiters(r)' # {}
        PROVE  Cardinality(woken_for(r)') >= sem'[r].count
    <3>1. /\ sem_waiters(r)' = sem_waiters(r)
          /\ woken_for(r)' = W(r) \ {t}
      BY <1>1, <2>1 DEF sem_waiters, woken_for, SmpInv
    <3>2. Cardinality(W(r)) >= sem[r].count /\ W(r) \in SUBSET SmpTasks
      BY <2>5, <3>1 DEF SmpInv, woken_for
    <3>3. CASE r # s
      <4>1. W(r) \ {t} = W(r)
        BY <1>2, <3>3
      <4>. QED  BY <2>2, <3>1, <3>2, <3>3, <4>1
    <3>4. CASE r = s /\ t \in W(s)
      BY <1>1, <2>2, <3>1, <3>2, <3>4, WokenMore, SMTT(40)
    <3>5. CASE r = s /\ t \notin W(s)
      <4>1. W(r) \ {t} = W(r)
        BY <3>5
      <4>2. Cardinality(W(r)) \in Nat
        BY <3>2, WokenMore
      <4>3. Cardinality(woken_for(r)') = Cardinality(W(r)) /\ sem'[r].count = sem[r].count - 1
        BY <2>2, <3>1, <3>5, <4>1
      <4>. QED  BY <2>2, <3>2, <3>5, <4>2, <4>3
    <3>. QED  BY <3>3, <3>4, <3>5
  <2>. QED  BY <2>2, <2>3, <2>4, <2>5 DEF SmpInv
<1>4. CASE ~takeable(t, s)
  <2>1. /\ sem' = sem /\ wants' = [wants EXCEPT ![t] = {s}]
        /\ thread' = [thread EXCEPT ![t] = "waits"] /\ sleeping' = sleeping /\ sem[s].count = 0
    BY <1>1, <1>4 DEF wai_or_take, go, takeable
  <2>2. SmpTypeOK' /\ wants' \in [SmpTasks -> SUBSET SmpSems]
    BY <1>1, <2>1 DEF SmpTypeOK
  <2>3. \A u \in SmpTasks : /\ thread'[u] \notin {"waits", "woken"} => wants'[u] = {}
                            /\ thread'[u] \in {"waits", "woken"} =>
                                 \E r \in SmpSems : wants'[u] = {r} /\ sem'[r].active
    BY <1>1, <2>1 DEF SmpInv
  <2>4. ASSUME NEW r \in SmpSems, sem_waiters(r)' # {}
        PROVE  Cardinality(woken_for(r)') >= sem'[r].count
    <3>1. CASE r = s
      <4>1. woken_for(r)' \in SUBSET SmpTasks
        BY DEF woken_for
      <4>2. \A S \in SUBSET SmpTasks : Cardinality(S) \in Nat
        BY WokenMore
      <4>. QED  BY <2>1, <3>1, <4>1, <4>2
    <3>2. CASE r # s
      <4>1. sem_waiters(r)' = sem_waiters(r) /\ woken_for(r)' = W(r)
        BY <1>1, <1>2, <2>1, <3>2 DEF sem_waiters, woken_for, SmpInv
      <4>. QED  BY <2>1, <2>4, <4>1 DEF SmpInv
    <3>. QED  BY <3>1, <3>2
  <2>. QED  BY <1>1, <2>1, <2>2, <2>3, <2>4 DEF SmpInv
<1>. QED  BY <1>3, <1>4

\* sig_sem wakes one thread if one is blocked.
LEMMA SmpSignal ==
  ASSUME SmpInv, NEW s \in SmpSems, smp_sig_sem(s)
  PROVE  SmpInv'
<1>1. /\ thread \in [SmpTasks -> {"none", "created", "runs", "slp_found", "asleep", "waits", "woken", "ended"}]
      /\ wants \in [SmpTasks -> SUBSET SmpSems]
      /\ sem \in [SmpSems -> [active : BOOLEAN, count : 0..MaxSem]] /\ MaxSem \in Nat
      /\ sleeping \in [SmpTasks -> BOOLEAN]
  BY SmpAssumption DEF SmpInv, SmpTypeOK
<1>2. /\ sem' = [sem EXCEPT ![s].count = @ + 1] /\ sem[s].count < MaxSem
      /\ sleeping' = sleeping /\ wants' = wants
  BY DEF smp_sig_sem
<1>3. /\ sem' \in [SmpSems -> [active : BOOLEAN, count : 0..MaxSem]]
      /\ sem'[s].count = sem[s].count + 1 /\ sem[s].count \in Nat
      /\ \A r \in SmpSems : sem'[r].active = sem[r].active /\ (r # s => sem'[r] = sem[r])
  BY <1>1, <1>2
<1>4. CASE sem_waiters(s) = {}
  <2>1. thread' = thread
    BY <1>4 DEF smp_sig_sem, woken_by
  <2>2. \A r \in SmpSems : sem_waiters(r)' = sem_waiters(r) /\ woken_for(r)' = woken_for(r)
    BY <1>2, <2>1 DEF sem_waiters, woken_for
  <2>3. SmpTypeOK' /\ wants' \in [SmpTasks -> SUBSET SmpSems]
    BY <1>1, <1>2, <1>3, <2>1 DEF SmpTypeOK
  <2>4. \A u \in SmpTasks : /\ thread'[u] \notin {"waits", "woken"} => wants'[u] = {}
                            /\ thread'[u] \in {"waits", "woken"} =>
                                 \E r \in SmpSems : wants'[u] = {r} /\ sem'[r].active
    BY <1>2, <1>3, <2>1 DEF SmpInv
  <2>5. \A r \in SmpSems : sem_waiters(r)' # {} => Cardinality(woken_for(r)') >= sem'[r].count
    BY <1>3, <1>4, <2>2 DEF SmpInv
  <2>. QED  BY <1>3, <2>3, <2>4, <2>5 DEF SmpInv
<1>5. CASE sem_waiters(s) # {}
  <2>1. PICK t \in sem_waiters(s) : thread' = [thread EXCEPT ![t] = "woken"]
    BY <1>5 DEF smp_sig_sem, woken_by, go
  <2>2. t \in SmpTasks /\ thread[t] = "waits" /\ s \in wants[t]
    BY DEF sem_waiters
  <2>3. wants[t] = {s}
    BY <2>2 DEF SmpInv
  <2>4. SmpTypeOK' /\ wants' \in [SmpTasks -> SUBSET SmpSems]
    BY <1>1, <1>2, <1>3, <2>1 DEF SmpTypeOK
  <2>5. \A u \in SmpTasks : /\ thread'[u] \notin {"waits", "woken"} => wants'[u] = {}
                            /\ thread'[u] \in {"waits", "woken"} =>
                                 \E r \in SmpSems : wants'[u] = {r} /\ sem'[r].active
    BY <1>1, <1>2, <1>3, <2>1, <2>2 DEF SmpInv
  <2>6. ASSUME NEW r \in SmpSems, sem_waiters(r)' # {}
        PROVE  Cardinality(woken_for(r)') >= sem'[r].count
    <3>1. CASE r # s
      <4>1. sem_waiters(r)' = sem_waiters(r) /\ woken_for(r)' = woken_for(r)
        BY <1>1, <1>2, <2>1, <2>2, <2>3, <3>1 DEF sem_waiters, woken_for
      <4>. QED  BY <1>3, <2>6, <3>1, <4>1 DEF SmpInv
    <3>2. CASE r = s
      <4>1. woken_for(s)' = woken_for(s) \cup {t} /\ t \notin woken_for(s)
        BY <1>1, <1>2, <2>1, <2>2 DEF woken_for
      <4>2. Cardinality(woken_for(s)) >= sem[s].count /\ woken_for(s) \in SUBSET SmpTasks
        BY <1>5 DEF SmpInv, woken_for
      <4>. QED  BY <1>3, <2>2, <3>2, <4>1, <4>2, WokenMore
    <3>. QED  BY <3>1, <3>2
  <2>. QED  BY <1>3, <2>4, <2>5, <2>6 DEF SmpInv
<1>. QED  BY <1>4, <1>5

\* Every step of the SMP core keeps its invariant.
LEMMA SmpStep ==
  ASSUME SmpInv, SmpNext  PROVE SmpInv'
<1>1. /\ thread \in [SmpTasks -> {"none", "created", "runs", "slp_found", "asleep", "waits", "woken", "ended"}]
      /\ wants \in [SmpTasks -> SUBSET SmpSems]
      /\ sem \in [SmpSems -> [active : BOOLEAN, count : 0..MaxSem]] /\ MaxSem \in Nat
      /\ sleeping \in [SmpTasks -> BOOLEAN] /\ \A t \in SmpTasks : thread[t] \notin {"waits", "woken"} => wants[t] = {}
  BY SmpAssumption DEF SmpInv, SmpTypeOK
<1>2. ASSUME NEW t \in SmpTasks,
             \/ smp_cre_tsk(t) \/ smp_sta_tsk(t) \/ smp_ext_tsk(t) \/ slp_find(t) \/ slp_wait(t) \/ slp_wake(t)
             \/ smp_wup_tsk(t)
      PROVE  SmpInv'
  <2>1. SmpTypeOK'
    BY <1>1, <1>2 DEF SmpTypeOK, smp_cre_tsk, smp_sta_tsk, smp_ext_tsk, slp_find, slp_wait, slp_wake,
                      smp_wup_tsk, go, runs
  <2>2. UNCHANGED <<wants, sem>>
    BY <1>2 DEF smp_cre_tsk, smp_sta_tsk, smp_ext_tsk, slp_find, slp_wait, slp_wake, smp_wup_tsk
  <2>3. \A u \in SmpTasks : thread'[u] = thread[u] \/ (wants[u] = {} /\ thread'[u] \notin {"waits", "woken"})
    BY <1>1, <1>2 DEF smp_cre_tsk, smp_sta_tsk, smp_ext_tsk, slp_find, slp_wait, slp_wake, smp_wup_tsk, go, runs
  <2>. QED  BY <2>1, <2>2, <2>3, SmpQuiet
<1>3. ASSUME NEW t \in SmpTasks, NEW s \in SmpSems, smp_wai_sem(t, s)  PROVE SmpInv'
  BY <1>3, SmpWait DEF smp_wai_sem, runs
<1>4. ASSUME NEW t \in SmpTasks, wai_again(t)  PROVE SmpInv'
  <2>1. PICK s \in wants[t] : wai_or_take(t, s)
    BY <1>4 DEF wai_again
  <2>2. thread[t] = "woken" /\ s \in SmpSems /\ sem[s].active
    BY <1>4 DEF wai_again, SmpInv
  <2>. QED  BY <2>1, <2>2, SmpWait
<1>5. ASSUME NEW t \in SmpTasks, spurious(t)  PROVE SmpInv'
  <2>1. thread' = [thread EXCEPT ![t] = "woken"] /\ UNCHANGED <<sleeping, wants, sem>> /\ thread[t] = "waits"
    BY <1>5 DEF spurious, go
  <2>2. SmpTypeOK'
    BY <1>1, <2>1 DEF SmpTypeOK
  <2>3. \A u \in SmpTasks : /\ thread'[u] \notin {"waits", "woken"} => wants'[u] = {}
                            /\ thread'[u] \in {"waits", "woken"} =>
                                 \E r \in SmpSems : wants'[u] = {r} /\ sem'[r].active
    BY <1>1, <2>1 DEF SmpInv
  <2>4. ASSUME NEW r \in SmpSems, sem_waiters(r)' # {}
        PROVE  Cardinality(woken_for(r)') >= sem'[r].count
    <3>1. sem_waiters(r) # {}
      BY <1>1, <2>1, <2>4 DEF sem_waiters
    <3>2. woken_for(r) \in SUBSET SmpTasks /\ t \notin woken_for(r) /\ sem'[r].count = sem[r].count
      BY <2>1 DEF woken_for
    <3>3. woken_for(r)' = woken_for(r) \/ woken_for(r)' = woken_for(r) \cup {t}
      BY <1>1, <2>1 DEF woken_for
    <3>4. Cardinality(woken_for(r)) >= sem[r].count /\ sem[r].count \in Nat
      BY <1>1, <3>1 DEF SmpInv
    <3>. QED  BY <3>2, <3>3, <3>4, WokenMore
  <2>. QED  BY <1>1, <2>1, <2>2, <2>3, <2>4 DEF SmpInv
<1>6. ASSUME NEW s \in SmpSems, smp_del_sem(s) \/ \E n \in 0..MaxSem : smp_cre_sem(s, n)  PROVE SmpInv'
  <2>1. UNCHANGED <<thread, sleeping, wants>>
    BY <1>6 DEF smp_del_sem, smp_cre_sem
  <2>2. \A t \in SmpTasks : s \notin wants[t]
    BY <1>6 DEF smp_del_sem, smp_cre_sem, SmpInv
  <2>3. /\ sem' \in [SmpSems -> [active : BOOLEAN, count : 0..MaxSem]]
        /\ \A r \in SmpSems : r # s => sem'[r] = sem[r]
    <3>1. CASE smp_del_sem(s)
      <4>1. sem' = [sem EXCEPT ![s].active = FALSE]
        BY <3>1 DEF smp_del_sem
      <4>. QED  BY <1>1, <4>1
    <3>2. CASE \E n \in 0..MaxSem : smp_cre_sem(s, n)
      <4>1. PICK n \in 0..MaxSem : sem' = [sem EXCEPT ![s] = [active |-> TRUE, count |-> n]]
        BY <3>2 DEF smp_cre_sem
      <4>. QED  BY <1>1, <4>1
    <3>. QED  BY <1>6, <3>1, <3>2
  <2>4. SmpTypeOK'
    BY <1>1, <2>1, <2>3 DEF SmpTypeOK
  <2>5. \A u \in SmpTasks : /\ thread'[u] \notin {"waits", "woken"} => wants'[u] = {}
                            /\ thread'[u] \in {"waits", "woken"} =>
                                 \E r \in SmpSems : wants'[u] = {r} /\ sem'[r].active
    BY <2>1, <2>2, <2>3 DEF SmpInv
  <2>6. ASSUME NEW r \in SmpSems, sem_waiters(r)' # {}
        PROVE  Cardinality(woken_for(r)') >= sem'[r].count
    <3>1. sem_waiters(r)' = sem_waiters(r) /\ woken_for(r)' = woken_for(r)
      BY <2>1 DEF sem_waiters, woken_for
    <3>2. r # s
      BY <2>2, <2>6, <3>1 DEF sem_waiters
    <3>. QED  BY <2>3, <2>6, <3>1, <3>2 DEF SmpInv
  <2>. QED  BY <1>1, <2>1, <2>3, <2>4, <2>5, <2>6 DEF SmpInv
<1>7. ASSUME NEW s \in SmpSems, smp_sig_sem(s)  PROVE SmpInv'
  BY <1>7, SmpSignal
<1>. QED  BY <1>2, <1>3, <1>4, <1>5, <1>6, <1>7 DEF SmpNext
-----------------------------------------------------------------------------
(* Files of records.                                                       *)

Handles == [fd : Fds, rec_idx : Recs, offset : 0..MAX_RECORD_SIZE]

FilesInv ==
    /\ g_files \in [Fds -> [path : Paths \cup {NULL}, open : BOOLEAN, num_records : 0..MAX_RECS_PER_FILE]]
    /\ records \in [Fds -> [Recs -> [in_use : BOOLEAN, size : 0..MAX_RECORD_SIZE]]]
    /\ DOMAIN g_open_recs = RecIds /\ g_open_recs = [id \in RecIds |-> g_open_recs[id]]
    /\ \A id \in RecIds : g_open_recs[id] # NULL => g_open_recs[id] \in Handles
    /\ \A fd \in Fds : g_files[fd].open => g_files[fd].path # NULL

\* A handle that is open gets another offset within a record.
LEMMA HandleMoved ==
  ASSUME FilesInv, NEW id \in RecIds, g_open_recs[id] # NULL, NEW o \in 0..MAX_RECORD_SIZE,
         g_open_recs' = [g_open_recs EXCEPT ![id].offset = o]
  PROVE  /\ DOMAIN g_open_recs' = RecIds /\ g_open_recs' = [i \in RecIds |-> g_open_recs'[i]]
         /\ \A i \in RecIds : g_open_recs'[i] # NULL => g_open_recs'[i] \in Handles
<1>1. DOMAIN g_open_recs' = RecIds /\ g_open_recs' = [i \in RecIds |-> g_open_recs'[i]]
  BY DEF FilesInv
<1>2. g_open_recs[id] \in Handles
  BY DEF FilesInv
<1>3. [g_open_recs[id] EXCEPT !.offset = o] \in Handles
  BY <1>2 DEF Handles
<1>4. \A i \in RecIds : g_open_recs'[i] = IF i = id THEN [g_open_recs[id] EXCEPT !.offset = o] ELSE g_open_recs[i]
  BY DEF FilesInv
<1>. QED  BY <1>1, <1>3, <1>4 DEF FilesInv

\* Slots are numbers.
LEMMA FileNumbers ==
  /\ MAX_RECORD_SIZE \in Nat \ {0} /\ MAX_RECS_PER_FILE \in Nat \ {0} /\ FileSizes \subseteq Nat
  /\ Fds \subseteq Nat /\ Recs \subseteq Nat /\ RecIds \subseteq Nat
  /\ \A r \in Recs : r + 1 \in 1..MAX_RECS_PER_FILE
BY FileAssumption DEF Fds, Recs, RecIds

\* The slots that a path names, and the first of them.
LEMMA NamedSlot ==
  ASSUME NEW p, named(p) # {}
  PROVE  lowest(named(p)) \in Fds /\ g_files[lowest(named(p))].path = p
<1>1. named(p) \in SUBSET Nat
  BY FileNumbers DEF named
<1>2. PICK m \in named(p) : \A j \in named(p) : m <= j
  BY <1>1, LeastMember
<1>3. lowest(named(p)) \in named(p)
  BY <1>2 DEF lowest
<1>. QED  BY <1>3 DEF named

\* A record gets another size.
LEMMA RecordSized ==
  ASSUME NEW T, NEW U, NEW recs \in [T -> [U -> [in_use : BOOLEAN, size : 0..MAX_RECORD_SIZE]]],
         NEW fd \in T, NEW r \in U, NEW n \in 0..MAX_RECORD_SIZE
  PROVE  [recs EXCEPT ![fd][r].size = n] \in [T -> [U -> [in_use : BOOLEAN, size : 0..MAX_RECORD_SIZE]]]
<1>. DEFINE e == [recs[fd][r] EXCEPT !.size = n]
<1>1. e \in [in_use : BOOLEAN, size : 0..MAX_RECORD_SIZE]
  <2>1. recs[fd][r] \in [in_use : BOOLEAN, size : 0..MAX_RECORD_SIZE]
    OBVIOUS
  <2>. QED  BY <2>1
<1>2. [recs EXCEPT ![fd][r].size = n] = [recs EXCEPT ![fd] = [recs[fd] EXCEPT ![r] = e]]
  OBVIOUS
<1>. HIDE DEF e
<1>3. [recs[fd] EXCEPT ![r] = e] \in [U -> [in_use : BOOLEAN, size : 0..MAX_RECORD_SIZE]]
  BY <1>1
<1>. QED  BY <1>2, <1>3

\* Every step of the file system keeps its invariant.
LEMMA FilesStep ==
  ASSUME FilesInv, FilesNext  PROVE FilesInv'
<1>. USE FileNumbers
<1>0. /\ g_files \in [Fds -> [path : Paths \cup {NULL}, open : BOOLEAN, num_records : 0..MAX_RECS_PER_FILE]]
      /\ records \in [Fds -> [Recs -> [in_use : BOOLEAN, size : 0..MAX_RECORD_SIZE]]]
      /\ \A fd \in Fds : g_files[fd].open => g_files[fd].path # NULL
  BY DEF FilesInv
<1>1. ASSUME NEW path \in Paths, del_fil(path)  PROVE FilesInv'
  <2>. DEFINE fd == lowest(named(path))
  <2>1. fd \in Fds
    BY <1>1, NamedSlot DEF del_fil
  <2>2. g_files' = [g_files EXCEPT ![fd].path = NULL, ![fd].open = FALSE] /\ UNCHANGED <<records, g_open_recs>>
    BY <1>1 DEF del_fil
  <2>. HIDE DEF fd
  <2>3. g_files' \in [Fds -> [path : Paths \cup {NULL}, open : BOOLEAN, num_records : 0..MAX_RECS_PER_FILE]]
    BY <1>0, <2>1, <2>2
  <2>4. \A f \in Fds : g_files'[f].open => g_files'[f].path # NULL
    BY <1>0, <2>1, <2>2
  <2>. QED  BY <2>2, <2>3, <2>4 DEF FilesInv
<1>2. ASSUME NEW src \in Paths, NEW dst \in Paths, mov_fil(src, dst)  PROVE FilesInv'
  <2>. DEFINE fd == lowest(named(src))
  <2>1. fd \in Fds
    BY <1>2, NamedSlot DEF mov_fil
  <2>2. g_files' = [g_files EXCEPT ![fd].path = dst] /\ UNCHANGED <<records, g_open_recs>>
    BY <1>2 DEF mov_fil
  <2>. HIDE DEF fd
  <2>3. g_files' \in [Fds -> [path : Paths \cup {NULL}, open : BOOLEAN, num_records : 0..MAX_RECS_PER_FILE]]
    BY <1>0, <2>1, <2>2
  <2>4. \A f \in Fds : g_files'[f].open => g_files'[f].path # NULL
    BY <1>0, <2>1, <2>2, FileAssumption
  <2>. QED  BY <2>2, <2>3, <2>4 DEF FilesInv
<1>3. ASSUME NEW path \in Paths, NEW create \in BOOLEAN, opn_fil(path, create)  PROVE FilesInv'
  <2>1. UNCHANGED <<records, g_open_recs>>
    BY <1>3 DEF opn_fil
  <2>2. CASE named(path) # {}
    <3>. DEFINE fd == lowest(named(path))
    <3>1. fd \in Fds /\ g_files[fd].path = path
      BY <2>2, NamedSlot
    <3>2. g_files' = [g_files EXCEPT ![fd].open = TRUE]
      BY <1>3, <2>2 DEF opn_fil
    <3>. HIDE DEF fd
    <3>3. g_files' \in [Fds -> [path : Paths \cup {NULL}, open : BOOLEAN, num_records : 0..MAX_RECS_PER_FILE]]
      BY <1>0, <3>1, <3>2
    <3>4. \A f \in Fds : g_files'[f].open => g_files'[f].path # NULL
      BY <1>0, <3>1, <3>2, FileAssumption
    <3>. QED  BY <2>1, <3>3, <3>4 DEF FilesInv
  <2>3. CASE named(path) = {}
    <3>. DEFINE fd == lowest(named(NULL))
                e == [path |-> path, open |-> TRUE, num_records |-> 0]
    <3>1. fd \in Fds
      BY <1>3, <2>3, NamedSlot DEF opn_fil
    <3>2. g_files' = [g_files EXCEPT ![fd] = e]
      BY <1>3, <2>3 DEF opn_fil
    <3>3. e \in [path : Paths \cup {NULL}, open : BOOLEAN, num_records : 0..MAX_RECS_PER_FILE] /\ e.path # NULL
      BY FileAssumption
    <3>. HIDE DEF fd, e
    <3>4. g_files' \in [Fds -> [path : Paths \cup {NULL}, open : BOOLEAN, num_records : 0..MAX_RECS_PER_FILE]]
      BY <1>0, <3>1, <3>2, <3>3
    <3>5. \A f \in Fds : g_files'[f].open => g_files'[f].path # NULL
      BY <1>0, <3>1, <3>2, <3>3
    <3>. QED  BY <2>1, <3>4, <3>5 DEF FilesInv
  <2>. QED  BY <2>2, <2>3
<1>4. ASSUME NEW fd \in Fds, cls_fil(fd)  PROVE FilesInv'
  <2>1. g_files' = [g_files EXCEPT ![fd].open = FALSE] /\ UNCHANGED <<records, g_open_recs>>
    BY <1>4 DEF cls_fil
  <2>2. /\ g_files' \in [Fds -> [path : Paths \cup {NULL}, open : BOOLEAN, num_records : 0..MAX_RECS_PER_FILE]]
        /\ \A f \in Fds : g_files'[f].open => g_files'[f].path # NULL
    BY <1>0, <2>1
  <2>. QED  BY <2>1, <2>2 DEF FilesInv
<1>5. ASSUME NEW fd \in Fds, NEW r \in Recs, opn_rec(fd, r)  PROVE FilesInv'
  <2>1. /\ records' \in [Fds -> [Recs -> [in_use : BOOLEAN, size : 0..MAX_RECORD_SIZE]]]
        /\ g_files' \in [Fds -> [path : Paths \cup {NULL}, open : BOOLEAN, num_records : 0..MAX_RECS_PER_FILE]]
        /\ \A f \in Fds : g_files'[f].open => g_files'[f].path # NULL
    <3>1. CASE records[fd][r].in_use
      BY <1>0, <1>5, <3>1 DEF opn_rec
    <3>2. CASE ~records[fd][r].in_use
      <4>. DEFINE e == [in_use |-> TRUE, size |-> 0]
                  n == Max({g_files[fd].num_records, r + 1})
      <4>1. records' = [records EXCEPT ![fd][r] = e] /\ g_files' = [g_files EXCEPT ![fd].num_records = n]
        BY <1>5, <3>2 DEF opn_rec
      <4>2. n \in 0..MAX_RECS_PER_FILE
        <5>1. g_files[fd].num_records \in 0..MAX_RECS_PER_FILE /\ r + 1 \in 1..MAX_RECS_PER_FILE
          BY <1>0
        <5>2. g_files[fd].num_records \in Int /\ r + 1 \in Int
          BY <5>1
        <5>3. n = IF g_files[fd].num_records >= r + 1 THEN g_files[fd].num_records ELSE r + 1
          BY <5>2, MinMaxPair
        <5>. QED  BY <5>1, <5>3
      <4>3. e \in [in_use : BOOLEAN, size : 0..MAX_RECORD_SIZE]
        OBVIOUS
      <4>. HIDE DEF e, n
      <4>. QED  BY <1>0, <4>1, <4>2, <4>3
    <3>. QED  BY <3>1, <3>2
  <2>2. /\ DOMAIN g_open_recs' = RecIds /\ g_open_recs' = [i \in RecIds |-> g_open_recs'[i]]
        /\ \A i \in RecIds : g_open_recs'[i] # NULL => g_open_recs'[i] \in Handles
    <3>1. CASE free_slots(g_open_recs) = {}
      BY <1>5, <3>1 DEF opn_rec, FilesInv
    <3>2. CASE free_slots(g_open_recs) # {}
      <4>. DEFINE id == first_free(g_open_recs)
                  h == [fd |-> fd, rec_idx |-> r, offset |-> 0]
      <4>1. DOMAIN g_open_recs \subseteq Nat /\ DOMAIN g_open_recs = RecIds
        BY DEF FilesInv
      <4>2. id \in RecIds
        BY <3>2, <4>1, FirstFree
      <4>3. g_open_recs' = [g_open_recs EXCEPT ![id] = h]
        BY <1>5, <3>2 DEF opn_rec
      <4>4. h \in Handles
        BY DEF Handles
      <4>. HIDE DEF id, h
      <4>5. \A i \in RecIds : g_open_recs'[i] = IF i = id THEN h ELSE g_open_recs[i]
        BY <4>1, <4>2, <4>3
      <4>6. DOMAIN g_open_recs' = RecIds /\ g_open_recs' = [i \in RecIds |-> g_open_recs'[i]]
        BY <4>1, <4>3 DEF FilesInv
      <4>. QED  BY <4>4, <4>5, <4>6 DEF FilesInv
    <3>. QED  BY <3>1, <3>2
  <2>. QED  BY <2>1, <2>2 DEF FilesInv
<1>6. ASSUME NEW fd \in Fds, NEW r \in Recs, del_rec(fd, r)  PROVE FilesInv'
  <2>1. records' = [records EXCEPT ![fd][r] = NoRecord] /\ UNCHANGED <<g_files, g_open_recs>>
    BY <1>6 DEF del_rec
  <2>2. NoRecord \in [in_use : BOOLEAN, size : 0..MAX_RECORD_SIZE]
    BY DEF NoRecord
  <2>3. records' \in [Fds -> [Recs -> [in_use : BOOLEAN, size : 0..MAX_RECORD_SIZE]]]
    BY <1>0, <2>1, <2>2
  <2>. QED  BY <2>1, <2>3 DEF FilesInv
<1>7. ASSUME NEW id \in RecIds, cls_rec(id)  PROVE FilesInv'
  <2>1. g_open_recs' = [g_open_recs EXCEPT ![id] = NULL] /\ UNCHANGED <<g_files, records>>
    BY <1>7 DEF cls_rec
  <2>2. \A i \in RecIds : g_open_recs'[i] = IF i = id THEN NULL ELSE g_open_recs[i]
    BY <2>1 DEF FilesInv
  <2>3. DOMAIN g_open_recs' = RecIds /\ g_open_recs' = [i \in RecIds |-> g_open_recs'[i]]
    BY <2>1 DEF FilesInv
  <2>. QED  BY <2>1, <2>2, <2>3 DEF FilesInv
<1>8. ASSUME NEW id \in RecIds, g_open_recs[id] # NULL
      PROVE  /\ g_open_recs[id] \in Handles /\ g_open_recs[id].offset \in 0..MAX_RECORD_SIZE
             /\ g_open_recs[id].fd \in Fds /\ g_open_recs[id].rec_idx \in Recs
             /\ rec(id).size \in 0..MAX_RECORD_SIZE
  <2>1. g_open_recs[id] \in Handles
    BY <1>8 DEF FilesInv
  <2>2. g_open_recs[id].fd \in Fds /\ g_open_recs[id].rec_idx \in Recs /\ g_open_recs[id].offset \in 0..MAX_RECORD_SIZE
    BY <2>1 DEF Handles
  <2>. QED  BY <1>0, <2>1, <2>2 DEF rec
<1>13. \A sz \in FileSizes : sz \in Int /\ sz \in Nat /\ 0 - sz \in Int
  OBVIOUS
<1>9. ASSUME NEW id \in RecIds, NEW sz \in FileSizes, rd_rec(id, sz)  PROVE FilesInv'
  <2>. DEFINE o == g_open_recs[id].offset
              n == Min({sz, rec(id).size - o})
              to == IF n > 0 THEN o + n ELSE o
  <2>1. g_open_recs[id] # NULL /\ UNCHANGED <<g_files, records>>
    BY <1>9 DEF rd_rec
  <2>2. g_open_recs' = [g_open_recs EXCEPT ![id].offset = to]
    BY <1>9 DEF rd_rec
  <2>3. to \in 0..MAX_RECORD_SIZE
    <3>1. o \in 0..MAX_RECORD_SIZE /\ rec(id).size \in 0..MAX_RECORD_SIZE
      BY <1>8, <2>1
    <3>2. sz \in Int /\ rec(id).size - o \in Int
      BY <1>13, <3>1
    <3>3. n = IF sz <= rec(id).size - o THEN sz ELSE rec(id).size - o
      BY <3>2, MinMaxPair
    <3>. QED  BY <3>1, <3>2, <3>3
  <2>. HIDE DEF to
  <2>. QED  BY <2>1, <2>2, <2>3, HandleMoved DEF FilesInv
<1>10. ASSUME NEW id \in RecIds, NEW sz \in FileSizes, wr_rec(id, sz)  PROVE FilesInv'
  <2>. DEFINE o == g_open_recs[id]
              n == Min({sz, room(id)})
  <2>1. o # NULL /\ UNCHANGED g_files
    BY <1>10 DEF wr_rec
  <2>2. CASE ~(n > 0)
    <3>1. UNCHANGED <<g_open_recs, records>>
      BY <1>10, <2>2, SMTT(40) DEF wr_rec
    <3>. QED  BY <2>1, <3>1 DEF FilesInv
  <2>3. CASE n > 0
    <3>. DEFINE to == o.offset + n
                size == Max({rec(id).size, to})
    <3>1. /\ g_open_recs' = [g_open_recs EXCEPT ![id].offset = to]
          /\ records' = [records EXCEPT ![o.fd][o.rec_idx].size = size]
      BY <1>10, <2>3 DEF wr_rec, rec
    <3>2. /\ o.offset \in 0..MAX_RECORD_SIZE /\ rec(id).size \in 0..MAX_RECORD_SIZE
          /\ o.fd \in Fds /\ o.rec_idx \in Recs
      BY <1>8, <2>1
    <3>3. to \in 0..MAX_RECORD_SIZE
      <4>1. sz \in Int /\ room(id) \in Int /\ room(id) = MAX_RECORD_SIZE - o.offset
        BY <3>2 DEF room
      <4>2. n = IF sz <= room(id) THEN sz ELSE room(id)
        BY <4>1, MinMaxPair
      <4>. QED  BY <2>3, <3>2, <4>1, <4>2
    <3>. HIDE DEF to
    <3>4. size \in 0..MAX_RECORD_SIZE
      <4>1. rec(id).size \in Int /\ to \in Int
        BY <3>2, <3>3
      <4>. QED  BY <3>2, <3>3, <4>1, MinMaxPair
    <3>. HIDE DEF size
    <3>5. records' \in [Fds -> [Recs -> [in_use : BOOLEAN, size : 0..MAX_RECORD_SIZE]]]
      BY <1>0, <3>1, <3>2, <3>4, RecordSized
    <3>. QED  BY <2>1, <3>1, <3>3, <3>5, HandleMoved DEF FilesInv
  <2>. QED  BY <2>2, <2>3
<1>11. ASSUME NEW id \in RecIds, NEW sz \in FileSizes, trn_rec(id, sz)  PROVE FilesInv'
  <2>. DEFINE o == g_open_recs[id]
  <2>1. /\ o # NULL /\ UNCHANGED <<g_files, g_open_recs>> /\ sz \in 0..MAX_RECORD_SIZE
        /\ records' = [records EXCEPT ![o.fd][o.rec_idx].size = sz]
    BY <1>11 DEF trn_rec
  <2>2. o.fd \in Fds /\ o.rec_idx \in Recs
    BY <1>8, <2>1
  <2>3. records' \in [Fds -> [Recs -> [in_use : BOOLEAN, size : 0..MAX_RECORD_SIZE]]]
    <3>1. ASSUME NEW fd \in Fds, NEW r \in Recs
          PROVE  [records EXCEPT ![fd][r].size = sz]
                    \in [Fds -> [Recs -> [in_use : BOOLEAN, size : 0..MAX_RECORD_SIZE]]]
      BY <1>0, <2>1, RecordSized
    <3>. QED  BY <2>1, <2>2, <3>1
  <2>. QED  BY <2>1, <2>3 DEF FilesInv
<1>12. ASSUME NEW id \in RecIds, NEW sz \in Int, NEW origin \in {"SET", "CUR", "END"}, pos_rec(id, sz, origin)
       PROVE  FilesInv'
  <2>. DEFINE o == g_open_recs[id]
              from == CASE origin = "SET" -> 0 [] origin = "CUR" -> o.offset [] origin = "END" -> rec(id).size
              to == within(from + sz, rec(id).size)
  <2>1. o # NULL /\ UNCHANGED <<g_files, records>> /\ g_open_recs' = [g_open_recs EXCEPT ![id].offset = to]
    BY <1>12 DEF pos_rec
  <2>2. o.offset \in 0..MAX_RECORD_SIZE /\ rec(id).size \in 0..MAX_RECORD_SIZE
    BY <1>8, <2>1
  <2>3. from \in Int
    BY <2>2
  <2>. HIDE DEF from
  <2>4. to \in 0..MAX_RECORD_SIZE
    <3>1. from + sz \in Int /\ rec(id).size \in Int
      BY <2>2, <2>3
    <3>2. Min({from + sz, rec(id).size}) = IF from + sz <= rec(id).size THEN from + sz ELSE rec(id).size
      BY <3>1, MinMaxPair
    <3>3. Min({from + sz, rec(id).size}) \in Int /\ Min({from + sz, rec(id).size}) <= rec(id).size
      BY <3>1, <3>2
    <3>4. ASSUME NEW m \in Int  PROVE Max({0, m}) = IF 0 >= m THEN 0 ELSE m
      <4>1. 0 \in Int
        OBVIOUS
      <4>. QED  BY <4>1, MinMaxPair
    <3>. DEFINE m == Min({from + sz, rec(id).size})
    <3>5. to = Max({0, m})
      BY DEF within
    <3>6. m \in Int /\ m <= rec(id).size
      BY <3>3
    <3>. HIDE DEF m, to
    <3>7. to = IF 0 >= m THEN 0 ELSE m
      BY <3>4, <3>5, <3>6
    <3>. QED  BY <2>2, <3>6, <3>7
  <2>. HIDE DEF to
  <2>. QED  BY <2>1, <2>4, HandleMoved DEF FilesInv
<1>. QED  BY <1>1, <1>2, <1>3, <1>4, <1>5, <1>6, <1>7, <1>9, <1>10, <1>11, <1>12, <1>13 DEF FilesNext
-----------------------------------------------------------------------------
(* The kernel heap.                                                        *)

BlockSet == [adr : Nat, size : Nat \ {0}, free : BOOLEAN]

\* Where a block ends.
End(b) == b.adr + Header + b.size

\* The blocks lie one behind the other, from 0 to off.
Tiled(bs, off) ==
    /\ bs \in Seq(BlockSet) /\ off \in Nat
    /\ \A i \in 1..Len(bs) : End(bs[i]) = IF i = Len(bs) THEN off ELSE bs[i + 1].adr
    /\ bs # <<>> => bs[1].adr = 0
    /\ bs = <<>> => off = 0

\* A free block lies between blocks that are not free, and never last.
Apart(bs) == \A i \in 1..Len(bs) : bs[i].free => i < Len(bs) /\ ~bs[i + 1].free

\* ... but for block k, which may lie last, and also (near) behind a free one.
ApartBut(bs, k, near) ==
    /\ k \in 1..Len(bs) /\ bs[k].free
    /\ k = Len(bs) \/ ~bs[k + 1].free
    /\ \A i \in 1..Len(bs) : i # k /\ bs[i].free =>
          i < Len(bs) /\ ((near /\ i + 1 = k) \/ ~bs[i + 1].free)

HeapInv == Tiled(blocks, s_heap_offset) /\ Apart(blocks) /\ s_heap_offset <= PoolSize

\* Blocks i to j are replaced by others.
Spliced(bs, i, j, mid) == SubSeq(bs, 1, i - 1) \o mid \o SubSeq(bs, j + 1, Len(bs))

\* What stands where then.
Placed(r, bs, i, j, mid) ==
    /\ Len(r) = Len(bs) - (j - i + 1) + Len(mid)
    /\ \A k \in 1..i - 1 : r[k] = bs[k]
    /\ \A k \in 1..Len(mid) : r[i - 1 + k] = mid[k]
    /\ \A k \in j + 1..Len(bs) : r[k - (j - i + 1) + Len(mid)] = bs[k]

\* They stand so in a sequence.
LEMMA Splice ==
  ASSUME NEW S, NEW bs \in Seq(S), NEW i \in 1..Len(bs), NEW j \in i..Len(bs), NEW mid \in Seq(S),
         NEW r, r = Spliced(bs, i, j, mid)
  PROVE  r \in Seq(S) /\ Placed(r, bs, i, j, mid)
<1>. DEFINE a == SubSeq(bs, 1, i - 1)
            b == a \o mid
            c == SubSeq(bs, j + 1, Len(bs))
<1>1. /\ Len(bs) \in Nat /\ Len(mid) \in Nat
      /\ i \in Nat /\ j \in Nat /\ 1 <= i /\ i <= j /\ j <= Len(bs)
  BY LenProperties
<1>2. a \in Seq(S) /\ Len(a) = i - 1 /\ \A k \in 1..i - 1 : a[k] = bs[k]
  <2>1. \A k \in 1..i - 1 : bs[k] \in S
    BY <1>1, ElementOfSeq
  <2>2. /\ a \in Seq(S) /\ Len(a) = IF 1 <= i - 1 THEN (i - 1) - 1 + 1 ELSE 0
        /\ \A k \in 1..(i - 1) - 1 + 1 : a[k] = bs[1 + k - 1]
    BY <1>1, <2>1, SubSeqProperties
  <2>. HIDE DEF a
  <2>. QED  BY <1>1, <2>2
<1>3. c \in Seq(S) /\ Len(c) = Len(bs) - j /\ \A k \in 1..Len(bs) - j : c[k] = bs[j + k]
  <2>1. \A k \in j + 1..Len(bs) : bs[k] \in S
    BY <1>1, ElementOfSeq
  <2>2. /\ c \in Seq(S) /\ Len(c) = IF j + 1 <= Len(bs) THEN Len(bs) - (j + 1) + 1 ELSE 0
        /\ \A k \in 1..Len(bs) - (j + 1) + 1 : c[k] = bs[(j + 1) + k - 1]
    BY <1>1, <2>1, SubSeqProperties
  <2>. HIDE DEF c
  <2>. QED  BY <1>1, <2>2
<1>. HIDE DEF a, c
<1>4. /\ b \in Seq(S) /\ Len(b) = i - 1 + Len(mid) /\ Len(b) \in Nat
      /\ \A k \in 1..i - 1 : b[k] = bs[k]
      /\ \A k \in 1..Len(mid) : b[i - 1 + k] = mid[k]
  <2>1. /\ b \in Seq(S) /\ Len(b) = Len(a) + Len(mid)
        /\ \A k \in 1..Len(a) + Len(mid) : b[k] = IF k <= Len(a) THEN a[k] ELSE mid[k - Len(a)]
    BY <1>2, ConcatProperties
  <2>. HIDE DEF b
  <2>2. ASSUME NEW k \in 1..i - 1  PROVE b[k] = bs[k]
    <3>1. k \in 1..Len(a) + Len(mid) /\ k <= Len(a)
      BY <1>1, <1>2
    <3>. QED  BY <1>2, <2>1, <3>1
  <2>3. ASSUME NEW k \in 1..Len(mid)  PROVE b[i - 1 + k] = mid[k]
    <3>1. i - 1 + k \in 1..Len(a) + Len(mid) /\ ~(i - 1 + k <= Len(a)) /\ i - 1 + k - Len(a) = k
      BY <1>1, <1>2
    <3>. DEFINE x == i - 1 + k
    <3>2. x \in 1..Len(a) + Len(mid) /\ ~(x <= Len(a)) /\ x - Len(a) = k
      BY <3>1
    <3>. HIDE DEF x
    <3>3. b[x] = mid[k]
      BY <2>1, <3>2
    <3>. QED  BY <3>3 DEF x
  <2>. QED  BY <1>1, <1>2, <2>1, <2>2, <2>3
<1>5. r = b \o c
  BY DEF a, c, Spliced
<1>. HIDE DEF b
<1>6. /\ r \in Seq(S) /\ Len(r) = Len(b) + Len(c)
      /\ \A k \in 1..Len(b) + Len(c) : r[k] = IF k <= Len(b) THEN b[k] ELSE c[k - Len(b)]
  <2>1. b \in Seq(S) /\ c \in Seq(S)
    BY <1>3, <1>4
  <2>. QED  BY <1>5, <2>1, ConcatProperties
<1>7. Len(r) = Len(bs) - (j - i + 1) + Len(mid) /\ Len(c) \in Nat
  <2>1. Len(c) = Len(bs) - j /\ Len(b) = i - 1 + Len(mid) /\ Len(r) = Len(b) + Len(c)
    BY <1>3, <1>4, <1>6
  <2>. QED  BY <1>1, <2>1
<1>8. ASSUME NEW k \in 1..i - 1  PROVE r[k] = bs[k]
  <2>1. k \in 1..Len(b) + Len(c) /\ k <= Len(b)
    BY <1>1, <1>3, <1>4, <1>7
  <2>. QED  BY <1>4, <1>6, <2>1
<1>9. ASSUME NEW k \in 1..Len(mid)  PROVE r[i - 1 + k] = mid[k]
  <2>1. i - 1 + k \in 1..Len(b) + Len(c) /\ i - 1 + k <= Len(b)
    BY <1>1, <1>3, <1>4, <1>7
  <2>. QED  BY <1>4, <1>6, <2>1
<1>10. ASSUME NEW k \in j + 1..Len(bs)  PROVE r[k - (j - i + 1) + Len(mid)] = bs[k]
  <2>. DEFINE x == k - (j - i + 1) + Len(mid)
  <2>1. x \in 1..Len(b) + Len(c) /\ ~(x <= Len(b)) /\ x - Len(b) = k - j /\ k - j \in 1..Len(bs) - j
    BY <1>1, <1>3, <1>4, <1>7
  <2>2. r[x] = c[k - j]
    BY <1>6, <2>1
  <2>3. c[k - j] = bs[k]
    <3>1. j + (k - j) = k
      BY <1>1
    <3>. QED  BY <1>3, <2>1, <3>1
  <2>. QED  BY <2>2, <2>3
<1>. QED  BY <1>6, <1>7, <1>8, <1>9, <1>10 DEF Placed

\* One or two blocks become one or two that take the same bytes.
LEMMA TiledSplice ==
  ASSUME NEW bs, NEW off, Tiled(bs, off), NEW i \in 1..Len(bs), NEW j \in {i, i + 1}, j <= Len(bs),
         NEW mid \in Seq(BlockSet), Len(mid) \in {1, 2},
         mid[1].adr = bs[i].adr, End(mid[Len(mid)]) = End(bs[j]),
         Len(mid) = 2 => End(mid[1]) = mid[2].adr,
         NEW r, r = Spliced(bs, i, j, mid)
  PROVE  Tiled(r, off) /\ r # <<>>
<1>. DEFINE n == Len(bs)
            m == Len(mid)
            d == j - i + 1
<1>1. bs \in Seq(BlockSet) /\ off \in Nat
  BY DEF Tiled
<1>11. n \in Nat
  BY <1>1, LenProperties
<1>12. i \in Nat /\ 1 <= i /\ i <= n /\ j \in Nat /\ i <= j /\ j <= n /\ j \in i..n /\ (j = i \/ j = i + 1)
  BY <1>11
<1>13. m \in Nat /\ (m = 1 \/ m = 2) /\ d \in Nat /\ d = j - i + 1
  BY <1>12
<1>2. /\ r \in Seq(BlockSet) /\ Len(r) = n - d + m
      /\ \A k \in 1..i - 1 : r[k] = bs[k]
      /\ \A k \in 1..m : r[i - 1 + k] = mid[k]
      /\ \A k \in j + 1..n : r[k - d + m] = bs[k]
  <2>1. j \in i..Len(bs)
    BY <1>12
  <2>2. r \in Seq(BlockSet) /\ Placed(r, bs, i, j, mid)
    BY <1>1, <2>1, Splice
  <2>. QED  BY <2>2 DEF Placed
<1>. HIDE DEF n, m, d
<1>20. Len(r) = n - d + m
  BY <1>2
<1>21. /\ Len(r) \in Nat /\ Len(r) >= 1 /\ i + m - 1 <= Len(r)
       /\ (Len(r) = i + m - 1 <=> j = n)
  BY <1>11, <1>12, <1>13, <1>20
<1>3. \A k \in 1..n : End(bs[k]) = IF k = n THEN off ELSE bs[k + 1].adr
  BY DEF Tiled, n
<1>4. Len(r) >= 1 /\ r # <<>> /\ Len(r) \in Nat
  <2>1. Len(r) >= 1 /\ Len(r) \in Nat
    BY <1>21
  <2>. QED  BY <1>2, <2>1, EmptySeq
<1>5. r[i].adr = bs[i].adr
  <2>1. i - 1 + 1 = i /\ 1 \in 1..m
    BY <1>12, <1>13
  <2>2. r[i] = mid[1]
    BY <1>2, <2>1
  <2>. QED  BY <2>2
<1>6. r[1].adr = 0
  <2>1. bs[1].adr = 0
    <3>1. bs # <<>>
      BY <1>1, <1>11, <1>12, EmptySeq DEF n
    <3>. QED  BY <3>1 DEF Tiled
  <2>2. CASE i = 1
    BY <1>5, <2>1, <2>2
  <2>3. CASE i # 1
    <3>1. 1 \in 1..i - 1
      BY <1>12, <2>3
    <3>. QED  BY <1>2, <2>1, <3>1
  <2>. QED  BY <2>2, <2>3
<1>7. ASSUME NEW k \in 1..Len(r)  PROVE End(r[k]) = IF k = Len(r) THEN off ELSE r[k + 1].adr
  <2>1. CASE k < i
    <3>0. k \in Nat /\ 1 <= k
      BY <1>21
    <3>1. k \in 1..i - 1 /\ k \in 1..n /\ k # n /\ k # Len(r)
      BY <1>11, <1>12, <1>13, <1>21, <2>1, <3>0
    <3>2. End(r[k]) = bs[k + 1].adr
      BY <1>2, <1>3, <3>1
    <3>3. CASE k + 1 = i
      BY <1>5, <3>1, <3>2, <3>3
    <3>4. CASE k + 1 # i
      <4>1. k + 1 \in 1..i - 1
        BY <1>12, <2>1, <3>4
      <4>. QED  BY <1>2, <3>1, <3>2, <4>1
    <3>. QED  BY <3>3, <3>4
  <2>2. CASE k = i /\ m = 2
    <3>1. r[i] = mid[1] /\ r[i + 1] = mid[2]
      <4>1. i - 1 + 1 = i /\ i - 1 + 2 = i + 1 /\ 1 \in 1..m /\ 2 \in 1..m
        BY <1>12, <1>13, <2>2
      <4>. QED  BY <1>2, <4>1
    <3>2. k # Len(r)
      BY <1>11, <1>12, <1>13, <1>20, <1>21, <2>2
    <3>. QED  BY <2>2, <3>1, <3>2 DEF m
  <2>3. CASE k = i + m - 1
    <3>0. i - 1 + m = k /\ m \in 1..m /\ j \in 1..n
      BY <1>11, <1>12, <1>13, <2>3
    <3>1. r[k] = mid[m] /\ End(r[k]) = End(bs[j]) /\ j \in 1..n
      <4>1. r[k] = mid[m]
        BY <1>2, <3>0
      <4>. QED  BY <3>0, <4>1 DEF m
    <3>2. CASE j = n
      <4>1. k = Len(r)
        BY <1>11, <1>12, <1>13, <1>20, <1>21, <2>3, <3>2
      <4>. QED  BY <1>3, <3>1, <3>2, <4>1
    <3>3. CASE j # n
      <4>1. j + 1 \in j + 1..n /\ (j + 1) - d + m = k + 1 /\ k # Len(r)
        BY <1>11, <1>12, <1>13, <1>20, <1>21, <2>3, <3>3
      <4>2. r[k + 1] = bs[j + 1]
        BY <1>2, <4>1
      <4>. QED  BY <1>3, <3>1, <3>3, <4>1, <4>2
    <3>. QED  BY <3>2, <3>3
  <2>4. CASE k >= i + m
    <3>. DEFINE x == k + d - m
    <3>1. x \in j + 1..n /\ x - d + m = k /\ (x = n <=> k = Len(r)) /\ x \in 1..n
      BY <1>11, <1>12, <1>13, <1>20, <1>21, <2>4
    <3>2. r[k] = bs[x]
      BY <1>2, <3>1
    <3>3. CASE x = n
      BY <1>3, <3>1, <3>2, <3>3
    <3>4. CASE x # n
      <4>1. x + 1 \in j + 1..n /\ (x + 1) - d + m = k + 1
        BY <1>11, <1>12, <1>13, <3>1, <3>4
      <4>2. r[k + 1] = bs[x + 1]
        BY <1>2, <4>1
      <4>. QED  BY <1>3, <3>1, <3>2, <3>4, <4>2
    <3>. QED  BY <3>3, <3>4
  <2>. QED  BY <1>12, <1>13, <1>21, <2>1, <2>2, <2>3, <2>4
<1>. QED  BY <1>1, <1>2, <1>4, <1>6, <1>7 DEF Tiled
\* What a new block is.
NewBlock(b, adr, size) == b \in BlockSet /\ b.adr = adr /\ b.size = size /\ End(b) = adr + Header + size

\* A new block, free or not.
LEMMA NewBlocks ==
  ASSUME NEW adr \in Nat, NEW size \in Nat \ {0}
  PROVE  /\ NewBlock(block(adr, size, FALSE), adr, size) /\ ~block(adr, size, FALSE).free
         /\ NewBlock(block(adr, size, TRUE), adr, size) /\ block(adr, size, TRUE).free
BY DEF block, BlockSet, End, NewBlock

\* A block joined with the one behind it, or one or two new ones, take what was there.
LEMMA BlockParts ==
  /\ Header \in Nat \ {0} /\ PoolSize \in Nat /\ Sizes \subseteq Nat \ {0}
  /\ \A b \in BlockSet : b.adr \in Nat /\ b.size \in Nat \ {0} /\ b.free \in BOOLEAN
  /\ \A a, b \in BlockSet : End(a) = b.adr =>
        /\ merged(a, b) \in BlockSet /\ merged(a, b).free
        /\ merged(a, b).adr = a.adr /\ End(merged(a, b)) = End(b)
<1>1. Header \in Nat \ {0} /\ PoolSize \in Nat /\ Sizes \subseteq Nat \ {0}
  BY HeapAssumption
<1>3. \A b \in BlockSet : b.adr \in Nat /\ b.size \in Nat \ {0} /\ b.free \in BOOLEAN
  BY DEF BlockSet
<1>4. ASSUME NEW a \in BlockSet, NEW b \in BlockSet, End(a) = b.adr
      PROVE  /\ merged(a, b) \in BlockSet /\ merged(a, b).free
             /\ merged(a, b).adr = a.adr /\ End(merged(a, b)) = End(b)
  <2>1. a.adr \in Nat /\ a.size \in Nat \ {0} /\ b.size \in Nat \ {0} /\ a.adr + Header + a.size = b.adr
    BY <1>3, <1>4 DEF End
  <2>2. a.size + Header + b.size \in Nat \ {0}
    BY <1>1, <2>1
  <2>3. /\ merged(a, b) \in BlockSet /\ merged(a, b).free /\ merged(a, b).adr = a.adr
        /\ End(merged(a, b)) = a.adr + Header + (a.size + Header + b.size)
    <3>. DEFINE size == a.size + Header + b.size
                m == block(a.adr, size, TRUE)
    <3>1. merged(a, b) = m
      BY DEF merged
    <3>2. a.adr \in Nat /\ size \in Nat \ {0}
      BY <2>1, <2>2
    <3>. HIDE DEF size
    <3>3. NewBlock(m, a.adr, size) /\ m.free
      BY <3>2, NewBlocks
    <3>. HIDE DEF m
    <3>. QED  BY <3>1, <3>3 DEF NewBlock, size
  <2>4. a.adr + Header + (a.size + Header + b.size) = b.adr + Header + b.size
    BY <1>1, <2>1
  <2>5. End(b) = b.adr + Header + b.size
    BY DEF End
  <2>. QED  BY <2>3, <2>4, <2>5
<1>. QED  BY <1>1, <1>3, <1>4

\* Imalloc of a free block keeps the heap tiled.
LEMMA SplitTiled ==
  ASSUME HeapInv, NEW size \in Sizes, NEW i \in 1..Len(blocks), blocks[i].free, blocks[i].size >= size,
         NEW r, r = Spliced(blocks, i, i, split(i, size))
  PROVE  Tiled(r, s_heap_offset) /\ Apart(r)
<1>. DEFINE b == blocks[i]
            m == split(i, size)
            n == Len(blocks)
<1>1. blocks \in Seq(BlockSet) /\ Tiled(blocks, s_heap_offset)
  BY DEF HeapInv, Tiled
<1>2. n \in Nat
  BY <1>1, LenProperties
<1>21. i \in Nat /\ 1 <= i /\ i <= n
  BY <1>2
<1>3. b \in BlockSet
  BY <1>1, ElementOfSeq
<1>4. b.adr \in Nat /\ b.size \in Nat \ {0} /\ size \in Nat \ {0} /\ Header \in Nat \ {0}
  BY <1>3, BlockParts
<1>5. /\ m \in Seq(BlockSet) /\ Len(m) \in {1, 2} /\ ~m[1].free
      /\ m[1].adr = b.adr /\ End(m[Len(m)]) = End(b) /\ (Len(m) = 2 => End(m[1]) = m[2].adr)
  <2>1. CASE b.size >= size + Header + 1
    <3>. DEFINE x == block(b.adr, size, FALSE)
                y == block(b.adr + Header + size, b.size - size - Header, TRUE)
    <3>1. x \in BlockSet /\ ~x.free /\ x.adr = b.adr /\ End(x) = b.adr + Header + size
      <4>1. NewBlock(x, b.adr, size) /\ ~x.free
        BY <1>4, NewBlocks, Zenon
      <4>. QED  BY <4>1, Zenon DEF NewBlock
    <3>2. b.adr + Header + size \in Nat /\ b.size - size - Header \in Nat \ {0}
      BY <1>4, <2>1, SMTT(40)
    <3>3. /\ y \in BlockSet /\ y.adr = b.adr + Header + size
          /\ End(y) = (b.adr + Header + size) + Header + (b.size - size - Header)
      <4>. DEFINE behind == b.adr + Header + size
                  rest == b.size - size - Header
      <4>. HIDE DEF behind, rest
      <4>1. NewBlock(block(behind, rest, TRUE), behind, rest)
        BY <3>2, NewBlocks, Zenon DEF behind, rest
      <4>. QED  BY <4>1, Zenon DEF NewBlock, behind, rest
    <3>4. End(y) = End(b)
      <4>1. (b.adr + Header + size) + Header + (b.size - size - Header) = b.adr + Header + b.size
        BY <1>4, SMTT(40)
      <4>. QED  BY <3>3, <4>1 DEF End
    <3>5. m = <<x, y>>
      BY <2>1 DEF split
    <3>. HIDE DEF x, y, m
    <3>. QED  BY <3>1, <3>3, <3>4, <3>5
  <2>2. CASE ~(b.size >= size + Header + 1)
    <3>. DEFINE x == block(b.adr, b.size, FALSE)
    <3>1. x \in BlockSet /\ ~x.free /\ x.adr = b.adr /\ End(x) = End(b)
      <4>1. NewBlock(x, b.adr, b.size) /\ ~x.free
        BY <1>4, NewBlocks, Zenon
      <4>2. End(b) = b.adr + Header + b.size
        BY Zenon DEF End
      <4>. QED  BY <4>1, <4>2, Zenon DEF NewBlock
    <3>2. m = <<x>>
      BY <2>2 DEF split
    <3>. HIDE DEF x, m
    <3>. QED  BY <3>1, <3>2
  <2>. QED  BY <2>1, <2>2
<1>. HIDE DEF m
<1>6. Tiled(r, s_heap_offset)
  <2>1. i \in {i, i + 1} /\ i <= Len(blocks)
    BY <1>21
  <2>. QED  BY <1>1, <1>5, <2>1, TiledSplice DEF m
<1>7. Apart(blocks)
  BY DEF HeapInv
<1>8. i < n /\ ~blocks[i + 1].free
  BY <1>7 DEF Apart
<1>9. r \in Seq(BlockSet) /\ Placed(r, blocks, i, i, m)
  <2>1. i \in i..Len(blocks)
    BY <1>21
  <2>. QED  BY <1>1, <1>5, <2>1, Splice DEF m
<1>10. Apart(r)
  <2>. DEFINE e == Len(m)
  <2>1. (e = 1 \/ e = 2) /\ e \in Nat
    BY <1>5
  <2>2. /\ Len(r) = n - (i - i + 1) + e
        /\ \A k \in 1..i - 1 : r[k] = blocks[k]
        /\ \A k \in 1..e : r[i - 1 + k] = m[k]
        /\ \A k \in i + 1..n : r[k - (i - i + 1) + e] = blocks[k]
    BY <1>9 DEF Placed
  <2>. HIDE DEF e
  <2>3. Len(r) = n - 1 + e
    <3>1. Len(r) = n - (i - i + 1) + e
      BY <2>2
    <3>. QED  BY <1>2, <1>21, <2>1, <3>1
  <2>4. ASSUME NEW k \in i + 1..n  PROVE r[k - 1 + e] = blocks[k]
    <3>1. r[k - (i - i + 1) + e] = blocks[k] /\ i - i + 1 = 1
      BY <1>21, <2>2
    <3>. QED  BY <3>1
  <2>5. ASSUME NEW k \in 1..Len(r), r[k].free  PROVE k < Len(r) /\ ~r[k + 1].free
    <3>0. k \in Nat /\ 1 <= k /\ k <= Len(r)
      BY <1>2, <2>1, <2>3
    <3>1. CASE k < i
      <4>1. k \in 1..i - 1 /\ k \in 1..n
        BY <1>2, <1>21, <3>0, <3>1
      <4>2. blocks[k].free
        BY <2>2, <2>5, <4>1
      <4>3. k < n /\ ~blocks[k + 1].free
        BY <1>7, <4>1, <4>2 DEF Apart
      <4>4. k + 1 # i
        BY <4>3
      <4>5. k + 1 \in 1..i - 1 /\ k < Len(r)
        BY <1>2, <1>21, <2>1, <2>3, <3>0, <3>1, <4>4
      <4>. QED  BY <2>2, <4>3, <4>5
    <3>2. CASE k = i
      <4>1. i - 1 + 1 = i /\ 1 \in 1..e
        BY <1>21, <2>1
      <4>2. r[i] = m[1]
        BY <2>2, <4>1
      <4>. QED  BY <1>5, <2>5, <3>2, <4>2
    <3>3. CASE k = i + 1 /\ e = 2
      <4>1. i + 1 \in i + 1..n /\ (i + 1) - 1 + e = k + 1 /\ k < Len(r)
        BY <1>2, <1>21, <1>8, <2>3, <3>3
      <4>2. r[k + 1] = blocks[i + 1]
        BY <2>4, <4>1
      <4>. QED  BY <1>8, <4>1, <4>2
    <3>4. CASE k >= i + e
      <4>. DEFINE x == k + 1 - e
      <4>1. x \in i + 1..n /\ x - 1 + e = k /\ x \in 1..n
        BY <1>2, <1>21, <2>1, <2>3, <3>0, <3>4
      <4>2. r[k] = blocks[x]
        BY <2>4, <4>1
      <4>3. x < n /\ ~blocks[x + 1].free
        BY <1>7, <2>5, <4>1, <4>2 DEF Apart
      <4>4. x + 1 \in i + 1..n /\ (x + 1) - 1 + e = k + 1 /\ k < Len(r)
        BY <1>2, <1>21, <2>1, <2>3, <3>0, <4>1, <4>3
      <4>5. r[k + 1] = blocks[x + 1]
        BY <2>4, <4>4
      <4>. QED  BY <4>3, <4>4, <4>5
    <3>. QED  BY <1>21, <2>1, <3>0, <3>1, <3>2, <3>3, <3>4
  <2>. QED  BY <2>5 DEF Apart
<1>. QED  BY <1>6, <1>10

\* Imalloc keeps the invariant of the heap.
LEMMA ImallocKeeps ==
  ASSUME HeapInv, NEW size \in Sizes, Imalloc(size)
  PROVE  HeapInv'
<1>. DEFINE i == first_fit(size)
            I == {k \in 1..Len(blocks) : blocks[k].free /\ blocks[k].size >= size}
<1>1. blocks \in Seq(BlockSet) /\ s_heap_offset \in Nat /\ Tiled(blocks, s_heap_offset)
  BY DEF HeapInv, Tiled
<1>2. Len(blocks) \in Nat
  BY <1>1, LenProperties
<1>3. i = IF I # {} THEN Min(I) ELSE 0
  BY DEF first_fit, SelectInSeq
<1>4. i # 0 => i \in 1..Len(blocks) /\ blocks[i].free /\ blocks[i].size >= size
  <2>1. I \in SUBSET Nat
    BY <1>2
  <2>2. I # {} => Min(I) \in I
    BY <2>1, MinPosition
  <2>. QED  BY <1>3, <2>2
<1>. HIDE DEF i, I
<1>5. CASE i # 0
  <2>1. blocks' = Spliced(blocks, i, i, split(i, size)) /\ s_heap_offset' = s_heap_offset
    BY <1>5 DEF Imalloc, i, Spliced
  <2>. QED  BY <1>4, <1>5, <2>1, SplitTiled DEF HeapInv
<1>6. CASE i = 0
  <2>. DEFINE b == block(s_heap_offset, size, FALSE)
              r == Append(blocks, b)
              off == s_heap_offset + Header + size
              n == Len(blocks)
  <2>1. blocks' = r /\ s_heap_offset' = off /\ off <= PoolSize
    BY <1>6 DEF Imalloc, i
  <2>2. b \in BlockSet /\ ~b.free /\ b.adr = s_heap_offset /\ End(b) = off /\ off \in Nat
    <3>1. size \in Nat \ {0} /\ Header \in Nat
      BY BlockParts
    <3>2. NewBlock(b, s_heap_offset, size) /\ ~b.free
      BY <1>1, <3>1, NewBlocks
    <3>. HIDE DEF b
    <3>3. off \in Nat
      BY <1>1, <3>1
    <3>. QED  BY <3>2, <3>3 DEF NewBlock
  <2>. HIDE DEF b, off
  <2>3. /\ r \in Seq(BlockSet) /\ Len(r) = n + 1 /\ r[n + 1] = b
        /\ \A k \in 1..n : r[k] = blocks[k]
    BY <1>1, <1>2, <2>2, AppendProperties
  <2>. HIDE DEF r
  <2>4. Tiled(r, off)
    <3>1. r # <<>>
      BY <1>2, <2>3, EmptySeq
    <3>2. r[1].adr = 0
      <4>1. CASE blocks = <<>>
        BY <1>1, <2>2, <2>3, <4>1, EmptySeq DEF Tiled
      <4>2. CASE blocks # <<>>
        <5>1. 1 \in 1..n /\ blocks[1].adr = 0
          BY <1>1, <1>2, <4>2, EmptySeq DEF Tiled
        <5>. QED  BY <2>3, <5>1
      <4>. QED  BY <4>1, <4>2
    <3>3. ASSUME NEW k \in 1..Len(r)  PROVE End(r[k]) = IF k = Len(r) THEN off ELSE r[k + 1].adr
      <4>1. CASE k = n + 1
        BY <2>2, <2>3, <4>1
      <4>2. CASE k # n + 1
        <5>1. k \in 1..n /\ k # Len(r)
          BY <1>2, <2>3, <4>2
        <5>2. End(r[k]) = IF k = n THEN s_heap_offset ELSE blocks[k + 1].adr
          BY <1>1, <2>3, <5>1 DEF Tiled
        <5>3. CASE k = n
          BY <2>2, <2>3, <5>1, <5>2, <5>3
        <5>4. CASE k # n
          <6>1. k + 1 \in 1..n
            BY <1>2, <5>1, <5>4
          <6>. QED  BY <2>3, <5>1, <5>2, <5>4, <6>1
        <5>. QED  BY <5>3, <5>4
      <4>. QED  BY <4>1, <4>2
    <3>. QED  BY <2>2, <2>3, <3>1, <3>2, <3>3 DEF Tiled
  <2>5. Apart(r)
    <3>1. ASSUME NEW k \in 1..Len(r), r[k].free  PROVE k < Len(r) /\ ~r[k + 1].free
      <4>1. k # n + 1
        BY <2>2, <2>3, <3>1
      <4>2. k \in 1..n
        BY <1>2, <2>3, <4>1
      <4>3. k < n /\ ~blocks[k + 1].free
        BY <2>3, <3>1, <4>2 DEF HeapInv, Apart
      <4>4. k + 1 \in 1..n
        BY <1>2, <4>2, <4>3
      <4>. QED  BY <1>2, <2>3, <4>3, <4>4
    <3>. QED  BY <3>1 DEF Apart
  <2>. QED  BY <2>1, <2>4, <2>5 DEF HeapInv
<1>. QED  BY <1>5, <1>6
\* One element of a sequence is replaced.
LEMMA Replaced ==
  ASSUME NEW S, NEW q \in Seq(S), NEW i \in 1..Len(q), NEW e \in S, NEW r, r = [q EXCEPT ![i] = e]
  PROVE  r \in Seq(S) /\ Len(r) = Len(q) /\ \A k \in 1..Len(q) : r[k] = IF k = i THEN e ELSE q[k]
BY ExceptSeq

\* Block i is free, and so may be its neighbours, but no others side by side.
Freed(bs, i) ==
    /\ i \in 1..Len(bs) /\ bs[i].free
    /\ \A k \in 1..Len(bs) : k # i /\ bs[k].free => k < Len(bs) /\ (k + 1 = i \/ ~bs[k + 1].free)
    /\ i < Len(bs) /\ bs[i + 1].free => i + 1 < Len(bs) /\ ~bs[i + 2].free

\* A block is set free: the list stays tiled.
LEMMA FreedTiled ==
  ASSUME NEW off, NEW bs, Tiled(bs, off), Apart(bs), NEW i \in 1..Len(bs), ~bs[i].free,
         NEW e \in BlockSet, e.free, e.adr = bs[i].adr, End(e) = End(bs[i]),
         NEW r, r = [bs EXCEPT ![i] = e]
  PROVE  Tiled(r, off) /\ Freed(r, i)
<1>. DEFINE n == Len(bs)
<1>1. bs \in Seq(BlockSet)
  BY DEF Tiled
<1>2. n \in Nat /\ DOMAIN bs = 1..n
  BY <1>1, LenProperties
<1>5. r \in Seq(BlockSet) /\ Len(r) = n /\ \A k \in 1..n : r[k] = IF k = i THEN e ELSE bs[k]
  BY <1>1, Replaced
<1>6. \A k \in 1..n : r[k].adr = bs[k].adr /\ End(r[k]) = End(bs[k])
  BY <1>5, SMTT(40)
<1>7. Tiled(r, off)
  <2>1. ASSUME NEW k \in 1..Len(r)  PROVE End(r[k]) = IF k = Len(r) THEN off ELSE r[k + 1].adr
    <3>1. End(bs[k]) = IF k = n THEN off ELSE bs[k + 1].adr
      BY <1>1, <1>5 DEF Tiled
    <3>2. k # n => k + 1 \in 1..n
      BY <1>2, <1>5
    <3>. QED  BY <1>5, <1>6, <3>1, <3>2, SMTT(40)
  <2>2. r # <<>> /\ r[1].adr = 0
    <3>1. n >= 1 /\ 1 \in 1..n
      BY <1>2
    <3>2. bs # <<>> /\ r # <<>>
      BY <1>1, <1>5, <3>1, EmptySeq
    <3>. QED  BY <1>1, <1>6, <3>1, <3>2 DEF Tiled
  <2>. QED  BY <1>1, <1>5, <2>1, <2>2 DEF Tiled
<1>8. ASSUME NEW k \in 1..Len(r), k # i, r[k].free
      PROVE  k < Len(r) /\ (k + 1 = i \/ ~r[k + 1].free)
  <2>1. bs[k].free /\ k \in 1..n
    BY <1>5, <1>8
  <2>2. k < n /\ ~bs[k + 1].free
    BY <1>1, <2>1 DEF Apart
  <2>3. k + 1 \in 1..n
    BY <1>2, <2>1, <2>2
  <2>. QED  BY <1>5, <2>2, <2>3
<1>9. ASSUME i < Len(r), r[i + 1].free
      PROVE  i + 1 < Len(r) /\ ~r[i + 2].free
  <2>1. i + 1 \in 1..n /\ i + 1 # i
    BY <1>2, <1>5, <1>9
  <2>2. bs[i + 1].free
    BY <1>5, <1>9, <2>1
  <2>3. i + 1 < n /\ ~bs[(i + 1) + 1].free
    BY <1>1, <2>1, <2>2 DEF Apart
  <2>4. (i + 1) + 1 = i + 2 /\ i + 2 \in 1..n /\ i + 2 # i
    BY <1>2, <2>3
  <2>. QED  BY <1>5, <2>3, <2>4
<1>. QED  BY <1>5, <1>7, <1>8, <1>9 DEF Freed

\* It is joined with the one behind it.
LEMMA JoinForward ==
  ASSUME NEW off, NEW bs, Tiled(bs, off), NEW i, Freed(bs, i),
         NEW r, r = join_forward(bs, i)
  PROVE  Tiled(r, off) /\ ApartBut(r, i, TRUE)
<1>. DEFINE n == Len(bs)
<1>1. bs \in Seq(BlockSet) /\ n \in Nat
  BY LenProperties DEF Tiled
<1>10. i \in 1..n /\ bs[i].free
  BY DEF Freed
<1>11. i \in Nat /\ 1 <= i /\ i <= n
  BY <1>1, <1>10
<1>12. ASSUME NEW k \in 1..n, k # i, bs[k].free
       PROVE  k < n /\ (k + 1 = i \/ ~bs[k + 1].free)
  BY <1>12 DEF Freed
<1>13. i < n /\ bs[i + 1].free => i + 1 < n /\ ~bs[i + 2].free
  BY DEF Freed
<1>2. CASE ~(i < n /\ bs[i + 1].free)
  <2>1. r = bs
    BY <1>2 DEF join_forward
  <2>2. i = n \/ ~bs[i + 1].free
    BY <1>1, <1>11, <1>2
  <2>. QED  BY <1>10, <1>12, <2>1, <2>2 DEF ApartBut
<1>3. CASE i < n /\ bs[i + 1].free
  <2>. DEFINE m == <<merged(bs[i], bs[i + 1])>>
  <2>1. i + 1 < n /\ ~bs[i + 2].free
    BY <1>3, <1>13
  <2>2. /\ r = Spliced(bs, i, i + 1, m)
    <3>1. (i + 1) + 1 = i + 2
      BY <1>11
    <3>. QED  BY <1>3, <3>1 DEF join_forward, Spliced
  <2>3. /\ merged(bs[i], bs[i + 1]) \in BlockSet /\ merged(bs[i], bs[i + 1]).free
        /\ merged(bs[i], bs[i + 1]).adr = bs[i].adr /\ End(merged(bs[i], bs[i + 1])) = End(bs[i + 1])
    <3>1. i + 1 \in 1..n
      BY <1>1, <1>11, <2>1
    <3>2. bs[i] \in BlockSet /\ bs[i + 1] \in BlockSet
      BY <1>1, <1>10, <3>1, ElementOfSeq
    <3>3. End(bs[i]) = bs[i + 1].adr
      <4>1. i # n
        BY <1>1, <1>11, <2>1
      <4>. QED  BY <1>10, <4>1 DEF Tiled
    <3>4. bs[i].free
      BY <1>10
    <3>. QED  BY <3>2, <3>3, <3>4, BlockParts
  <2>4. /\ m \in Seq(BlockSet) /\ Len(m) = 1 /\ m[1].free
        /\ m[1].adr = bs[i].adr /\ End(m[1]) = End(bs[i + 1])
    BY <2>3
  <2>. HIDE DEF m
  <2>5. i + 1 \in i..n /\ i + 1 <= n /\ i + 1 \in {i, i + 1}
    BY <1>1, <1>11, <2>1
  <2>6. Tiled(r, off)
    BY <1>10, <2>2, <2>4, <2>5, TiledSplice
  <2>7. Placed(r, bs, i, i + 1, m)
    BY <1>1, <1>10, <2>2, <2>4, <2>5, Splice
  <2>8. /\ Len(r) = n - 1
        /\ \A k \in 1..i - 1 : r[k] = bs[k]
        /\ r[i] = m[1]
        /\ \A k \in i + 2..n : r[k - 1] = bs[k]
    <3>1. Len(r) = n - ((i + 1) - i + 1) + 1
      BY <2>4, <2>7 DEF Placed
    <3>2. \A k \in 1..i - 1 : r[k] = bs[k]
      BY <2>7 DEF Placed
    <3>3. r[i - 1 + 1] = m[1]
      BY <2>4, <2>7 DEF Placed
    <3>4. i - 1 + 1 = i /\ (i + 1) + 1 = i + 2 /\ (i + 1) - i + 1 = 2
      BY <1>11
    <3>5. ASSUME NEW k \in i + 2..n  PROVE r[k - 1] = bs[k]
      <4>1. k \in (i + 1) + 1..n /\ k - ((i + 1) - i + 1) + Len(m) = k - 1
        BY <1>1, <1>11, <2>4, <3>4
      <4>. QED  BY <2>7, <4>1 DEF Placed
    <3>6. Len(r) = n - 1
      BY <1>1, <3>1, <3>4
    <3>. QED  BY <3>2, <3>3, <3>4, <3>5, <3>6
  <2>9. i \in 1..Len(r) /\ r[i].free /\ ~r[i + 1].free
    <3>1. i \in 1..Len(r) /\ i + 2 \in i + 2..n /\ (i + 2) - 1 = i + 1
      BY <1>1, <1>11, <2>1, <2>8
    <3>. QED  BY <2>1, <2>4, <2>8, <3>1
  <2>10. ASSUME NEW k \in 1..Len(r), k # i, r[k].free
         PROVE  k < Len(r) /\ (k + 1 = i \/ ~r[k + 1].free)
    <3>0. k \in Nat /\ 1 <= k /\ k <= n - 1
      BY <1>1, <2>8
    <3>1. CASE k < i
      <4>1. k \in 1..i - 1 /\ k \in 1..n /\ k < Len(r)
        BY <1>1, <1>11, <2>1, <2>8, <3>0, <3>1
      <4>2. k + 1 = i \/ ~bs[k + 1].free
        BY <1>12, <2>8, <2>10, <4>1
      <4>3. k + 1 # i => k + 1 \in 1..i - 1
        BY <1>11, <3>0, <3>1
      <4>. QED  BY <2>8, <4>1, <4>2, <4>3
    <3>2. CASE k > i
      <4>. DEFINE x == k + 1
      <4>1. x \in i + 2..n /\ x - 1 = k /\ x \in 1..n /\ x # i /\ x + 1 # i
        BY <1>1, <1>11, <3>0, <3>2
      <4>2. bs[x].free
        BY <2>8, <2>10, <4>1
      <4>3. x < n /\ ~bs[x + 1].free
        BY <1>12, <4>1, <4>2
      <4>4. x + 1 \in i + 2..n /\ (x + 1) - 1 = k + 1 /\ k < Len(r)
        BY <1>1, <1>11, <2>8, <3>0, <4>1, <4>3
      <4>5. r[k + 1] = bs[x + 1]
        BY <2>8, <4>4
      <4>. QED  BY <4>3, <4>4, <4>5
    <3>. QED  BY <1>11, <2>10, <3>0, <3>1, <3>2
  <2>. QED  BY <2>6, <2>9, <2>10 DEF ApartBut
<1>. QED  BY <1>2, <1>3

\* ... and with the one before it.
LEMMA JoinBackward ==
  ASSUME NEW off, NEW bs, Tiled(bs, off), NEW i, ApartBut(bs, i, TRUE), NEW j, j = join_backward(bs, i)
  PROVE  Tiled(j.bs, off) /\ ApartBut(j.bs, j.i, FALSE)
<1>. DEFINE n == Len(bs)
            r == j.bs
<1>1. bs \in Seq(BlockSet) /\ n \in Nat
  BY LenProperties DEF Tiled
<1>10. i \in 1..n
  BY DEF ApartBut
<1>11. i \in Nat /\ 1 <= i /\ i <= n
  BY <1>1, <1>10
<1>12. bs[i].free /\ (i = n \/ ~bs[i + 1].free)
  BY DEF ApartBut
<1>13. ASSUME NEW k \in 1..n, k # i, bs[k].free
       PROVE  k < n /\ (k + 1 = i \/ ~bs[k + 1].free)
  BY <1>13 DEF ApartBut
<1>2. CASE ~(i > 1 /\ bs[i - 1].free)
  <2>1. j.bs = bs /\ j.i = i
    BY <1>2 DEF join_backward
  <2>2. ASSUME NEW k \in 1..n, k # i, bs[k].free  PROVE k < n /\ ~bs[k + 1].free
    <3>1. k + 1 # i
      <4>1. k + 1 = i => i > 1 /\ k = i - 1
        BY <1>1, <1>11
      <4>. QED  BY <1>2, <2>2, <4>1
    <3>. QED  BY <1>13, <2>2, <3>1
  <2>. QED  BY <1>10, <1>12, <2>1, <2>2 DEF ApartBut
<1>3. CASE i > 1 /\ bs[i - 1].free
  <2>. DEFINE h == i - 1
              m == <<merged(bs[h], bs[i])>>
  <2>1. h \in 1..n /\ h \in Nat /\ h + 1 = i /\ 1 <= h
    BY <1>1, <1>11, <1>3
  <2>2. j.bs = Spliced(bs, h, i, m) /\ j.i = h
    <3>1. h - 1 = i - 2
      BY <1>11
    <3>. QED  BY <1>3, <3>1 DEF join_backward, Spliced
  <2>. HIDE DEF h
  <2>3. /\ merged(bs[h], bs[i]) \in BlockSet /\ merged(bs[h], bs[i]).free
        /\ merged(bs[h], bs[i]).adr = bs[h].adr /\ End(merged(bs[h], bs[i])) = End(bs[i])
    <3>1. bs[h] \in BlockSet /\ bs[i] \in BlockSet
      BY <1>1, <1>10, <2>1, ElementOfSeq
    <3>2. h # n
      BY <1>11, <2>1
    <3>3. End(bs[h]) = bs[i].adr
      BY <2>1, <3>2 DEF Tiled
    <3>. QED  BY <3>1, <3>3, BlockParts
  <2>4. /\ m \in Seq(BlockSet) /\ Len(m) = 1 /\ m[1].free
        /\ m[1].adr = bs[h].adr /\ End(m[1]) = End(bs[i])
    BY <2>3
  <2>. HIDE DEF m
  <2>5. i \in h..n /\ i <= n /\ i \in {h, h + 1}
    BY <1>1, <1>11, <2>1
  <2>6. Tiled(r, off)
    BY <2>1, <2>2, <2>4, <2>5, TiledSplice, SMTT(40)
  <2>7. Placed(r, bs, h, i, m)
    BY <1>1, <2>1, <2>2, <2>4, <2>5, Splice
  <2>. HIDE DEF r
  <2>8. /\ Len(r) = n - 1
        /\ \A k \in 1..h - 1 : r[k] = bs[k]
        /\ r[h] = m[1]
        /\ \A k \in i + 1..n : r[k - 1] = bs[k]
    <3>1. Len(r) = n - (i - h + 1) + 1
      BY <2>4, <2>7 DEF Placed
    <3>2. \A k \in 1..h - 1 : r[k] = bs[k]
      BY <2>7 DEF Placed
    <3>3. r[h - 1 + 1] = m[1]
      BY <2>4, <2>7 DEF Placed
    <3>4. h - 1 + 1 = h /\ i - h + 1 = 2
      BY <1>11, <2>1
    <3>5. ASSUME NEW k \in i + 1..n  PROVE r[k - 1] = bs[k]
      <4>1. k - (i - h + 1) + Len(m) = k - 1
        BY <1>1, <1>11, <2>4, <3>4
      <4>. QED  BY <2>7, <4>1 DEF Placed
    <3>6. Len(r) = n - 1
      BY <1>1, <3>1, <3>4
    <3>. QED  BY <3>2, <3>3, <3>4, <3>5, <3>6
  <2>9. h \in 1..Len(r) /\ r[h].free /\ (h = Len(r) \/ ~r[h + 1].free)
    <3>1. h \in 1..Len(r)
      BY <1>1, <1>11, <2>1, <2>8
    <3>2. CASE i = n
      BY <1>1, <1>11, <2>1, <2>4, <2>8, <3>1, <3>2
    <3>3. CASE i # n
      <4>1. i + 1 \in i + 1..n /\ (i + 1) - 1 = h + 1
        BY <1>1, <1>11, <2>1, <3>3
      <4>2. r[h + 1] = bs[i + 1]
        BY <2>8, <4>1
      <4>. QED  BY <1>12, <2>4, <2>8, <3>1, <3>3, <4>2
    <3>. QED  BY <3>2, <3>3
  <2>10. ASSUME NEW k \in 1..Len(r), k # h, r[k].free  PROVE k < Len(r) /\ ~r[k + 1].free
    <3>0. k \in Nat /\ 1 <= k /\ k <= n - 1
      BY <1>1, <2>8
    <3>1. CASE k < h
      <4>1. k \in 1..h - 1 /\ k \in 1..n /\ k < Len(r) /\ k # i /\ k + 1 # i
        BY <1>1, <1>11, <2>1, <2>8, <3>0, <3>1
      <4>2. ~bs[k + 1].free
        BY <1>13, <2>8, <2>10, <4>1
      <4>3. k + 1 # h
        BY <1>3, <4>2 DEF h
      <4>4. k + 1 \in 1..h - 1
        BY <2>1, <3>0, <3>1, <4>3
      <4>. QED  BY <2>8, <4>1, <4>2, <4>4
    <3>2. CASE k > h
      <4>. DEFINE x == k + 1
      <4>1. x \in i + 1..n /\ x - 1 = k /\ x \in 1..n /\ x # i /\ x + 1 # i
        BY <1>1, <1>11, <2>1, <3>0, <3>2
      <4>2. bs[x].free
        BY <2>8, <2>10, <4>1
      <4>3. x < n /\ ~bs[x + 1].free
        BY <1>13, <4>1, <4>2
      <4>4. x + 1 \in i + 1..n /\ (x + 1) - 1 = k + 1 /\ k < Len(r)
        BY <1>1, <1>11, <2>8, <3>0, <4>1, <4>3
      <4>5. r[k + 1] = bs[x + 1]
        BY <2>8, <4>4
      <4>. QED  BY <4>3, <4>4, <4>5
    <3>. QED  BY <2>1, <2>10, <3>0, <3>1, <3>2
  <2>. QED  BY <2>2, <2>6, <2>9, <2>10 DEF ApartBut, r
<1>. QED  BY <1>2, <1>3

\* Without its last block the list ends where that began.
LEMMA FrontTiled ==
  ASSUME NEW off, NEW bs, Tiled(bs, off), ApartBut(bs, Len(bs), FALSE)
  PROVE  Tiled(Front(bs), Last(bs).adr) /\ Apart(Front(bs)) /\ Last(bs).adr <= off
<1>. DEFINE n == Len(bs)
            r == Front(bs)
            b == bs[n]
<1>1. bs \in Seq(BlockSet) /\ off \in Nat
  BY DEF Tiled
<1>2. n \in Nat /\ 1 <= n /\ n \in 1..n
  BY <1>1, LenProperties DEF ApartBut
<1>3. b \in BlockSet /\ b.adr \in Nat /\ End(b) = off /\ Last(bs) = b
  <2>1. b \in BlockSet
    BY <1>1, <1>2, ElementOfSeq, SMTT(40)
  <2>. QED  BY <1>2, <2>1, BlockParts, SMTT(40) DEF Tiled, Last
<1>4. r \in Seq(BlockSet) /\ Len(r) = n - 1 /\ \A k \in 1..n - 1 : r[k] = bs[k]
  <2>1. \A k \in 1..n - 1 : bs[k] \in BlockSet
    BY <1>1, <1>2, ElementOfSeq
  <2>2. /\ r \in Seq(BlockSet) /\ Len(r) = IF 1 <= n - 1 THEN (n - 1) - 1 + 1 ELSE 0
        /\ \A k \in 1..(n - 1) - 1 + 1 : r[k] = bs[1 + k - 1]
    BY <1>2, <2>1, SubSeqProperties DEF Front
  <2>. HIDE DEF r
  <2>3. (n - 1) - 1 + 1 = n - 1
    BY <1>2
  <2>5. Len(r) = n - 1
    <3>1. Len(r) = IF 1 <= n - 1 THEN n - 1 ELSE 0
      BY <2>2, <2>3
    <3>2. CASE n = 1
      BY <3>1, <3>2
    <3>3. CASE n # 1
      <4>1. 1 <= n - 1
        BY <1>2, <3>3, SMTT(40)
      <4>. QED  BY <3>1, <4>1
    <3>. QED  BY <3>2, <3>3, SMTT(40)
  <2>4. \A k \in 1..n - 1 : 1 + k - 1 = k
    OBVIOUS
  <2>. QED  BY <2>2, <2>3, <2>4, <2>5
<1>. HIDE DEF r, b
<1>5. Tiled(r, b.adr)
  <2>1. ASSUME NEW k \in 1..Len(r)  PROVE End(r[k]) = IF k = Len(r) THEN b.adr ELSE r[k + 1].adr
    <3>1. k \in 1..n - 1 /\ k \in 1..n /\ k # n
      BY <1>2, <1>4
    <3>2. End(r[k]) = bs[k + 1].adr
      BY <1>4, <3>1 DEF Tiled
    <3>3. CASE k = n - 1
      <4>1. k + 1 = n
        BY <1>2, <3>3
      <4>. QED  BY <1>4, <3>2, <3>3, <4>1 DEF b
    <3>4. CASE k # n - 1
      <4>1. k + 1 \in 1..n - 1
        BY <1>2, <3>1, <3>4
      <4>. QED  BY <1>4, <3>2, <3>4, <4>1
    <3>. QED  BY <3>3, <3>4
  <2>2. bs[1].adr = 0
    BY <1>1, <1>2, EmptySeq DEF Tiled
  <2>3. r # <<>> => r[1].adr = 0
    <3>1. r # <<>> => Len(r) # 0 /\ Len(r) \in Nat
      BY <1>4, EmptySeq
    <3>2. r # <<>> => 1 \in 1..n - 1
      BY <1>2, <1>4, <3>1
    <3>. QED  BY <1>4, <2>2, <3>2
  <2>4. r = <<>> => b.adr = 0
    <3>1. r = <<>> => n = 1
      BY <1>2, <1>4, EmptySeq
    <3>. QED  BY <2>2, <3>1 DEF b
  <2>. QED  BY <1>3, <1>4, <2>1, <2>3, <2>4 DEF Tiled
<1>6. Apart(r)
  <2>1. ASSUME NEW k \in 1..Len(r), r[k].free  PROVE k < Len(r) /\ ~r[k + 1].free
    <3>1. k \in 1..n - 1 /\ k \in 1..n /\ k # n
      BY <1>2, <1>4
    <3>2. ~bs[k + 1].free
      BY <1>4, <2>1, <3>1 DEF ApartBut
    <3>3. k + 1 # n
      BY <3>2 DEF ApartBut
    <3>4. k + 1 \in 1..n - 1
      BY <1>2, <3>1, <3>3
    <3>. QED  BY <1>2, <1>4, <3>2, <3>4
  <2>. QED  BY <2>1 DEF Apart
<1>7. b.adr <= off
  <2>1. b.adr + Header + b.size = off /\ b.size \in Nat /\ Header \in Nat
    BY <1>3, BlockParts DEF End
  <2>. QED  BY <1>1, <1>3, <2>1
<1>. QED  BY <1>3, <1>5, <1>6, <1>7 DEF r

\* Ifree keeps the invariant of the heap.
LEMMA IfreeKeeps ==
  ASSUME HeapInv, NEW i \in DOMAIN blocks, Ifree(i)
  PROVE  HeapInv'
<1>. DEFINE freed == [blocks EXCEPT ![i].free = TRUE]
            bs == join_forward(freed, i)
            j == join_backward(bs, i)
<1>1. i \in 1..Len(blocks) /\ ~blocks[i].free
  BY LenProperties DEF Ifree, HeapInv, Tiled
<1>2. IF j.i = Len(j.bs)
        THEN blocks' = Front(j.bs) /\ s_heap_offset' = Last(j.bs).adr
        ELSE blocks' = j.bs /\ UNCHANGED s_heap_offset
  BY DEF Ifree
<1>. HIDE DEF freed, bs, j
<1>3. Tiled(freed, s_heap_offset) /\ Freed(freed, i)
  <2>. DEFINE e == [blocks[i] EXCEPT !.free = TRUE]
  <2>1. e \in BlockSet /\ e.free /\ e.adr = blocks[i].adr /\ End(e) = End(blocks[i])
    <3>1. blocks[i] \in BlockSet
      BY <1>1, ElementOfSeq DEF HeapInv, Tiled
    <3>. QED  BY <3>1 DEF BlockSet, End
  <2>2. freed = [blocks EXCEPT ![i] = e]
    BY DEF freed
  <2>. HIDE DEF e
  <2>3. Tiled(blocks, s_heap_offset) /\ Apart(blocks)
    BY DEF HeapInv
  <2>. QED  BY <1>1, <2>1, <2>2, <2>3, FreedTiled
<1>4. Tiled(bs, s_heap_offset) /\ ApartBut(bs, i, TRUE)
  BY <1>3, JoinForward DEF bs
<1>5. Tiled(j.bs, s_heap_offset) /\ ApartBut(j.bs, j.i, FALSE)
  BY <1>4, JoinBackward DEF j
<1>6. CASE j.i = Len(j.bs)
  <2>1. Tiled(blocks', s_heap_offset') /\ Apart(blocks') /\ s_heap_offset' <= s_heap_offset
    BY <1>2, <1>5, <1>6, FrontTiled
  <2>2. s_heap_offset' \in Nat /\ s_heap_offset \in Nat /\ PoolSize \in Nat /\ s_heap_offset <= PoolSize
    BY <2>1, BlockParts DEF Tiled, HeapInv
  <2>3. s_heap_offset' <= PoolSize
    BY <2>1, <2>2
  <2>. QED  BY <2>1, <2>3 DEF HeapInv
<1>7. CASE j.i # Len(j.bs)
  <2>1. \A k \in 1..Len(j.bs) : j.bs[k].free => k < Len(j.bs) /\ ~j.bs[k + 1].free
    <3>1. j.i < Len(j.bs)
      <4>1. j.bs \in Seq(BlockSet)
        BY <1>5 DEF Tiled
      <4>2. Len(j.bs) \in Nat /\ j.i \in 1..Len(j.bs)
        BY <1>5, <4>1, LenProperties DEF ApartBut
      <4>. QED  BY <1>7, <4>2
    <3>. QED  BY <1>5, <1>7, <3>1 DEF ApartBut
  <2>. QED  BY <1>2, <1>5, <1>7, <2>1 DEF HeapInv, Apart
<1>. QED  BY <1>6, <1>7

\* Every step of the heap keeps its invariant.
LEMMA HeapStep ==
  ASSUME HeapInv, HeapNext  PROVE HeapInv'
BY ImallocKeeps, IfreeKeeps DEF HeapNext

-----------------------------------------------------------------------------
(* The handlers a task is in.                                              *)

\* A handler is entered, or left.
LEMMA Entered ==
  ASSUME NEW fr \in Seq(Frames), NEW f \in Frames, NEW r, r = Append(fr, f), NEW n, n = Len(fr)
  PROVE  /\ n \in Nat /\ DOMAIN fr = 1..n /\ DOMAIN r = 1..n + 1 /\ Len(r) = n + 1
         /\ r \in Seq(Frames) /\ r # <<>> /\ Last(r) = f /\ r[n + 1] = f
         /\ \A i \in 1..n : r[i] = fr[i]
<1>1. /\ r \in Seq(Frames) /\ r # <<>> /\ Len(r) = n + 1
      /\ (\A i \in 1..n : r[i] = fr[i]) /\ r[n + 1] = f
  BY AppendProperties
<1>2. n \in Nat /\ DOMAIN fr = 1..n /\ DOMAIN r = 1..n + 1
  BY <1>1, LenProperties
<1>. QED  BY <1>1, <1>2 DEF Last

\* What is left when the innermost handler returns.
LEMMA Left ==
  ASSUME NEW fr \in Seq(Frames), fr # <<>>, NEW r, r = Front(fr), NEW n, n = Len(fr)
  PROVE  /\ n \in Nat /\ 1 <= n /\ DOMAIN fr = 1..n /\ DOMAIN r = 1..n - 1 /\ Len(r) = n - 1
         /\ r \in Seq(Frames) /\ Last(fr) = fr[n] /\ fr[n] \in Frames
         /\ \A i \in 1..n - 1 : r[i] = fr[i]
<1>1. n \in Nat /\ DOMAIN fr = 1..n
  BY LenProperties
<1>2. 1 <= n
  BY <1>1, EmptySeq
<1>3. \A i \in 1..n - 1 : fr[i] \in Frames
  BY <1>1, ElementOfSeq
<1>4. fr[n] \in Frames
  BY <1>1, <1>2, ElementOfSeq
<1>5. (n - 1) - 1 + 1 = n - 1 /\ n - 1 \in Nat
  BY <1>1, <1>2
<1>6. r \in Seq(Frames) /\ Len(r) = n - 1 /\ \A i \in 1..n - 1 : r[i] = fr[i]
  <2>1. r = SubSeq(fr, 1, n - 1)
    BY DEF Front
  <2>2. /\ r \in Seq(Frames) /\ Len(r) = IF 1 <= n - 1 THEN (n - 1) - 1 + 1 ELSE 0
        /\ \A k \in 1..(n - 1) - 1 + 1 : r[k] = fr[1 + k - 1]
    BY <1>3, <1>5, <2>1, SubSeqProperties
  <2>3. Len(r) = n - 1
    <3>1. CASE n = 1
      BY <2>2, <3>1
    <3>2. CASE n # 1
      <4>1. 1 <= n - 1
        BY <1>1, <1>2, <3>2
      <4>. QED  BY <1>5, <2>2, <4>1
    <3>. QED  BY <3>1, <3>2
  <2>4. \A k \in 1..n - 1 : 1 + k - 1 = k
    OBVIOUS
  <2>. QED  BY <1>5, <2>2, <2>3, <2>4
<1>7. DOMAIN r = 1..n - 1
  BY <1>6, LenProperties
<1>. QED  BY <1>1, <1>2, <1>4, <1>6, <1>7 DEF Last

\* The kinds of handlers.
LEMMA FrameParts ==
  ASSUME NEW f \in Frames
  PROVE  /\ f.f \in {"svc", "ssfn", "brk"}
         /\ f.f = "svc" => f \in SvcFrames
         /\ f.f = "ssfn" => f \in SsfnFrames
         /\ f.f = "brk" <=> f \in BrkFrames
BY DEF Frames, SvcFrames, SsfnFrames, BrkFrames

\* An extended SVC is called: what it is marked with goes into its frame.
LEMMA SvcPushed ==
  ASSUME NEW fr \in Seq(Frames), NEW ex, BrokenOK(fr, ex),
         NEW f \in SvcFrames, f.save_execssid = ex, f.breaks = 0, NEW ex2, NEW r, r = Append(fr, f)
  PROVE  BrokenOK(r, ex2)
<1>. DEFINE n == Len(fr)
            m == n + 1
<1>1. f \in Frames /\ f.f = "svc"
  BY DEF Frames, SvcFrames
<1>2. /\ n \in Nat /\ DOMAIN fr = 1..n /\ DOMAIN r = 1..m /\ r[m] = f
      /\ \A i \in 1..n : r[i] = fr[i]
  BY <1>1, Entered
<1>3. m \in 1..m /\ \A i \in 1..m : i = m \/ (i \in 1..n /\ i < m)
  BY <1>2
<1>4. \A i \in 1..n : i \in 1..m /\ i < m
  BY <1>2
<1>. HIDE DEF m, n
<1>5. ASSUME NEW i \in DOMAIN r, r[i].f = "svc"  PROVE r[i].breaks <= 1
  BY <1>2, <1>3, <1>5 DEF BrokenOK
<1>6. ASSUME NEW i, Innermost(r, i), r[i].breaks # 0  PROVE ex2.ran
  <2>1. i \in 1..m /\ i # m
    BY <1>2, <1>6 DEF Innermost
  <2>2. i < m
    BY <1>3, <2>1
  <2>. QED  BY <1>1, <1>2, <1>3, <1>6, <2>2 DEF Innermost
<1>7. ASSUME NEW i, NEW j, Around(r, i, j), r[i].breaks # 0  PROVE r[j].save_execssid.ran
  <2>1. i \in 1..m /\ j \in 1..m /\ i < j /\ r[i].f = "svc" /\ r[j].f = "svc"
        /\ \A k \in 1..m : i < k /\ k < j => r[k].f # "svc"
    BY <1>2, <1>7 DEF Around
  <2>2. i \in 1..n
    <3>1. i # m
      <4>1. j <= m /\ m \in Nat /\ i \in Nat /\ j \in Nat
        BY <1>2, <2>1 DEF m
      <4>. QED  BY <2>1, <4>1
    <3>. QED  BY <1>3, <2>1, <3>1
  <2>3. CASE j = m
    <3>1. Innermost(fr, i)
      BY <1>2, <1>4, <2>1, <2>2, <2>3 DEF Innermost
    <3>. QED  BY <1>2, <1>7, <2>2, <2>3, <3>1 DEF BrokenOK
  <2>4. CASE j # m
    <3>1. j \in 1..n
      BY <1>3, <2>1, <2>4
    <3>2. Around(fr, i, j)
      BY <1>2, <1>4, <2>1, <2>2, <3>1 DEF Around
    <3>. QED  BY <1>2, <1>7, <2>2, <3>1, <3>2 DEF BrokenOK
  <2>. QED  BY <2>3, <2>4
<1>8. ~ \A i \in DOMAIN r : r[i].f # "svc"
  BY <1>1, <1>2, <1>3
<1>9. ASSUME NEW j \in DOMAIN r, r[j].f = "svc", \A i \in DOMAIN r : i < j => r[i].f # "svc"
      PROVE  r[j].save_execssid.ssid = NULL
  <2>1. CASE j = m
    <3>1. \A i \in DOMAIN fr : fr[i].f # "svc"
      BY <1>2, <1>4, <1>9, <2>1
    <3>. QED  BY <1>2, <2>1, <3>1 DEF BrokenOK
  <2>2. CASE j # m
    <3>1. j \in 1..n
      BY <1>2, <1>3, <2>2
    <3>. QED  BY <1>2, <1>4, <1>9, <3>1 DEF BrokenOK
  <2>. QED  BY <2>1, <2>2
<1>. QED  BY <1>5, <1>6, <1>7, <1>8, <1>9 DEF BrokenOK

\* It ends: the mark is that of the extended SVC around it.
LEMMA SvcPopped ==
  ASSUME NEW fr \in Seq(Frames), NEW ex, BrokenOK(fr, ex), fr # <<>>, Last(fr).f = "svc",
         NEW r, r = Front(fr)
  PROVE  BrokenOK(r, Last(fr).save_execssid)
<1>. DEFINE n == Len(fr)
            d == n - 1
<1>1. /\ n \in Nat /\ DOMAIN fr = 1..n /\ DOMAIN r = 1..d /\ Last(fr) = fr[n]
      /\ \A i \in 1..d : r[i] = fr[i]
  BY Left
<1>2. n \in 1..n /\ (\A i \in 1..n : i = n \/ i \in 1..d) /\ \A i \in 1..d : i \in 1..n /\ i < n
  <2>1. n \in Nat /\ 1 <= n
    BY Left
  <2>. QED  BY <2>1
<1>. HIDE DEF d, n
<1>3. fr[n].f = "svc"
  BY <1>1
<1>5. ASSUME NEW i \in DOMAIN r, r[i].f = "svc"  PROVE r[i].breaks <= 1
  BY <1>1, <1>2, <1>5 DEF BrokenOK
<1>6. ASSUME NEW i, Innermost(r, i), r[i].breaks # 0  PROVE fr[n].save_execssid.ran
  <2>1. i \in 1..d /\ r[i].f = "svc" /\ \A j \in 1..d : j > i => r[j].f # "svc"
    BY <1>1, <1>6 DEF Innermost
  <2>2. i \in Nat /\ \A k \in 1..n : k \in Nat
    BY <2>1
  <2>3. ASSUME NEW k \in 1..n, i < k, k < n  PROVE fr[k].f # "svc"
    <3>1. k \in 1..d /\ k > i
      BY <1>1, <1>2, <2>2, <2>3
    <3>. QED  BY <1>1, <2>1, <3>1
  <2>4. Around(fr, i, n)
    BY <1>1, <1>2, <1>3, <2>1, <2>3 DEF Around
  <2>. QED  BY <1>1, <1>6, <2>1, <2>4 DEF BrokenOK
<1>7. ASSUME NEW i, NEW j, Around(r, i, j), r[i].breaks # 0  PROVE r[j].save_execssid.ran
  <2>1. i \in 1..d /\ j \in 1..d /\ i < j /\ r[i].f = "svc" /\ r[j].f = "svc"
        /\ \A k \in 1..d : i < k /\ k < j => r[k].f # "svc"
    BY <1>1, <1>7 DEF Around
  <2>2. ASSUME NEW k \in 1..n, i < k, k < j  PROVE fr[k].f # "svc"
    <3>1. k # n
      <4>1. j < n /\ j \in Nat /\ n \in Nat
        BY <1>1, <1>2, <2>1
      <4>. QED  BY <2>2, <4>1
    <3>. QED  BY <1>1, <1>2, <2>1, <2>2, <3>1
  <2>3. Around(fr, i, j)
    BY <1>1, <1>2, <2>1, <2>2 DEF Around
  <2>. QED  BY <1>1, <1>7, <2>1, <2>3 DEF BrokenOK
<1>8. ASSUME \A i \in DOMAIN r : r[i].f # "svc"  PROVE fr[n].save_execssid.ssid = NULL
  <2>1. \A i \in DOMAIN fr : i < n => fr[i].f # "svc"
    BY <1>1, <1>2, <1>8
  <2>. QED  BY <1>1, <1>2, <1>3, <2>1 DEF BrokenOK
<1>9. ASSUME NEW j \in DOMAIN r, r[j].f = "svc", \A i \in DOMAIN r : i < j => r[i].f # "svc"
      PROVE  r[j].save_execssid.ssid = NULL
  <2>1. j \in 1..n /\ j < n /\ j \in Nat /\ n \in Nat
    BY <1>1, <1>2
  <2>2. ASSUME NEW i \in DOMAIN fr, i < j  PROVE fr[i].f # "svc"
    <3>1. i # n
      BY <2>1, <2>2
    <3>. QED  BY <1>1, <1>2, <1>9, <2>2, <3>1
  <2>. QED  BY <1>1, <1>9, <2>1, <2>2 DEF BrokenOK
<1>. QED  BY <1>1, <1>5, <1>6, <1>7, <1>8, <1>9 DEF BrokenOK

\* The marks depend on the extended SVCs alone.
LEMMA SameSvcs ==
  ASSUME NEW fr, NEW ex, BrokenOK(fr, ex), NEW r,
         \A i : i \in DOMAIN r /\ r[i].f = "svc" <=> i \in DOMAIN fr /\ fr[i].f = "svc",
         \A i : i \in DOMAIN r /\ i \in DOMAIN fr => r[i] = fr[i]
  PROVE  BrokenOK(r, ex)
<1>1. \A i \in DOMAIN r : r[i].f = "svc" => i \in DOMAIN fr /\ r[i] = fr[i]
  OBVIOUS
<1>2. \A i \in DOMAIN fr : fr[i].f = "svc" => i \in DOMAIN r
  OBVIOUS
<1>3. \A i \in DOMAIN r : r[i].f = "svc" => r[i].breaks <= 1
  BY <1>1 DEF BrokenOK
<1>4. \A i : Innermost(r, i) => Innermost(fr, i) /\ r[i] = fr[i]
  BY <1>1, <1>2 DEF Innermost
<1>5. \A i, j : Around(r, i, j) => Around(fr, i, j) /\ r[i] = fr[i] /\ r[j] = fr[j]
  BY <1>1, <1>2 DEF Around
<1>6. (\A i \in DOMAIN r : r[i].f # "svc") => ex.ssid = NULL
  BY DEF BrokenOK
<1>7. ASSUME NEW j \in DOMAIN r, r[j].f = "svc", \A i \in DOMAIN r : i < j => r[i].f # "svc"
      PROVE  r[j].save_execssid.ssid = NULL
  <2>1. \A i \in DOMAIN fr : i < j => fr[i].f # "svc"
    BY <1>7
  <2>. QED  BY <1>1, <1>7, <2>1 DEF BrokenOK
<1>. QED  BY <1>3, <1>4, <1>5, <1>6, <1>7 DEF BrokenOK

\* A handler that is no extended SVC leaves the marks alone.
LEMMA OtherPushed ==
  ASSUME NEW fr \in Seq(Frames), NEW ex, BrokenOK(fr, ex),
         NEW f \in Frames, f.f # "svc", NEW r, r = Append(fr, f)
  PROVE  BrokenOK(r, ex)
<1>. DEFINE n == Len(fr)
            m == n + 1
<1>2. /\ n \in Nat /\ DOMAIN fr = 1..n /\ DOMAIN r = 1..m /\ r[m] = f
      /\ \A i \in 1..n : r[i] = fr[i]
  BY Entered
<1>3. \A i \in 1..m : i = m \/ i \in 1..n
  BY <1>2
<1>4. \A i \in 1..n : i \in 1..m
  BY <1>2
<1>. HIDE DEF m, n
<1>5. \A i : i \in DOMAIN r /\ r[i].f = "svc" <=> i \in DOMAIN fr /\ fr[i].f = "svc"
  BY <1>2, <1>3, <1>4
<1>6. \A i : i \in DOMAIN r /\ i \in DOMAIN fr => r[i] = fr[i]
  BY <1>2
<1>. QED  BY <1>5, <1>6, SameSvcs

\* Nor does its return.
LEMMA OtherPopped ==
  ASSUME NEW fr \in Seq(Frames), NEW ex, BrokenOK(fr, ex), fr # <<>>, Last(fr).f # "svc",
         NEW r, r = Front(fr)
  PROVE  BrokenOK(r, ex)
<1>. DEFINE n == Len(fr)
            d == n - 1
<1>1. /\ n \in Nat /\ DOMAIN fr = 1..n /\ DOMAIN r = 1..d /\ Last(fr) = fr[n]
      /\ \A i \in 1..d : r[i] = fr[i]
  BY Left
<1>2. (\A i \in 1..n : i = n \/ i \in 1..d) /\ \A i \in 1..d : i \in 1..n
  <2>1. n \in Nat /\ 1 <= n
    BY Left
  <2>. QED  BY <2>1
<1>. HIDE DEF d, n
<1>5. \A i : i \in DOMAIN r /\ r[i].f = "svc" <=> i \in DOMAIN fr /\ fr[i].f = "svc"
  BY <1>1, <1>2
<1>6. \A i : i \in DOMAIN r /\ i \in DOMAIN fr => r[i] = fr[i]
  BY <1>1
<1>. QED  BY <1>5, <1>6, SameSvcs

\* The innermost extended SVC is broken, which was not yet.
LEMMA BrokenNow ==
  ASSUME NEW fr \in Seq(Frames), NEW ex, BrokenOK(fr, ex), ~ex.ran, NEW i, Innermost(fr, i),
         NEW ex2, ex2.ran, ex2.ssid = ex.ssid,
         NEW e, e = [fr[i] EXCEPT !.breaks = fr[i].breaks + 1], NEW r, r = [fr EXCEPT ![i] = e]
  PROVE  BrokenOK(r, ex2)
<1>1. i \in DOMAIN fr /\ fr[i].f = "svc" /\ fr[i] \in SvcFrames
  <2>1. i \in DOMAIN fr /\ fr[i].f = "svc"
    BY DEF Innermost
  <2>2. fr[i] \in Frames
    BY <2>1, LenProperties, ElementOfSeq
  <2>. QED  BY <2>1, <2>2, FrameParts
<1>2. fr[i].breaks = 0
  BY <1>1 DEF BrokenOK
<1>3. /\ DOMAIN r = DOMAIN fr /\ \A k \in DOMAIN fr : k # i => r[k] = fr[k]
      /\ r[i] = e
  <2>1. fr \in [1..Len(fr) -> Frames]
    BY LenProperties
  <2>. QED  BY <1>1, <2>1
<1>4. r[i].f = "svc" /\ r[i].breaks = 1 /\ r[i].save_execssid = fr[i].save_execssid
  BY <1>1, <1>2, <1>3 DEF SvcFrames
<1>5. \A k \in DOMAIN fr : r[k].f = fr[k].f /\ (r[k].f = "svc" => r[k].save_execssid = fr[k].save_execssid)
  BY <1>1, <1>3, <1>4
<1>6. \A k \in DOMAIN r : r[k].f = "svc" => r[k].breaks <= 1
  BY <1>3, <1>4 DEF BrokenOK
<1>7. ASSUME NEW k, NEW j, Around(r, k, j), r[k].breaks # 0  PROVE r[j].save_execssid.ran
  <2>1. Around(fr, k, j)
    BY <1>3, <1>5, <1>7 DEF Around
  <2>2. k # i
    BY <2>1 DEF Around, Innermost
  <2>3. k \in DOMAIN fr /\ j \in DOMAIN fr /\ fr[j].f = "svc"
    BY <2>1 DEF Around
  <2>. QED  BY <1>3, <1>5, <1>7, <2>1, <2>2, <2>3 DEF BrokenOK
<1>8. (\A k \in DOMAIN r : r[k].f # "svc") => ex2.ssid = NULL
  BY <1>3, <1>5 DEF BrokenOK
<1>9. ASSUME NEW j \in DOMAIN r, r[j].f = "svc", \A k \in DOMAIN r : k < j => r[k].f # "svc"
      PROVE  r[j].save_execssid.ssid = NULL
  BY <1>3, <1>5, <1>9 DEF BrokenOK
<1>. QED  BY <1>6, <1>7, <1>8, <1>9 DEF BrokenOK

\* ... or is only marked.
LEMMA MarkedNow ==
  ASSUME NEW fr, NEW ex, BrokenOK(fr, ex), NEW ex2, ex2.ran, ex2.ssid = ex.ssid
  PROVE  BrokenOK(fr, ex2)
BY DEF BrokenOK

\* The extended SVC that call_brkhdr finds.
LEMMA InnermostFound ==
  ASSUME NEW fr \in Seq(Frames), NEW ex, BrokenOK(fr, ex), ex.ssid # NULL
  PROVE  Innermost(fr, SelectLastInSeq(fr, LAMBDA f : f.f = "svc"))
<1>. DEFINE I == {i \in 1..Len(fr) : fr[i].f = "svc"}
            J == {Len(fr) - i : i \in I}
            c == SelectLastInSeq(fr, LAMBDA f : f.f = "svc")
<1>1. Len(fr) \in Nat /\ DOMAIN fr = 1..Len(fr)
  BY LenProperties
<1>2. I # {}
  BY <1>1 DEF BrokenOK
<1>3. c = Max(I)
  BY <1>2 DEF SelectLastInSeq
<1>4. J \in SUBSET Nat /\ J # {}
  BY <1>1, <1>2
<1>5. PICK m \in J : \A j \in J : m <= j
  BY <1>4, LeastMember
<1>6. PICK x \in I : m = Len(fr) - x
  BY <1>5
<1>7. \A y \in I : x >= y
  <2>1. ASSUME NEW y \in I  PROVE x >= y
    <3>1. Len(fr) - x <= Len(fr) - y
      BY <1>5, <1>6
    <3>2. x \in Nat /\ y \in Nat
      BY <1>1
    <3>. QED  BY <1>1, <3>1, <3>2
  <2>. QED  BY <2>1
<1>8. Max(I) \in I /\ \A y \in I : Max(I) >= y
  BY <1>6, <1>7 DEF Max
<1>. HIDE DEF c
<1>9. ASSUME NEW j \in DOMAIN fr, j > c  PROVE fr[j].f # "svc"
  <2>1. fr[j].f = "svc" => c >= j
    BY <1>1, <1>3, <1>8
  <2>2. j \in Nat /\ c \in Nat
    BY <1>1, <1>3, <1>8
  <2>. QED  BY <1>9, <2>1, <2>2
<1>10. c \in DOMAIN fr /\ fr[c].f = "svc"
  BY <1>1, <1>3, <1>8
<1>. QED  BY <1>9, <1>10 DEF Innermost, c

-----------------------------------------------------------------------------
(* The exceptions of a task, and those its extended SVCs keep.             *)

\* e is to be executed, or is kept by an extended SVC.
LEMMA CarriedMember ==
  ASSUME NEW fr, NEW ex
  PROVE  \A e : e \in Carried(fr, ex) <=>
            e \in ex \/ \E i \in DOMAIN fr : fr[i].f = "svc" /\ e \in fr[i].save_exectex
BY DEF Carried

\* What follows in TexOK from the handlers and the mark of the task.
LEMMA TexFrames ==
  ASSUME NEW fr, NEW hdr, NEW fg, NEW mask, NEW pend, NEW ex, NEW flg, NEW req,
         TexOK(fr, hdr, fg, mask, pend, ex, flg, req), NEW r, NEW ex2, NEW flg2,
         Carried(r, ex2) = Carried(fr, ex), flg2 \cap Tex = flg \cap Tex,
         \A i \in DOMAIN r : r[i].f \in {"ssfn", "brk"} => r[i].save_texflg \cap Tex = flg \cap Tex
  PROVE  TexOK(r, hdr, fg, mask, pend, ex2, flg2, req)
<1>1. "TEX0" \in flg2 <=> "TEX0" \in flg
  BY DEF Tex
<1>. QED  BY <1>1 DEF TexOK

\* An extended SVC is entered, which keeps the exceptions till its end.
LEMMA SvcPushedTex ==
  ASSUME NEW fr \in Seq(Frames), NEW ex, NEW f \in SvcFrames, f.save_exectex = ex,
         NEW ex2 \in SUBSET ex, NEW r, r = Append(fr, f)
  PROVE  Carried(r, ex2) = Carried(fr, ex)
<1>. DEFINE n == Len(fr)
            m == n + 1
<1>1. f \in Frames /\ f.f = "svc"
  BY DEF Frames, SvcFrames
<1>2. /\ n \in Nat /\ DOMAIN fr = 1..n /\ DOMAIN r = 1..m /\ r[m] = f
      /\ \A i \in 1..n : r[i] = fr[i]
  BY <1>1, Entered
<1>3. m \in 1..m /\ (\A i \in 1..m : i = m \/ i \in 1..n) /\ \A i \in 1..n : i \in 1..m
  BY <1>2
<1>. HIDE DEF m, n
<1>4. ASSUME NEW e  PROVE e \in Carried(r, ex2) <=> e \in Carried(fr, ex)
  <2>1. (\E i \in DOMAIN r : r[i].f = "svc" /\ e \in r[i].save_exectex) <=>
        e \in ex \/ \E i \in DOMAIN fr : fr[i].f = "svc" /\ e \in fr[i].save_exectex
    BY <1>1, <1>2, <1>3
  <2>. QED  BY <2>1, CarriedMember, ZenonT(60)
<1>. QED  BY <1>4

\* It ends, and its exceptions are to be executed.
LEMMA SvcPoppedTex ==
  ASSUME NEW fr \in Seq(Frames), NEW ex, fr # <<>>, Last(fr).f = "svc", NEW r, r = Front(fr)
  PROVE  Carried(r, ex \cup Last(fr).save_exectex) = Carried(fr, ex)
<1>. DEFINE n == Len(fr)
            d == n - 1
            ex2 == ex \cup Last(fr).save_exectex
<1>1. /\ n \in Nat /\ DOMAIN fr = 1..n /\ DOMAIN r = 1..d /\ Last(fr) = fr[n]
      /\ \A i \in 1..d : r[i] = fr[i]
  BY Left
<1>2. n \in 1..n /\ (\A i \in 1..n : i = n \/ i \in 1..d) /\ \A i \in 1..d : i \in 1..n
  <2>1. n \in Nat /\ 1 <= n
    BY Left
  <2>. QED  BY <2>1
<1>. HIDE DEF d, n
<1>4. ASSUME NEW e  PROVE e \in Carried(r, ex2) <=> e \in Carried(fr, ex)
  <2>1. (\E i \in DOMAIN fr : fr[i].f = "svc" /\ e \in fr[i].save_exectex) <=>
        e \in fr[n].save_exectex \/ \E i \in DOMAIN r : r[i].f = "svc" /\ e \in r[i].save_exectex
    BY <1>1, <1>2
  <2>2. e \in ex2 <=> e \in ex \/ e \in fr[n].save_exectex
    BY <1>1
  <2>. HIDE DEF ex2
  <2>. QED  BY <2>1, <2>2, CarriedMember
<1>. QED  BY <1>4

\* Other handlers keep no exceptions, but the flags of the task.
LEMMA OtherTex ==
  ASSUME NEW fr \in Seq(Frames), NEW f \in Frames, f.f # "svc", NEW ex, NEW r, r = Append(fr, f)
  PROVE  Carried(r, ex) = Carried(fr, ex)
<1>. DEFINE n == Len(fr)
            m == n + 1
<1>2. /\ n \in Nat /\ DOMAIN fr = 1..n /\ DOMAIN r = 1..m /\ r[m] = f
      /\ \A i \in 1..n : r[i] = fr[i]
  BY Entered
<1>3. (\A i \in 1..m : i = m \/ i \in 1..n) /\ \A i \in 1..n : i \in 1..m
  BY <1>2
<1>. HIDE DEF m, n
<1>4. ASSUME NEW e  PROVE e \in Carried(r, ex) <=> e \in Carried(fr, ex)
  <2>1. (\E i \in DOMAIN r : r[i].f = "svc" /\ e \in r[i].save_exectex) <=>
        \E i \in DOMAIN fr : fr[i].f = "svc" /\ e \in fr[i].save_exectex
    BY <1>2, <1>3
  <2>. QED  BY <2>1, CarriedMember
<1>. QED  BY <1>4

\* Their return gives the task no exceptions back.
LEMMA OtherPoppedTex ==
  ASSUME NEW fr \in Seq(Frames), fr # <<>>, Last(fr).f # "svc", NEW ex, NEW r, r = Front(fr)
  PROVE  Carried(r, ex) = Carried(fr, ex)
<1>. DEFINE n == Len(fr)
            d == n - 1
<1>1. /\ n \in Nat /\ DOMAIN fr = 1..n /\ DOMAIN r = 1..d /\ Last(fr) = fr[n]
      /\ \A i \in 1..d : r[i] = fr[i]
  BY Left
<1>2. n \in 1..n /\ (\A i \in 1..n : i = n \/ i \in 1..d) /\ \A i \in 1..d : i \in 1..n
  <2>1. n \in Nat /\ 1 <= n
    BY Left
  <2>. QED  BY <2>1
<1>. HIDE DEF d, n
<1>4. ASSUME NEW e  PROVE e \in Carried(r, ex) <=> e \in Carried(fr, ex)
  <2>1. (\E i \in DOMAIN fr : fr[i].f = "svc" /\ e \in fr[i].save_exectex) <=>
        \E i \in DOMAIN r : r[i].f = "svc" /\ e \in r[i].save_exectex
    BY <1>1, <1>2
  <2>. QED  BY <2>1, CarriedMember
<1>. QED  BY <1>4

\* An extended SVC that is counted as broken is still one.
Counted(fr, i, r) ==
    /\ fr \in Seq(Frames) /\ r \in Seq(Frames) /\ DOMAIN r = DOMAIN fr /\ Len(r) = Len(fr)
    /\ i \in DOMAIN fr /\ fr[i].f = "svc" /\ r[i].f = "svc"
    /\ \A k \in DOMAIN fr : k # i => r[k] = fr[k]

\* Counting a break changes nothing else.
Breaking(fr, i, e, r) ==
    /\ fr \in Seq(Frames) /\ Innermost(fr, i)
    /\ e = [fr[i] EXCEPT !.breaks = fr[i].breaks + 1] /\ r = [fr EXCEPT ![i] = e]

\* The exceptions kept are the same, and all other handlers.
LEMMA BrokenTex ==
  ASSUME NEW fr, NEW i, NEW e, NEW r, Breaking(fr, i, e, r), NEW ex
  PROVE  Carried(r, ex) = Carried(fr, ex) /\ Counted(fr, i, r)
<1>. /\ fr \in Seq(Frames) /\ Innermost(fr, i)
     /\ e = [fr[i] EXCEPT !.breaks = fr[i].breaks + 1] /\ r = [fr EXCEPT ![i] = e]
  BY DEF Breaking
<1>1. i \in DOMAIN fr /\ fr[i].f = "svc" /\ fr[i] \in SvcFrames
  <2>1. i \in DOMAIN fr /\ fr[i].f = "svc"
    BY DEF Innermost
  <2>2. fr[i] \in Frames
    BY <2>1, LenProperties, ElementOfSeq
  <2>. QED  BY <2>1, <2>2, FrameParts
<1>2. e \in SvcFrames /\ e.save_exectex = fr[i].save_exectex /\ e.f = "svc"
  <2>. DEFINE g == fr[i]
  <2>1. /\ g \in [f : {"svc"}, ssid : Ssids, breaks : Nat, save_execssid : Execs,
                    save_waitmask : BOOLEAN, save_exectex : SUBSET Codes]
    BY <1>1 DEF SvcFrames
  <2>2. g.breaks \in Nat
    BY <2>1
  <2>3. g.breaks + 1 \in Nat
    BY <2>2
  <2>. DEFINE b == g.breaks + 1
  <2>4. e = [g EXCEPT !.breaks = b]
    OBVIOUS
  <2>. HIDE DEF b
  <2>5. b \in Nat
    BY <2>3 DEF b
  <2>. HIDE DEF g
  <2>. QED  BY <2>1, <2>4, <2>5 DEF SvcFrames, g
<1>4. e \in Frames /\ i \in 1..Len(fr)
  BY <1>1, <1>2, LenProperties DEF Frames
<1>5. r \in Seq(Frames) /\ Len(r) = Len(fr) /\ \A k \in 1..Len(fr) : r[k] = IF k = i THEN e ELSE fr[k]
  BY <1>4, Replaced
<1>6. DOMAIN r = DOMAIN fr /\ \A k \in DOMAIN fr : r[k] = IF k = i THEN e ELSE fr[k]
  BY <1>5, LenProperties
<1>7. ASSUME NEW c  PROVE c \in Carried(r, ex) <=> c \in Carried(fr, ex)
  <2>1. (\E k \in DOMAIN fr : fr[k].f = "svc" /\ c \in fr[k].save_exectex) <=>
        \E k \in DOMAIN r : r[k].f = "svc" /\ c \in r[k].save_exectex
    <3>1. \A k \in DOMAIN fr : r[k].f = fr[k].f /\ (r[k].f = "svc" => r[k].save_exectex = fr[k].save_exectex)
      BY <1>1, <1>2, <1>6
    <3>. QED  BY <1>6, <3>1
  <2>2. c \in Carried(r, ex) <=>
            c \in ex \/ \E k \in DOMAIN r : r[k].f = "svc" /\ c \in r[k].save_exectex
    BY CarriedMember
  <2>3. c \in Carried(fr, ex) <=>
            c \in ex \/ \E k \in DOMAIN fr : fr[k].f = "svc" /\ c \in fr[k].save_exectex
    BY CarriedMember
  <2>. QED  BY <2>1, <2>2, <2>3
<1>8. /\ r \in Seq(Frames) /\ Len(r) = Len(fr) /\ r[i].f = "svc"
      /\ \A k \in DOMAIN fr : k # i => r[k] = fr[k]
  BY <1>1, <1>2, <1>5, <1>6
<1>. QED  BY <1>1, <1>6, <1>7, <1>8 DEF Counted

\* The handler is started for exception 0 before any other.
LEMMA LowestCode ==
  ASSUME NEW S \in SUBSET Codes, 0 \in S  PROVE lowest(S) = 0
<1>1. \A x \in S : x \in Nat
  BY SubsystemAssumption
<1>2. \E x \in S : \A y \in S : x <= y
  BY <1>1
<1>3. lowest(S) \in S /\ \A y \in S : lowest(S) <= y
  BY <1>2 DEF lowest
<1>4. lowest(S) \in Nat /\ lowest(S) <= 0
  BY <1>1, <1>3
<1>. QED  BY <1>4

\* Outside of handlers nothing is kept.
LEMMA CarriedOutside ==
  ASSUME NEW fr, fr = <<>>, NEW ex  PROVE Carried(fr, ex) = ex
<1>1. \A e : e \in Carried(fr, ex) <=> e \in ex
  BY CarriedMember
<1>. QED  BY <1>1

\* tk_ras_tex with an exception that is heard.
Heard(pend2, ex, flg, req, ex2, req2) ==
    IF pend2 # {} /\ (0 \in pend2 \/ "TEX1" \notin flg)
    THEN ex2 = ex \cup pend2 /\ req2 = TRUE ELSE ex2 = ex /\ req2 = req

\* The exceptions that are heard are pending, and to be executed if the handler
\* may start.
LEMMA RaisedTex ==
  ASSUME NEW fr, NEW hdr, NEW fg, NEW mask, NEW pend, NEW ex, NEW flg, NEW req,
         TexOK(fr, hdr, fg, mask, pend, ex, flg, req), hdr, "TEX0" \notin flg,
         NEW pend2, pend2 \subseteq mask, NEW ex2, NEW req2, Heard(pend2, ex, flg, req, ex2, req2)
  PROVE  TexOK(fr, hdr, fg, mask, pend2, ex2, flg, req2)
<1>1. \A e \in ex2 : e \in Carried(fr, ex2)
  BY CarriedMember
<1>2. flg \cap Tex = {} => "TEX1" \notin flg
  BY DEF Tex
<1>3. 0 \in pend2 => req2 /\ 0 \in Carried(fr, ex2)
  BY <1>1 DEF Heard
<1>4. pend2 # {} /\ flg \cap Tex = {} => req2 /\ Carried(fr, ex2) # {}
  BY <1>1, <1>2 DEF Heard
<1>. QED  BY <1>3, <1>4 DEF TexOK, Heard

\* setup_texhdr takes up the lowest exception.
LEMMA StartedTex ==
  ASSUME NEW hdr, NEW fg, NEW mask, NEW pend, NEW ex \in SUBSET Codes, ex # {}, NEW flg, NEW req,
         TexOK(<<>>, hdr, fg, mask, pend, ex, flg, req),
         NEW c, c = lowest(ex), NEW fg2, NEW flg2, flg2 = flg \cup {IF c = 0 THEN "TEX0" ELSE "TEX1"}
  PROVE  TexOK(<<>>, hdr, fg2, mask, pend \ {c}, {}, flg2, FALSE)
<1>1. Carried(<<>>, ex) = ex /\ Carried(<<>>, {}) = {}
  BY CarriedOutside
<1>2. flg2 \cap Tex # {}
  BY DEF Tex
<1>3. ~(0 \in pend \ {c} /\ "TEX0" \notin flg2)
  <2>1. SUFFICES ASSUME 0 \in pend, c # 0, "TEX0" \notin flg2  PROVE FALSE
    OBVIOUS
  <2>2. "TEX0" \notin flg
    BY <2>1
  <2>3. 0 \in ex
    BY <1>1, <2>1, <2>2 DEF TexOK
  <2>. QED  BY <2>1, <2>3, LowestCode
<1>4. pend \subseteq mask /\ (~hdr => pend = {})
  BY DEF TexOK
<1>. QED  BY <1>1, <1>2, <1>3, <1>4 DEF TexOK

\* There may be nothing left to take up.
LEMMA NothingToStart ==
  ASSUME NEW hdr, NEW fg, NEW mask, NEW pend, NEW flg, NEW req,
         TexOK(<<>>, hdr, fg, mask, pend, {}, flg, req), NEW fg2
  PROVE  TexOK(<<>>, hdr, fg2, mask, pend, {}, flg, FALSE)
<1>1. Carried(<<>>, {}) = {}
  BY CarriedOutside
<1>. QED  BY <1>1 DEF TexOK

\* tk_end_tex: the exceptions that came meanwhile are to be executed, or the
\* handler goes on with one of them.
LEMMA EndedTex ==
  ASSUME NEW hdr, NEW fg, NEW mask, NEW pend, NEW ex, NEW flg, NEW req, flg \cap Tex = {"TEX1"},
         TexOK(<<>>, hdr, fg, mask, pend, ex, flg, req), NEW req2, req \/ pend \ {0} # {} => req2
  PROVE  /\ TexOK(<<>>, hdr, fg, mask, pend, ex \cup pend, flg \ {"TEX1"}, req2)
         /\ \A c : TexOK(<<>>, hdr, fg, mask, pend \ {c}, ex, flg, req)
<1>1. Carried(<<>>, ex) = ex /\ Carried(<<>>, ex \cup pend) = ex \cup pend
  BY CarriedOutside
<1>2. "TEX0" \notin flg /\ (flg \ {"TEX1"}) \cap Tex = {}
  BY DEF Tex
<1>3. pend \subseteq mask /\ (~hdr => pend = {} /\ ex \subseteq fg) /\ (0 \in pend => req /\ 0 \in ex)
  BY <1>1, <1>2 DEF TexOK
<1>4. pend # {} => req2
  BY <1>3
<1>5. TexOK(<<>>, hdr, fg, mask, pend, ex \cup pend, flg \ {"TEX1"}, req2)
  <2>1. 0 \in pend => 0 \in ex \cup pend
    OBVIOUS
  <2>2. pend # {} => ex \cup pend # {}
    OBVIOUS
  <2>3. ~hdr => pend = {} /\ ex \cup pend \subseteq fg
    BY <1>3
  <2>. DEFINE x == ex \cup pend
              y == flg \ {"TEX1"}
  <2>4. Carried(<<>>, x) = x /\ pend \subseteq mask
    BY <1>1, <1>3
  <2>. HIDE DEF x, y
  <2>5. 0 \in pend /\ "TEX0" \notin y => req2 /\ 0 \in Carried(<<>>, x)
    BY <1>4, <2>1, <2>4 DEF x
  <2>6. pend # {} /\ y \cap Tex = {} => req2 /\ Carried(<<>>, x) # {}
    BY <1>4, <2>2, <2>4 DEF x
  <2>7. ~hdr => pend = {} /\ Carried(<<>>, x) \subseteq fg
    BY <2>3, <2>4 DEF x
  <2>8. TexOK(<<>>, hdr, fg, mask, pend, x, y, req2)
    BY <2>4, <2>5, <2>6, <2>7 DEF TexOK
  <2>. QED  BY <2>8 DEF x, y
<1>6. ASSUME NEW c  PROVE TexOK(<<>>, hdr, fg, mask, pend \ {c}, ex, flg, req)
  BY <1>1, <1>3 DEF TexOK
<1>. QED  BY <1>5, <1>6

\* Nothing is pending, and what extended SVCs have saved is forgotten.
LEMMA ForgottenTex ==
  ASSUME NEW t \in SvcTasks, SvcTypes, NEW hdr, NEW mask, NEW flg, NEW req,
         \A i \in DOMAIN frames[t] : frames[t][i].f \in {"ssfn", "brk"} =>
            frames[t][i].save_texflg \cap Tex = flg \cap Tex
  PROVE  /\ TexOK(frames[t], hdr, saved_exectex(t), mask, {}, {}, flg, req)
         /\ saved_exectex(t) \in SUBSET Codes
<1>1. Carried(frames[t], {}) = saved_exectex(t)
  BY DEF Carried, saved_exectex
<1>2. frames[t] \in Seq(Frames)
  BY DEF SvcTypes
<1>3. ASSUME NEW i \in DOMAIN frames[t], frames[t][i].f = "svc"  PROVE frames[t][i].save_exectex \subseteq Codes
  <2>1. frames[t][i] \in Frames
    BY <1>2
  <2>2. frames[t][i] \in SvcFrames
    BY <1>3, <2>1, FrameParts
  <2>. QED  BY <2>2 DEF SvcFrames
<1>4. saved_exectex(t) \in SUBSET Codes
  BY <1>3 DEF saved_exectex
<1>. QED  BY <1>1, <1>4 DEF TexOK

\* Nothing is pending and nothing to be executed.
LEMMA NoTex ==
  ASSUME NEW hdr, NEW fg, NEW mask, NEW flg, NEW req
  PROVE  TexOK(<<>>, hdr, fg, mask, {}, {}, flg, req)
<1>1. Carried(<<>>, {}) = {}
  BY CarriedOutside
<1>. QED  BY <1>1 DEF TexOK

\* Fewer exceptions are enabled, and fewer pending.
LEMMA MaskedTex ==
  ASSUME NEW fr, NEW fg, NEW mask, NEW pend, NEW ex, NEW flg, NEW req,
         TexOK(fr, TRUE, fg, mask, pend, ex, flg, req), NEW mask2
  PROVE  TexOK(fr, TRUE, fg, mask2, pend \cap mask2, ex, flg, req)
BY DEF TexOK

-----------------------------------------------------------------------------
(* The locks.                                                              *)

LockPlaces == {"enter_lock", "exit_lock", "ras_lock"}

\* The lock that the LockSVC at place p of t is about.
LockOf(t, p) == IF p.at = "ras_lock" THEN p.of ELSE t

\* The locks and queues, while those of S are being given back.
LocksBut(sl, wq, st, p, S) ==
    /\ \A l \in SvcTasks : wq[l] # NULL <=> l \in S \/ \E t \in SvcTasks : Contains(sl[t], l)
    /\ \A t \in SvcTasks, l \in S : ~Contains(sl[t], l)
    /\ \A t, u, l \in SvcTasks : Contains(sl[t], l) /\ Contains(sl[u], l) => t = u
    /\ \A l \in SvcTasks : wq[l] # NULL =>
          /\ IsInjective(wq[l])
          /\ \A t \in ToSet(wq[l]) : /\ st[t] = "READY" /\ ~Contains(sl[t], l)
                                     /\ p[t].at \in LockPlaces /\ l = LockOf(t, p[t])

\* Nothing being given back, this is what the invariant says.
LEMMA LocksWhole ==
  ASSUME NEW sl, NEW wq, NEW st, NEW p
  PROVE  LocksInv(sl, wq, st, p) <=> LocksBut(sl, wq, st, p, {})
BY DEF LocksInv, LocksBut, LockPlaces, LockOf

\* Lists of one and of two locks.
Shorts(a, b) ==
    /\ \A x : ~Contains(None, x)
    /\ \A x : Contains(One(a), x) <=> x = a
    /\ \A x : Contains(Two(a, b), x) <=> x = a \/ x = b
    /\ Head(One(a)) = a /\ Tail(One(a)) = None /\ Head(Two(a, b)) = a /\ Tail(Two(a, b)) = One(b)
    /\ One(a) \o None = One(a) /\ One(a) \o One(b) = Two(a, b)
    /\ None \in Seq(SvcTasks) /\ One(a) \in Seq(SvcTasks) /\ Two(a, b) \in Seq(SvcTasks)
    /\ One(a) # None /\ Two(a, b) # None

\* So they are.
LEMMA ShortLists ==
  ASSUME NEW a \in SvcTasks, NEW b \in SvcTasks  PROVE Shorts(a, b)
<1>1. \A x : ~Contains(None, x)
  BY DEF Contains, None
<1>2. \A x : Contains(One(a), x) <=> x = a
  BY DEF Contains, One
<1>3. \A x : Contains(Two(a, b), x) <=> x = a \/ x = b
  <2>. DEFINE q == Two(a, b)
  <2>1. Len(q) = 2 /\ q[1] = a /\ q[2] = b
    BY DEF Two
  <2>. HIDE DEF q
  <2>2. 1..Len(q) = {1, 2}
    BY <2>1
  <2>3. \A x : Contains(q, x) <=> x = a \/ x = b
    BY <2>1, <2>2 DEF Contains
  <2>. QED  BY <2>3 DEF q
<1>4. Head(One(a)) = a /\ Tail(One(a)) = None /\ Head(Two(a, b)) = a /\ Tail(Two(a, b)) = One(b)
  BY DEF One, Two, None
<1>6. None \in Seq(SvcTasks) /\ One(a) \in Seq(SvcTasks) /\ Two(a, b) \in Seq(SvcTasks)
  BY DEF One, Two, None
<1>5. One(a) \o None = One(a) /\ One(a) \o One(b) = Two(a, b)
  <2>1. One(a) \o None = One(a)
    BY <1>6, ConcatEmptySeq DEF None
  <2>2. Append(One(a), b) = One(a) \o One(b)
    BY <1>6, AppendIsConcat DEF One
  <2>3. Append(One(a), b) = Two(a, b)
    <3>. DEFINE q == Append(One(a), b)
                r == Two(a, b)
    <3>1. q \in Seq(SvcTasks) /\ Len(q) = 2 /\ q[1] = a /\ q[2] = b
      <4>1. Len(One(a)) = 1 /\ One(a)[1] = a
        BY DEF One
      <4>2. /\ q \in Seq(SvcTasks) /\ Len(q) = Len(One(a)) + 1
            /\ \A i \in 1..Len(One(a)) : q[i] = One(a)[i]
            /\ q[Len(One(a)) + 1] = b
        BY <1>6, AppendProperties
      <4>. HIDE DEF q
      <4>. QED  BY <4>1, <4>2
    <3>2. r \in Seq(SvcTasks) /\ Len(r) = 2 /\ r[1] = a /\ r[2] = b
      BY <1>6 DEF Two
    <3>. HIDE DEF q, r
    <3>3. \A i \in 1..Len(q) : q[i] = r[i]
      BY <3>1, <3>2
    <3>4. q = r
      BY <3>1, <3>2, <3>3, SeqEqual
    <3>. QED  BY <3>4 DEF q, r
  <2>. QED  BY <2>1, <2>2, <2>3
<1>7. One(a) # None /\ Two(a, b) # None
  BY DEF One, Two, None
<1>. QED  BY <1>1, <1>2, <1>3, <1>4, <1>5, <1>6, <1>7, Zenon DEF Shorts

\* The steps of a call.
LEMMA StepParts ==
  ASSUME NEW p \in Steps
  PROVE  /\ p.at \in {"run", "self_break", "exit_lock", "exit", "enter_lock", "enter_check", "enter",
                      "ras_lock", "ras", "ras_break", "ras_end"}
         /\ p.at \in {"run", "self_break", "exit_lock", "exit"} => p = [at |-> p.at]
         /\ p.at \in {"enter_lock", "enter_check", "enter"} =>
              p.ssid \in Ssids /\ p = [at |-> p.at, ssid |-> p.ssid]
         /\ p.at \in {"ras_lock", "ras"} =>
              p.of \in SvcTasks /\ p.code \in Codes /\ p = [at |-> p.at, of |-> p.of, code |-> p.code]
         /\ p.at = "ras_break" => p.of \in SvcTasks
         /\ p.at = "ras_end" => p.of \in SvcTasks /\ p.next \in {Run, SelfStep}
BY DEF Steps

\* A task at a LockSVC may take the lock; the locks it has then.
Got(t, l, locks) == /\ locks # None /\ Head(locks) = l
                    /\ (locks = One(t) /\ l = t) \/ (l # t /\ OnTop(t, l, locks))
Takes(t, p, fr, locks, l) ==
    p.at \in LockPlaces /\ l = LockOf(t, p) /\ HoldsOK(t, p, fr, locks) /\ ~Contains(locks, l)
Taken(t, p, fr, locks, l, taken) ==
    /\ l \in SvcTasks /\ taken \in Seq(SvcTasks) /\ HoldsOK(t, p, fr, taken) /\ Got(t, l, taken)
    /\ \A x : Contains(taken, x) <=> x = l \/ Contains(locks, x)

\* It has at most its own, and not that one.
LEMMA LockTaken ==
  ASSUME NEW t \in SvcTasks, NEW p \in Steps, NEW l, NEW fr, NEW locks, Takes(t, p, fr, locks, l),
         NEW taken, taken = One(l) \o locks
  PROVE  Taken(t, p, fr, locks, l, taken)
<1>0. p.at \in LockPlaces /\ l = LockOf(t, p) /\ HoldsOK(t, p, fr, locks) /\ ~Contains(locks, l)
  BY DEF Takes
<1>. USE <1>0
<1>1. l \in SvcTasks /\ p.at \notin {"run", "ras", "ras_break", "ras_end", "enter_check", "enter", "exit"}
  BY StepParts DEF LockPlaces, LockOf
<1>2. Shorts(l, t) /\ Shorts(t, t)
  BY <1>1, ShortLists
<1>4. \A u : ~Breaks(p, fr, u)
  BY <1>1 DEF Breaks
<1>7. l # t => p.at = "ras_lock" /\ p.of = l
  BY DEF LockOf
<1>3. locks = None \/ (locks = One(t) /\ l # t)
  <2>1. ASSUME NEW u \in SvcTasks \ {t}, OnTop(t, u, locks), Raises(p, fr, u)
        PROVE  FALSE
    <3>1. l = u
      BY <1>1, <1>4, <2>1 DEF Raises, LockOf, LockPlaces
    <3>2. Contains(locks, l)
      BY <1>2, <2>1, <3>1, Zenon DEF Shorts, OnTop
    <3>. QED  BY <3>2
  <2>2. Own(t, locks)
    BY <2>1 DEF HoldsOK
  <2>. QED  BY <1>2, <2>2, Zenon DEF Shorts, Own
<1>5. CASE locks = None
  <2>1. taken = One(l)
    BY <1>2, <1>5, Zenon DEF Shorts
  <2>2. HoldsOK(t, p, fr, One(l))
    <3>1. Own(t, One(l)) \/ (l \in SvcTasks \ {t} /\ OnTop(t, l, One(l)) /\ Raises(p, fr, l))
      BY <1>1, <1>7 DEF Own, OnTop, Raises
    <3>. QED  BY <1>1, <1>4, <3>1 DEF HoldsOK
  <2>3. \A x : Contains(taken, x) <=> x = l \/ Contains(locks, x)
    BY <1>2, <1>5, <2>1, Zenon DEF Shorts
  <2>4. taken \in Seq(SvcTasks) /\ taken # None /\ Head(taken) = l
    BY <1>2, <2>1, Zenon DEF Shorts
  <2>. QED  BY <1>1, <2>1, <2>2, <2>3, <2>4, Zenon DEF OnTop, Taken, Got
<1>6. CASE locks = One(t) /\ l # t
  <2>1. taken = Two(l, t)
    BY <1>2, <1>6, Zenon DEF Shorts
  <2>2. HoldsOK(t, p, fr, Two(l, t))
    <3>1. l \in SvcTasks \ {t} /\ OnTop(t, l, Two(l, t)) /\ Raises(p, fr, l)
      BY <1>1, <1>6, <1>7 DEF OnTop, Raises
    <3>. QED  BY <1>1, <1>4, <3>1 DEF HoldsOK
  <2>3. \A x : Contains(taken, x) <=> x = l \/ Contains(locks, x)
    BY <1>2, <1>6, <2>1, Zenon DEF Shorts
  <2>4. taken \in Seq(SvcTasks) /\ taken # None /\ Head(taken) = l
    BY <1>2, <2>1, Zenon DEF Shorts
  <2>. QED  BY <1>1, <1>6, <2>1, <2>2, <2>3, <2>4, Zenon DEF OnTop, Taken, Got
<1>. QED  BY <1>3, <1>5, <1>6, Zenon

\* If it has that one, it is the latest.
LEMMA LockLatest ==
  ASSUME NEW t \in SvcTasks, NEW p \in Steps, p.at \in LockPlaces, NEW l, l = LockOf(t, p),
         NEW fr, NEW locks, HoldsOK(t, p, fr, locks), Contains(locks, l)
  PROVE  Got(t, l, locks)
<1>1. l \in SvcTasks /\ p.at \notin {"run", "ras", "ras_break", "ras_end", "enter_check", "enter", "exit"}
  BY StepParts DEF LockPlaces, LockOf
<1>2. Shorts(l, t) /\ Shorts(t, t)
  BY <1>1, ShortLists
<1>3. CASE Own(t, locks)
  <2>1. locks = One(t) /\ l = t
    BY <1>2, <1>3, Zenon DEF Shorts, Own
  <2>. QED  BY <1>2, <2>1, Zenon DEF Shorts, Got
<1>4. ASSUME NEW u \in SvcTasks \ {t}, OnTop(t, u, locks), Raises(p, fr, u)
      PROVE  locks # None /\ Head(locks) = l /\ l # t /\ OnTop(t, l, locks)
  <2>1. l = u
    BY <1>1, <1>4 DEF Raises, Breaks, LockOf, LockPlaces
  <2>2. locks # None /\ Head(locks) = l
    BY <1>2, <1>4, <2>1, Zenon DEF Shorts, OnTop
  <2>. QED  BY <1>4, <2>1, <2>2
<1>. QED  BY <1>3, <1>4 DEF HoldsOK, Got

\* t waits for a lock.
Queued(wq, t) == \E l \in SvcTasks : wq[l] # NULL /\ t \in ToSet(wq[l])

\* It does while it does not run.
LEMMA KlockwaitQueued ==
  ASSUME wtskq \in [SvcTasks -> Seq(SvcTasks) \cup {NULL}], NEW t
  PROVE  klockwait(t) <=> Queued(wtskq, t)
<1>1. ASSUME NEW l \in SvcTasks, wtskq[l] # NULL
      PROVE  Contains(wtskq[l], t) <=> t \in ToSet(wtskq[l])
  <2>1. wtskq[l] \in Seq(SvcTasks)
    BY <1>1
  <2>. QED  BY <2>1, MemberPosition DEF Contains
<1>. QED  BY <1>1 DEF klockwait, Queued

\* A lock of S is passed on, and has been.
Passing(sl, wq, st, p, fr, S, l) ==
    /\ LockTypes(sl, wq) /\ p \in [SvcTasks -> Steps] /\ l \in SvcTasks /\ l \in S
    /\ LocksBut(sl, wq, st, p, S) /\ HoldsAll(sl, p, fr)
Passed(r, sl, wq, st, p, fr, S, l) ==
    /\ LockTypes(r.sl, r.wq) /\ LocksBut(r.sl, r.wq, st, p, S \ {l}) /\ HoldsAll(r.sl, p, fr)
    /\ \A t \in SvcTasks : ~Queued(wq, t) => r.sl[t] = sl[t] /\ ~Queued(r.wq, t)

\* Everybody's place remains true.
LEMMA PassedOn ==
  ASSUME NEW sl, NEW wq, NEW st, NEW p, NEW fr, NEW S, NEW l, Passing(sl, wq, st, p, fr, S, l),
         NEW r, r = pass_on(sl, wq, l)
  PROVE  Passed(r, sl, wq, st, p, fr, S, l)
<1>0. /\ LockTypes(sl, wq) /\ p \in [SvcTasks -> Steps] /\ l \in SvcTasks /\ l \in S
      /\ LocksBut(sl, wq, st, p, S) /\ HoldsAll(sl, p, fr)
  BY DEF Passing
<1>. USE <1>0
<1>1. sl \in [SvcTasks -> Seq(SvcTasks)] /\ wq \in [SvcTasks -> Seq(SvcTasks) \cup {NULL}]
  BY DEF LockTypes
<1>2. wq[l] # NULL /\ wq[l] \in Seq(SvcTasks) /\ IsInjective(wq[l])
  BY <1>1 DEF LocksBut
<1>3. \A t \in SvcTasks : ~Contains(sl[t], l)
  BY DEF LocksBut
<1>4. CASE wq[l] = <<>>
  <2>. DEFINE wq2 == [wq EXCEPT ![l] = NULL]
  <2>1. r.sl = sl /\ r.wq = wq2
    BY <1>4 DEF pass_on
  <2>2. /\ wq2 \in [SvcTasks -> Seq(SvcTasks) \cup {NULL}] /\ wq2[l] = NULL
        /\ \A k \in SvcTasks : k # l => wq2[k] = wq[k]
    BY <1>1
  <2>. HIDE DEF wq2
  <2>3. LocksBut(sl, wq2, st, p, S \ {l})
    BY <1>3, <2>2 DEF LocksBut
  <2>4. \A t \in SvcTasks : ~Queued(wq, t) => ~Queued(wq2, t)
    BY <2>2 DEF Queued
  <2>. QED  BY <1>1, <2>1, <2>2, <2>3, <2>4 DEF LockTypes, Passed
<1>5. CASE wq[l] # <<>>
  <2>. DEFINE w == Head(wq[l])
              taken == One(l) \o sl[w]
              sl2 == [sl EXCEPT ![w] = taken]
              wq2 == [wq EXCEPT ![l] = Tail(wq[l])]
  <2>1. r.sl = sl2 /\ r.wq = wq2
    BY <1>5 DEF pass_on, One
  <2>2. /\ Tail(wq[l]) \in Seq(SvcTasks) /\ ToSet(Tail(wq[l])) = ToSet(wq[l]) \ {w}
        /\ IsInjective(Tail(wq[l])) /\ w \in ToSet(wq[l]) /\ w \in SvcTasks
    BY <1>2, <1>5, QueRemoveNextProperties DEF QueRemoveNext
  <2>3. p[w].at \in LockPlaces /\ l = LockOf(w, p[w]) /\ ~Contains(sl[w], l)
    BY <1>2, <2>2 DEF LocksBut
  <2>. HIDE DEF w
  <2>4. /\ taken \in Seq(SvcTasks) /\ HoldsOK(w, p[w], fr[w], taken)
        /\ \A x : Contains(taken, x) <=> x = l \/ Contains(sl[w], x)
    <3>1. Takes(w, p[w], fr[w], sl[w], l) /\ p[w] \in Steps
      BY <2>2, <2>3 DEF HoldsAll, Takes
    <3>2. Taken(w, p[w], fr[w], sl[w], l, taken)
      BY <2>2, <3>1, LockTaken, Zenon
    <3>. QED  BY <3>2 DEF Taken
  <2>. HIDE DEF taken
  <2>5. Tail(wq[l]) # NULL
    BY <2>2, SubsystemAssumption
  <2>6. /\ sl2 \in [SvcTasks -> Seq(SvcTasks)] /\ sl2[w] = taken
        /\ \A t \in SvcTasks : t # w => sl2[t] = sl[t]
    BY <1>1, <2>2, <2>4
  <2>7. /\ wq2 \in [SvcTasks -> Seq(SvcTasks) \cup {NULL}] /\ wq2[l] = Tail(wq[l])
        /\ \A k \in SvcTasks : k # l => wq2[k] = wq[k]
    BY <1>1, <2>2
  <2>. HIDE DEF sl2, wq2
  <2>8. \A t \in SvcTasks : \A x : Contains(sl2[t], x) <=> Contains(sl[t], x) \/ (t = w /\ x = l)
    BY <2>4, <2>6
  <2>9. \A k \in SvcTasks : /\ wq2[k] # NULL <=> wq[k] # NULL
                            /\ wq2[k] # NULL => IsInjective(wq2[k]) /\ ToSet(wq2[k]) \subseteq ToSet(wq[k])
                                                 /\ (k = l => w \notin ToSet(wq2[k]))
    <3>1. ASSUME NEW k \in SvcTasks
          PROVE  /\ wq2[k] # NULL <=> wq[k] # NULL
                 /\ wq2[k] # NULL => IsInjective(wq2[k]) /\ ToSet(wq2[k]) \subseteq ToSet(wq[k])
                                                 /\ (k = l => w \notin ToSet(wq2[k]))
      <4>1. CASE k = l
        BY <1>2, <2>2, <2>5, <2>7, <4>1
      <4>2. CASE k # l
        BY <2>7, <4>2 DEF LocksBut
      <4>. QED  BY <4>1, <4>2
    <3>. QED  BY <3>1
  <2>10. LocksBut(sl2, wq2, st, p, S \ {l})
    <3>1. \A k \in SvcTasks : wq2[k] # NULL <=> k \in S \ {l} \/ \E t \in SvcTasks : Contains(sl2[t], k)
      BY <1>2, <2>2, <2>8, <2>9 DEF LocksBut
    <3>2. \A t \in SvcTasks, k \in S \ {l} : ~Contains(sl2[t], k)
      BY <2>8 DEF LocksBut
    <3>3. \A t, u, k \in SvcTasks : Contains(sl2[t], k) /\ Contains(sl2[u], k) => t = u
      <4>1. ASSUME NEW t \in SvcTasks, NEW u \in SvcTasks, NEW k \in SvcTasks,
                   Contains(sl2[t], k), Contains(sl2[u], k)
            PROVE  t = u
        <5>1. CASE k = l
          BY <1>3, <2>8, <4>1, <5>1
        <5>2. CASE k # l
          <6>1. Contains(sl[t], k) /\ Contains(sl[u], k)
            BY <2>8, <4>1, <5>2
          <6>. QED  BY <6>1 DEF LocksBut
        <5>. QED  BY <5>1, <5>2
      <4>. QED  BY <4>1
    <3>4. ASSUME NEW k \in SvcTasks, wq2[k] # NULL
          PROVE  /\ IsInjective(wq2[k])
                 /\ \A t \in ToSet(wq2[k]) : /\ st[t] = "READY" /\ ~Contains(sl2[t], k)
                                             /\ p[t].at \in LockPlaces /\ k = LockOf(t, p[t])
      <4>1. ASSUME NEW t \in ToSet(wq2[k])
            PROVE  /\ st[t] = "READY" /\ ~Contains(sl2[t], k)
                   /\ p[t].at \in LockPlaces /\ k = LockOf(t, p[t])
        <5>1. t \in ToSet(wq[k]) /\ wq[k] # NULL /\ wq[k] \in Seq(SvcTasks)
          BY <1>1, <2>9, <3>4
        <5>2. st[t] = "READY" /\ ~Contains(sl[t], k) /\ p[t].at \in LockPlaces /\ k = LockOf(t, p[t])
          BY <5>1 DEF LocksBut
        <5>3. t \in SvcTasks
          BY <5>1, MemberPosition
        <5>. QED  BY <2>8, <2>9, <3>4, <5>2, <5>3
      <4>. QED  BY <2>9, <3>4, <4>1
    <3>. QED  BY <3>1, <3>2, <3>3, <3>4 DEF LocksBut
  <2>11. HoldsAll(sl2, p, fr)
    BY <2>4, <2>6 DEF HoldsAll
  <2>12. ASSUME NEW t \in SvcTasks, ~Queued(wq, t)  PROVE sl2[t] = sl[t] /\ ~Queued(wq2, t)
    BY <1>2, <2>2, <2>6, <2>9, <2>12 DEF Queued
  <2>. QED  BY <2>1, <2>6, <2>7, <2>10, <2>11, <2>12 DEF LockTypes, Passed
<1>. QED  BY <1>4, <1>5

\* A task that waits for no lock goes on, with other handlers.
LEMMA MovesOn ==
  ASSUME NEW sl, NEW wq, NEW st, NEW p \in [SvcTasks -> Steps], NEW S, LocksBut(sl, wq, st, p, S),
         NEW t \in SvcTasks, ~Queued(wq, t), NEW x, NEW q, q = [p EXCEPT ![t] = x]
  PROVE  LocksBut(sl, wq, st, q, S)
<1>1. \A w : w # t => q[w] = p[w]
  OBVIOUS
<1>2. \A l \in SvcTasks : wq[l] # NULL => t \notin ToSet(wq[l])
  BY DEF Queued
<1>. QED  BY <1>1, <1>2 DEF LocksBut

\* What a task holds: some lock first, and then its own at most.
Held(t, locks) ==
    /\ Head(locks) \in SvcTasks /\ Tail(locks) \in Seq(SvcTasks) /\ Own(t, Tail(locks))
    /\ ~Contains(Tail(locks), Head(locks))
    /\ \A x : Contains(locks, x) <=> x = Head(locks) \/ Contains(Tail(locks), x)
    /\ (\E a \in SvcTasks : locks = One(a)) \/ \E u \in SvcTasks \ {t} : locks = Two(u, t)

\* So it is, whatever the place of the task.
LEMMA HeldLocks ==
  ASSUME NEW t \in SvcTasks, NEW p, NEW fr, NEW locks, HoldsOK(t, p, fr, locks), locks # None
  PROVE  Held(t, locks)
<1>1. ASSUME NEW a \in SvcTasks, locks = One(a)  PROVE Held(t, locks)
  <2>1. Shorts(a, t)
    BY ShortLists
  <2>. QED  BY <1>1, <2>1, Zenon DEF Shorts, Held, Own
<1>2. ASSUME NEW u \in SvcTasks \ {t}, locks = Two(u, t)  PROVE Held(t, locks)
  <2>1. Shorts(u, t) /\ Shorts(t, t) /\ u # t
    BY ShortLists
  <2>2. Head(locks) = u /\ Tail(locks) = One(t)
    BY <1>2, <2>1, Zenon DEF Shorts
  <2>3. ~Contains(Tail(locks), Head(locks))
    BY <2>1, <2>2, Zenon DEF Shorts
  <2>4. \A x : Contains(locks, x) <=> x = Head(locks) \/ Contains(Tail(locks), x)
    BY <1>2, <2>1, <2>2, Zenon DEF Shorts
  <2>5. Tail(locks) \in Seq(SvcTasks) /\ Own(t, Tail(locks)) /\ Head(locks) \in SvcTasks
    BY <2>1, <2>2, Zenon DEF Shorts, Own
  <2>. QED  BY <1>2, <2>3, <2>4, <2>5, Zenon DEF Held
<1>. QED  BY <1>1, <1>2 DEF HoldsOK, Own, OnTop

\* UnlockSVC, and t goes on.
LEMMA UnlockKeeps ==
  ASSUME NEW t \in SvcTasks, LockTypes(svclocked, wtskq), pc \in [SvcTasks -> Steps],
         LocksInv(svclocked, wtskq, tstat, pc), HoldsAll(svclocked, pc, frames), ~klockwait(t),
         UnlockSVC(t), NEW x, pc' = [pc EXCEPT ![t] = x], tstat' = tstat
  PROVE  /\ LockTypes(svclocked', wtskq') /\ LocksInv(svclocked', wtskq', tstat', pc')
         /\ svclocked'[t] = IF svclocked[t] = None THEN None ELSE Tail(svclocked[t])
         /\ \A w \in SvcTasks \ {t} : HoldsOK(w, pc[w], frames[w], svclocked'[w])
<1>1. ~Queued(wtskq, t) /\ LocksBut(svclocked, wtskq, tstat, pc, {})
  BY KlockwaitQueued, LocksWhole DEF LockTypes
<1>2. CASE svclocked[t] = None
  <2>1. svclocked' = svclocked /\ wtskq' = wtskq
    BY <1>2 DEF UnlockSVC, lockvars, None
  <2>2. LocksBut(svclocked, wtskq, tstat, pc', {})
    BY <1>1, MovesOn
  <2>. QED  BY <1>2, <2>1, <2>2, LocksWhole DEF HoldsAll
<1>3. CASE svclocked[t] # None
  <2>. DEFINE l == Head(svclocked[t])
              rest == Tail(svclocked[t])
              sl == [svclocked EXCEPT ![t] = rest]
              p == [pc EXCEPT ![t] = SelfStep]
              r == pass_on(sl, wtskq, l)
  <2>1. svclocked' = r.sl /\ wtskq' = r.wq
    BY <1>3 DEF UnlockSVC, None
  <2>2. Held(t, svclocked[t])
    BY <1>3, HeldLocks DEF HoldsAll
  <2>3. /\ l \in SvcTasks /\ rest \in Seq(SvcTasks) /\ Own(t, rest) /\ ~Contains(rest, l)
        /\ \A x1 : Contains(svclocked[t], x1) <=> x1 = l \/ Contains(rest, x1)
    BY <2>2, Zenon DEF Held
  <2>. HIDE DEF l, rest, r
  <2>4. sl \in [SvcTasks -> Seq(SvcTasks)] /\ sl[t] = rest /\ \A w \in SvcTasks : w # t => sl[w] = svclocked[w]
    BY <2>3 DEF LockTypes
  <2>5. p \in [SvcTasks -> Steps] /\ p[t] = SelfStep /\ \A w : w # t => p[w] = pc[w]
    <3>1. SelfStep \in Steps
      BY DEF SelfStep, Steps
    <3>. QED  BY <3>1
  <2>. HIDE DEF sl, p
  <2>6. LocksBut(sl, wtskq, tstat, pc, {l})
    <3>1. \A w \in SvcTasks : \A k : Contains(svclocked[w], k) <=> Contains(sl[w], k) \/ (w = t /\ k = l)
      BY <2>3, <2>4
    <3>2. \A w \in SvcTasks : ~Contains(sl[w], l)
      <4>1. Contains(svclocked[t], l)
        BY <2>3
      <4>2. ASSUME NEW w \in SvcTasks, w # t  PROVE ~Contains(sl[w], l)
        BY <1>1, <2>3, <2>4, <4>1, <4>2 DEF LocksBut
      <4>. QED  BY <2>3, <2>4, <4>2
    <3>3. \A k \in SvcTasks : wtskq[k] # NULL <=> k \in {l} \/ \E w \in SvcTasks : Contains(sl[w], k)
      BY <1>1, <3>1 DEF LocksBut
    <3>4. ASSUME NEW w \in SvcTasks, NEW u \in SvcTasks, NEW k \in SvcTasks,
                 Contains(sl[w], k), Contains(sl[u], k)
          PROVE  w = u
      BY <1>1, <3>1, <3>4 DEF LocksBut
    <3>5. \A k \in SvcTasks : wtskq[k] # NULL =>
             /\ IsInjective(wtskq[k])
             /\ \A w \in ToSet(wtskq[k]) : /\ tstat[w] = "READY" /\ ~Contains(sl[w], k)
                                           /\ pc[w].at \in LockPlaces /\ k = LockOf(w, pc[w])
      <4>1. ASSUME NEW k \in SvcTasks, wtskq[k] # NULL, NEW w \in ToSet(wtskq[k])
            PROVE  ~Contains(sl[w], k)
        <5>1. wtskq[k] \in Seq(SvcTasks)
          BY <4>1 DEF LockTypes
        <5>2. w \in SvcTasks
          BY <4>1, <5>1, MemberPosition
        <5>3. ~Contains(svclocked[w], k)
          BY <1>1, <4>1 DEF LocksBut
        <5>. QED  BY <3>1, <5>2, <5>3
      <4>. QED  BY <1>1, <4>1 DEF LocksBut
    <3>. QED  BY <3>2, <3>3, <3>4, <3>5 DEF LocksBut
  <2>7. LocksBut(sl, wtskq, tstat, p, {l})
    BY <1>1, <2>6, MovesOn DEF p
  <2>8. HoldsAll(sl, p, frames)
    <3>1. HoldsOK(t, SelfStep, frames[t], rest)
      <4>1. SelfStep.at = "self_break"
        BY DEF SelfStep
      <4>. QED  BY <2>3, <4>1 DEF HoldsOK, Breaks
    <3>. QED  BY <2>4, <2>5, <3>1 DEF HoldsAll
  <2>9. Passed(r, sl, wtskq, tstat, p, frames, {l}, l)
    <3>1. Passing(sl, wtskq, tstat, p, frames, {l}, l)
      BY <2>3, <2>4, <2>5, <2>7, <2>8 DEF LockTypes, Passing
    <3>. QED  BY <3>1, PassedOn DEF r
  <2>10. {l} \ {l} = {}
    OBVIOUS
  <2>11. pc' = [p EXCEPT ![t] = x]
    BY DEF p
  <2>12. LocksBut(r.sl, r.wq, tstat, pc', {})
    <3>1. LocksBut(r.sl, r.wq, tstat, p, {}) /\ ~Queued(r.wq, t)
      BY <1>1, <2>9, <2>10 DEF Passed
    <3>2. \A q : q = [p EXCEPT ![t] = x] => LocksBut(r.sl, r.wq, tstat, q, {})
      BY <2>5, <3>1, MovesOn, Zenon
    <3>. QED  BY <2>11, <3>2, Zenon
  <2>13. \A w \in SvcTasks \ {t} : HoldsOK(w, pc[w], frames[w], svclocked'[w])
    BY <2>1, <2>5, <2>9 DEF HoldsAll, Passed
  <2>. QED  BY <1>1, <1>3, <2>1, <2>4, <2>9, <2>12, <2>13, LocksWhole DEF rest, Passed
<1>. QED  BY <1>2, <1>3

\* LockSVC: t has the lock then and goes on, or waits for it.
LEMMA LockKeeps ==
  ASSUME NEW t \in SvcTasks, LockTypes(svclocked, wtskq), pc \in [SvcTasks -> Steps],
         LocksInv(svclocked, wtskq, tstat, pc), HoldsAll(svclocked, pc, frames), ~klockwait(t),
         tstat[t] = "READY", pc[t].at \in LockPlaces, NEW l, l = LockOf(t, pc[t]),
         NEW x, LockSVC(t, l, x), tstat' = tstat
  PROVE  /\ LockTypes(svclocked', wtskq') /\ LocksInv(svclocked', wtskq', tstat', pc')
         /\ \A w \in SvcTasks \ {t} : svclocked'[w] = svclocked[w]
         /\ \/ pc' = pc /\ svclocked' = svclocked
            \/ pc' = [pc EXCEPT ![t] = x] /\ Got(t, l, svclocked'[t])
<1>1. ~Queued(wtskq, t) /\ LocksBut(svclocked, wtskq, tstat, pc, {})
  BY KlockwaitQueued, LocksWhole DEF LockTypes
<1>2. l \in SvcTasks
  BY StepParts DEF LockOf, LockPlaces
<1>3. HoldsOK(t, pc[t], frames[t], svclocked[t]) /\ pc[t] \in Steps
  BY DEF HoldsAll
<1>4. CASE latest(t, l)
  <2>1. svclocked' = svclocked /\ wtskq' = wtskq /\ pc' = [pc EXCEPT ![t] = x]
    BY <1>4 DEF LockSVC, lockvars, goto
  <2>2. LocksBut(svclocked, wtskq, tstat, pc', {})
    <3>1. \A q : q = [pc EXCEPT ![t] = x] => LocksBut(svclocked, wtskq, tstat, q, {})
      BY <1>1, MovesOn, Zenon
    <3>. QED  BY <2>1, <3>1, Zenon
  <2>3. Got(t, l, svclocked[t])
    <3>1. svclocked[t] # None /\ Head(svclocked[t]) = l
      BY <1>4 DEF latest, None
    <3>2. Held(t, svclocked[t])
      BY <1>3, <3>1, HeldLocks, Zenon
    <3>3. Contains(svclocked[t], l)
      BY <3>1, <3>2, Zenon DEF Held
    <3>. QED  BY <1>3, <3>3, LockLatest
  <2>. QED  BY <2>1, <2>2, <2>3, LocksWhole
<1>5. CASE ~latest(t, l)
  <2>1. ~Contains(svclocked[t], l)
    <3>1. Contains(svclocked[t], l) => Got(t, l, svclocked[t])
      BY <1>3, LockLatest
    <3>. QED  BY <1>5, <3>1 DEF Got, latest, None
  <2>2. CASE wtskq[l] = NULL
    <3>. DEFINE taken == One(l) \o svclocked[t]
    <3>1. /\ wtskq' = [wtskq EXCEPT ![l] = <<>>] /\ svclocked' = [svclocked EXCEPT ![t] = taken]
          /\ pc' = [pc EXCEPT ![t] = x]
      BY <1>5, <2>2 DEF LockSVC, goto, One
    <3>2. Taken(t, pc[t], frames[t], svclocked[t], l, taken)
      <4>1. Takes(t, pc[t], frames[t], svclocked[t], l)
        BY <1>3, <2>1 DEF Takes
      <4>. QED  BY <1>3, <4>1, LockTaken, Zenon
    <3>3. /\ taken \in Seq(SvcTasks) /\ Got(t, l, taken)
          /\ \A k : Contains(taken, k) <=> k = l \/ Contains(svclocked[t], k)
      BY <3>2 DEF Taken
    <3>. HIDE DEF taken
    <3>. DEFINE sl == [svclocked EXCEPT ![t] = taken]
                wq == [wtskq EXCEPT ![l] = <<>>]
    <3>4. sl \in [SvcTasks -> Seq(SvcTasks)] /\ sl[t] = taken /\ \A w \in SvcTasks : w # t => sl[w] = svclocked[w]
      BY <3>3 DEF LockTypes
    <3>5. /\ wq \in [SvcTasks -> Seq(SvcTasks) \cup {NULL}] /\ wq[l] = <<>>
          /\ \A k \in SvcTasks : k # l => wq[k] = wtskq[k]
      BY <1>2 DEF LockTypes
    <3>. HIDE DEF sl, wq
    <3>6. <<>> # NULL /\ IsInjective(<<>>) /\ ToSet(<<>>) = {}
      <4>1. <<>> \in Seq(SvcTasks)
        OBVIOUS
      <4>2. ToSet(<<>>) = {}
        BY <4>1, MemberPosition
      <4>3. IsInjective(<<>>)
        BY DEF IsInjective
      <4>. QED  BY <4>1, <4>2, <4>3, SubsystemAssumption
    <3>7. LocksBut(sl, wq, tstat, pc, {})
      <4>1. \A w \in SvcTasks : \A k : Contains(sl[w], k) <=> Contains(svclocked[w], k) \/ (w = t /\ k = l)
        BY <3>3, <3>4
      <4>2. \A w \in SvcTasks : ~Contains(svclocked[w], l)
        BY <1>1, <1>2, <2>2 DEF LocksBut
      <4>3. \A k \in SvcTasks : wq[k] # NULL <=> \E w \in SvcTasks : Contains(sl[w], k)
        BY <1>1, <3>5, <3>6, <4>1 DEF LocksBut
      <4>4. ASSUME NEW w \in SvcTasks, NEW u \in SvcTasks, NEW k \in SvcTasks,
                   Contains(sl[w], k), Contains(sl[u], k)
            PROVE  w = u
        <5>1. CASE k = l
          BY <4>1, <4>2, <4>4, <5>1
        <5>2. CASE k # l
          <6>1. Contains(svclocked[w], k) /\ Contains(svclocked[u], k)
            BY <4>1, <4>4, <5>2
          <6>. QED  BY <1>1, <6>1 DEF LocksBut
        <5>. QED  BY <5>1, <5>2
      <4>5. ASSUME NEW k \in SvcTasks, wq[k] # NULL
            PROVE  /\ IsInjective(wq[k])
                   /\ \A w \in ToSet(wq[k]) : /\ tstat[w] = "READY" /\ ~Contains(sl[w], k)
                                              /\ pc[w].at \in LockPlaces /\ k = LockOf(w, pc[w])
        <5>1. CASE k = l
          BY <3>5, <3>6, <5>1
        <5>2. CASE k # l
          <6>1. wq[k] = wtskq[k] /\ wtskq[k] \in Seq(SvcTasks)
            BY <3>5, <4>5, <5>2
          <6>2. \A w \in ToSet(wq[k]) : w \in SvcTasks
            BY <6>1, MemberPosition
          <6>. QED  BY <1>1, <4>1, <4>5, <5>2, <6>1, <6>2 DEF LocksBut
        <5>. QED  BY <5>1, <5>2
      <4>. QED  BY <4>3, <4>4, <4>5 DEF LocksBut
    <3>8. LocksBut(sl, wq, tstat, pc', {})
      <4>1. ~Queued(wq, t)
        BY <1>1, <3>5, <3>6 DEF Queued
      <4>2. \A q : q = [pc EXCEPT ![t] = x] => LocksBut(sl, wq, tstat, q, {})
        BY <3>7, <4>1, MovesOn, Zenon
      <4>. QED  BY <3>1, <4>2, Zenon
    <3>9. svclocked' = sl /\ wtskq' = wq
      BY <3>1 DEF sl, wq
    <3>. QED  BY <3>1, <3>3, <3>4, <3>5, <3>8, <3>9, LocksWhole DEF LockTypes
  <2>3. CASE wtskq[l] # NULL
    <3>. DEFINE q == Append(wtskq[l], t)
                wq == [wtskq EXCEPT ![l] = q]
    <3>1. wtskq' = wq /\ svclocked' = svclocked /\ pc' = pc
      BY <1>5, <2>3 DEF LockSVC
    <3>2. wtskq[l] \in Seq(SvcTasks) /\ t \notin ToSet(wtskq[l]) /\ IsInjective(wtskq[l])
      BY <1>1, <1>2, <2>3 DEF LockTypes, Queued, LocksBut
    <3>3. q \in Seq(SvcTasks) /\ ToSet(q) = ToSet(wtskq[l]) \cup {t} /\ IsInjective(q)
      BY <3>2, QueInsertProperties DEF QueInsert
    <3>4. q # NULL
      BY <3>3, SubsystemAssumption
    <3>. HIDE DEF q
    <3>5. /\ wq \in [SvcTasks -> Seq(SvcTasks) \cup {NULL}] /\ wq[l] = q
          /\ \A k \in SvcTasks : k # l => wq[k] = wtskq[k]
      BY <1>2, <3>3 DEF LockTypes
    <3>. HIDE DEF wq
    <3>6. ASSUME NEW k \in SvcTasks, wq[k] # NULL
          PROVE  /\ IsInjective(wq[k])
                 /\ \A w \in ToSet(wq[k]) : /\ tstat[w] = "READY" /\ ~Contains(svclocked[w], k)
                                            /\ pc[w].at \in LockPlaces /\ k = LockOf(w, pc[w])
      <4>1. CASE k = l
        BY <1>1, <2>1, <2>3, <3>3, <3>5, <4>1 DEF LocksBut
      <4>2. CASE k # l
        BY <1>1, <3>5, <3>6, <4>2 DEF LocksBut
      <4>. QED  BY <4>1, <4>2
    <3>7. LocksBut(svclocked, wq, tstat, pc, {})
      <4>1. \A k \in SvcTasks : wq[k] # NULL <=> wtskq[k] # NULL
        BY <2>3, <3>4, <3>5
      <4>. QED  BY <1>1, <3>6, <4>1 DEF LocksBut
    <3>. QED  BY <3>1, <3>5, <3>7, LocksWhole DEF LockTypes
  <2>. QED  BY <2>2, <2>3
<1>. QED  BY <1>4, <1>5

\* AllUnlockSVC goes through at most two locks.
Passes(q, k) == Loop(q, k, LAMBDA a, l : pass_on(a.sl, a.wq, l))

\* For lists of none, one and two locks.
LEMMA ShortLoop ==
  ASSUME NEW q, NEW k, Len(q) \in {0, 1, 2},
         NEW k1, k1 = pass_on(k.sl, k.wq, q[1]), NEW k2, k2 = pass_on(k1.sl, k1.wq, q[2])
  PROVE  /\ Len(q) = 0 => Passes(q, k) = k
         /\ Len(q) = 1 => Passes(q, k) = k1
         /\ Len(q) = 2 => Passes(q, k) = k2
<1>. DEFINE N == Len(q)
            after == CHOOSE after : after = [n \in 0..N |-> IF n = 0 THEN k
                                                ELSE pass_on(after[n - 1].sl, after[n - 1].wq, q[n])]
            g == [n \in 0..N |-> IF n = 0 THEN k ELSE IF n = 1 THEN k1 ELSE k2]
            h == [n \in 0..N |-> IF n = 0 THEN k ELSE pass_on(g[n - 1].sl, g[n - 1].wq, q[n])]
<1>1. Passes(q, k) = after[N]
  BY DEF Passes, Loop
<1>. HIDE DEF N
<1>2. ASSUME NEW n \in 0..N  PROVE g[n] = h[n]
  <2>1. n \in {0, 1, 2} /\ (n # 0 => n - 1 \in 0..N)
    <3>1. N \in {0, 1, 2}
      BY DEF N
    <3>2. n \in Nat /\ n <= N
      BY <3>1
    <3>3. n \in {0, 1, 2}
      BY <3>1, <3>2
    <3>. QED  BY <3>1, <3>2, <3>3
  <2>2. CASE n = 0
    BY <2>2
  <2>3. CASE n = 1
    <3>1. g[0] = k
      BY <2>1, <2>3, SMTT(40)
    <3>. QED  BY <3>1, <2>3
  <2>4. CASE n = 2
    <3>1. g[1] = k1 /\ n - 1 = 1
      BY <2>1, <2>4
    <3>2. h[n] = pass_on(g[1].sl, g[1].wq, q[2]) /\ g[n] = k2
      BY <2>4, <3>1
    <3>. QED  BY <3>1, <3>2
  <2>. QED  BY <2>1, <2>2, <2>3, <2>4
<1>3. g = h
  BY <1>2, SMTT(40)
<1>4. after = [n \in 0..N |-> IF n = 0 THEN k ELSE pass_on(after[n - 1].sl, after[n - 1].wq, q[n])]
  BY <1>3
<1>. HIDE DEF after, g, h
<1>5. after[0] = k /\ 0 \in 0..N
  BY <1>4 DEF N
<1>6. N >= 1 => after[1] = k1
  <2>1. SUFFICES ASSUME N >= 1  PROVE after[1] = k1
    OBVIOUS
  <2>2. 1 \in 0..N /\ 1 - 1 = 0
    BY <2>1 DEF N
  <2>. QED  BY <1>4, <1>5, <2>2
<1>7. N = 2 => after[2] = k2
  <2>1. SUFFICES ASSUME N = 2  PROVE after[2] = k2
    OBVIOUS
  <2>2. 2 \in 0..N /\ 2 - 1 = 1 /\ N >= 1
    BY <2>1
  <2>. QED  BY <1>4, <1>6, <2>2
<1>8. N = 1 => N >= 1
  OBVIOUS
<1>9. N = Len(q)
  BY DEF N
<1>. QED  BY <1>1, <1>5, <1>6, <1>7, <1>8, <1>9

\* The queues of the locks without t; all others are as they were.
LeftQueues(wq, t) == [l \in SvcTasks |-> IF wq[l] = NULL THEN NULL ELSE Without(wq[l], {t})]
OthersStay(st2, p2, st, p, t) == \A w \in SvcTasks \ {t} : st2[w] = st[w] /\ p2[w] = p[w]

\* t leaves the queue of the lock it waits for.
LEMMA LeavesQueue ==
  ASSUME NEW sl, NEW wq, LockTypes(sl, wq), NEW st, NEW p, NEW S, LocksBut(sl, wq, st, p, S), NEW t,
         NEW left, left = LeftQueues(wq, t), NEW st2, NEW p2, OthersStay(st2, p2, st, p, t)
  PROVE  LockTypes(sl, left) /\ LocksBut(sl, left, st2, p2, S) /\ ~Queued(left, t)
<1>1. ASSUME NEW l \in SvcTasks, wq[l] # NULL
      PROVE  /\ left[l] \in Seq(SvcTasks) /\ left[l] # NULL
             /\ ToSet(left[l]) = ToSet(wq[l]) \ {t} /\ IsInjective(left[l])
             /\ \A w \in ToSet(wq[l]) : w \in SvcTasks
  <2>1. wq[l] \in Seq(SvcTasks) /\ IsInjective(wq[l]) /\ left[l] = Without(wq[l], {t})
    BY <1>1 DEF LockTypes, LocksBut, LeftQueues
  <2>2. left[l] \in Seq(SvcTasks) /\ ToSet(left[l]) = ToSet(wq[l]) \ {t} /\ IsInjective(left[l])
    BY <2>1, WithoutProperties
  <2>. QED  BY <2>1, <2>2, SubsystemAssumption, MemberPosition
<1>2. \A l \in SvcTasks : wq[l] = NULL => left[l] = NULL
  BY DEF LeftQueues
<1>3. left \in [SvcTasks -> Seq(SvcTasks) \cup {NULL}]
  <2>1. \A l \in SvcTasks : left[l] \in Seq(SvcTasks) \cup {NULL}
    BY <1>1, <1>2
  <2>2. left = [l \in SvcTasks |-> left[l]]
    BY DEF LeftQueues
  <2>. QED  BY <2>1, <2>2
<1>4. ~Queued(left, t)
  BY <1>1, <1>2 DEF Queued
<1>5. \A l \in SvcTasks : left[l] # NULL <=> wq[l] # NULL
  BY <1>1, <1>2
<1>6. ASSUME NEW l \in SvcTasks, left[l] # NULL
      PROVE  /\ IsInjective(left[l])
             /\ \A w \in ToSet(left[l]) : /\ st2[w] = "READY" /\ ~Contains(sl[w], l)
                                          /\ p2[w].at \in LockPlaces /\ l = LockOf(w, p2[w])
  <2>1. wq[l] # NULL
    BY <1>2, <1>6
  <2>2. ASSUME NEW w \in ToSet(left[l])
        PROVE  /\ st2[w] = "READY" /\ ~Contains(sl[w], l)
               /\ p2[w].at \in LockPlaces /\ l = LockOf(w, p2[w])
    <3>1. w \in ToSet(wq[l]) /\ w \in SvcTasks \ {t}
      BY <1>1, <2>1
    <3>2. st[w] = "READY" /\ ~Contains(sl[w], l) /\ p[w].at \in LockPlaces /\ l = LockOf(w, p[w])
      BY <2>1, <3>1 DEF LocksBut
    <3>. QED  BY <3>1, <3>2 DEF OthersStay
  <2>. QED  BY <1>1, <2>1, <2>2
<1>. QED  BY <1>3, <1>4, <1>5, <1>6 DEF LockTypes, LocksBut

\* t gives all its locks back and ends.
LEMMA AllUnlockKeeps ==
  ASSUME NEW t \in SvcTasks, LockTypes(svclocked, wtskq), pc \in [SvcTasks -> Steps],
         tstat \in [SvcTasks -> {"DORMANT", "READY", "SUSPEND"}],
         frames \in [SvcTasks -> Seq(Frames)], LocksInv(svclocked, wtskq, tstat, pc),
         HoldsAll(svclocked, pc, frames), AllUnlockSVC(t), tstat' = [tstat EXCEPT ![t] = "DORMANT"],
         pc' = [pc EXCEPT ![t] = Run], frames' = [frames EXCEPT ![t] = <<>>]
  PROVE  /\ LockTypes(svclocked', wtskq') /\ LocksInv(svclocked', wtskq', tstat', pc')
         /\ HoldsAll(svclocked', pc', frames')
<1>. DEFINE left == LeftQueues(wtskq, t)
            locks == svclocked[t]
            sl == [svclocked EXCEPT ![t] = <<>>]
            st == [tstat EXCEPT ![t] = "DORMANT"]
            p == [pc EXCEPT ![t] = Run]
            fr == [frames EXCEPT ![t] = <<>>]
            k == [sl |-> sl, wq |-> left]
            r == Passes(locks, k)
            S == {l \in SvcTasks : Contains(locks, l)}
<1>1. svclocked' = r.sl /\ wtskq' = r.wq
  BY DEF AllUnlockSVC, Passes, LeftQueues
<1>2. LocksBut(svclocked, wtskq, tstat, pc, {})
  BY LocksWhole
<1>. HIDE DEF r, left
<1>3. \A w \in SvcTasks \ {t} : st[w] = tstat[w] /\ p[w] = pc[w] /\ fr[w] = frames[w] /\ sl[w] = svclocked[w]
  OBVIOUS
<1>4. /\ p \in [SvcTasks -> Steps] /\ p[t] = Run
      /\ sl \in [SvcTasks -> Seq(SvcTasks)] /\ sl[t] = None /\ k.sl = sl /\ k.wq = left
  <2>1. Run \in Steps
    BY DEF Run, Steps
  <2>2. <<>> \in Seq(SvcTasks)
    OBVIOUS
  <2>. QED  BY <2>1, <2>2 DEF LockTypes, None
<1>. HIDE DEF st, p, fr, sl, k, locks
<1>5. LockTypes(svclocked, left) /\ LocksBut(svclocked, left, st, p, {}) /\ ~Queued(left, t)
  <2>1. OthersStay(st, p, tstat, pc, t)
    BY <1>3 DEF OthersStay
  <2>. QED  BY <1>2, <2>1, LeavesQueue DEF left
<1>6. HoldsAll(sl, p, fr)
  <2>1. HoldsOK(t, Run, fr[t], None)
    <3>1. fr[t] = <<>> /\ Run.at = "run"
      BY DEF fr, Run
    <3>. QED  BY <3>1 DEF HoldsOK, Own, Breaks
  <2>2. ASSUME NEW w \in SvcTasks  PROVE HoldsOK(w, p[w], fr[w], sl[w])
    <3>1. CASE w = t
      BY <1>4, <2>1, <3>1
    <3>2. CASE w # t
      <4>1. HoldsOK(w, pc[w], frames[w], svclocked[w])
        BY DEF HoldsAll
      <4>. QED  BY <1>3, <3>2, <4>1
    <3>. QED  BY <3>1, <3>2
  <2>. QED  BY <2>2 DEF HoldsAll
<1>7. LocksBut(sl, left, st, p, S) /\ LockTypes(sl, left)
  <2>1. \A w \in SvcTasks : \A l : Contains(svclocked[w], l) <=> Contains(sl[w], l) \/ (w = t /\ Contains(locks, l))
    <3>1. \A l : ~Contains(None, l)
      BY ShortLists DEF Shorts
    <3>. QED  BY <1>3, <1>4, <3>1 DEF locks
  <2>2. ASSUME NEW w \in SvcTasks, NEW l \in S  PROVE ~Contains(sl[w], l)
    <3>1. Contains(svclocked[t], l) /\ l \in SvcTasks
      BY DEF locks
    <3>2. CASE w = t
      BY <1>4, <3>1, <3>2, ShortLists DEF Shorts
    <3>3. CASE w # t
      BY <1>2, <1>3, <3>1, <3>3 DEF LocksBut
    <3>. QED  BY <3>2, <3>3
  <2>3. \A l \in SvcTasks : left[l] # NULL <=> l \in S \/ \E w \in SvcTasks : Contains(sl[w], l)
    BY <1>5, <2>1 DEF LocksBut
  <2>4. \A w, u, l \in SvcTasks : Contains(sl[w], l) /\ Contains(sl[u], l) => w = u
    <3>1. ASSUME NEW w \in SvcTasks, NEW u \in SvcTasks, NEW l \in SvcTasks,
                 Contains(sl[w], l), Contains(sl[u], l)
          PROVE  w = u
      <4>1. Contains(svclocked[w], l) /\ Contains(svclocked[u], l)
        BY <2>1, <3>1
      <4>. QED  BY <1>2, <4>1 DEF LocksBut
    <3>. QED  BY <3>1
  <2>5. ASSUME NEW l \in SvcTasks, left[l] # NULL
        PROVE  /\ IsInjective(left[l])
               /\ \A w \in ToSet(left[l]) : /\ st[w] = "READY" /\ ~Contains(sl[w], l)
                                            /\ p[w].at \in LockPlaces /\ l = LockOf(w, p[w])
    <3>1. left[l] \in Seq(SvcTasks)
      BY <1>5, <2>5 DEF LockTypes
    <3>2. \A w \in ToSet(left[l]) : w \in SvcTasks
      BY <3>1, MemberPosition
    <3>. QED  BY <1>5, <2>1, <2>5, <3>2 DEF LocksBut
  <2>. QED  BY <1>4, <1>5, <2>2, <2>3, <2>4, <2>5 DEF LocksBut, LockTypes
<1>8. HoldsOK(t, pc[t], frames[t], locks)
  BY DEF HoldsAll, locks
<1>9. LockTypes(r.sl, r.wq) /\ LocksBut(r.sl, r.wq, st, p, {}) /\ HoldsAll(r.sl, p, fr)
  <2>1. CASE locks = None
    <3>1. Len(locks) = 0
      BY <2>1 DEF None
    <3>2. r = k
      BY <3>1, ShortLoop DEF r
    <3>3. S = {}
      BY <2>1, ShortLists DEF Shorts
    <3>. QED  BY <1>4, <1>6, <1>7, <3>2, <3>3
  <2>2. ASSUME NEW a \in SvcTasks, locks = One(a)
        PROVE  LockTypes(r.sl, r.wq) /\ LocksBut(r.sl, r.wq, st, p, {}) /\ HoldsAll(r.sl, p, fr)
    <3>1. Len(locks) = 1 /\ locks[1] = a
      BY <2>2 DEF One
    <3>2. r = pass_on(sl, left, a)
      BY <1>4, <3>1, ShortLoop DEF r
    <3>3. S = {a}
      <4>1. Shorts(a, a)
        BY ShortLists
      <4>. QED  BY <2>2, <4>1 DEF Shorts
    <3>. HIDE DEF S
    <3>4. Passing(sl, left, st, p, fr, {a}, a)
      BY <1>4, <1>6, <1>7, <3>3 DEF Passing
    <3>5. Passed(r, sl, left, st, p, fr, {a}, a)
      BY <3>2, <3>4, PassedOn
    <3>6. {a} \ {a} = {}
      OBVIOUS
    <3>. QED  BY <3>5, <3>6 DEF Passed
  <2>3. ASSUME NEW u \in SvcTasks \ {t}, locks = Two(u, t)
        PROVE  LockTypes(r.sl, r.wq) /\ LocksBut(r.sl, r.wq, st, p, {}) /\ HoldsAll(r.sl, p, fr)
    <3>. DEFINE m == pass_on(sl, left, u)
    <3>1. Len(locks) = 2 /\ locks[1] = u /\ locks[2] = t
      BY <2>3 DEF Two
    <3>2. r = pass_on(m.sl, m.wq, t)
      BY <1>4, <3>1, ShortLoop DEF r
    <3>3. S = {u, t}
      <4>1. Shorts(u, t)
        BY ShortLists
      <4>. QED  BY <2>3, <4>1 DEF Shorts
    <3>. HIDE DEF S, m
    <3>4. Passing(sl, left, st, p, fr, {u, t}, u)
      BY <1>4, <1>6, <1>7, <3>3 DEF Passing
    <3>5. Passed(m, sl, left, st, p, fr, {u, t}, u)
      BY <3>4, PassedOn DEF m
    <3>6. {u, t} \ {u} = {t} /\ {t} \ {t} = {}
      OBVIOUS
    <3>7. Passing(m.sl, m.wq, st, p, fr, {t}, t)
      BY <1>4, <3>5, <3>6 DEF Passed, Passing
    <3>8. Passed(r, m.sl, m.wq, st, p, fr, {t}, t)
      BY <3>2, <3>7, PassedOn
    <3>. QED  BY <3>6, <3>8 DEF Passed
  <2>4. locks # None => Held(t, locks)
    BY <1>8, HeldLocks
  <2>. QED  BY <2>1, <2>2, <2>3, <2>4 DEF Held
<1>10. tstat' = st /\ pc' = p /\ frames' = fr
  BY DEF st, p, fr
<1>. QED  BY <1>1, <1>9, <1>10, LocksWhole

-----------------------------------------------------------------------------
(* The places of tasks.                                                    *)

\* Only a break function of the task itself may be innermost then, and only
\* where it may call the kernel.
Calm(t, p, fr) == \A u : Breaks(p, fr, u) => u = t /\ "self" \in BreakCalls

\* Within a call, and when the innermost handler has returned.
LEMMA CalmInCall ==
  ASSUME NEW t \in SvcTasks, NEW fr \in Seq(Frames), NEW p, PlaceOK(t, p, fr), p.at # "run", NEW q
  PROVE  Calm(t, q, fr)
<1>. SUFFICES ASSUME NEW u, Breaks(q, fr, u)  PROVE u = t /\ "self" \in BreakCalls
  BY DEF Calm
<1>1. fr # <<>> /\ Last(fr) \in BrkFrames /\ Last(fr).next # Run /\ Last(fr).of = u
  BY DEF Breaks
<1>2. Len(fr) \in Nat /\ DOMAIN fr = 1..Len(fr) /\ Len(fr) \in DOMAIN fr /\ Last(fr) = fr[Len(fr)]
  <2>1. Len(fr) \in Nat /\ DOMAIN fr = 1..Len(fr)
    BY LenProperties
  <2>2. Len(fr) # 0
    BY <1>1, EmptySeq
  <2>. QED  BY <2>1, <2>2 DEF Last
<1>3. Callable(t, Last(fr))
  BY <1>2 DEF PlaceOK
<1>. QED  BY <1>1, <1>3 DEF Callable, BrkFrames

\* The handler around it was in a call when the innermost one started.
LEMMA CalmPopped ==
  ASSUME NEW t \in SvcTasks, NEW fr \in Seq(Frames), NEW p, PlaceOK(t, p, fr), fr # <<>>,
         NEW r, r = Front(fr), NEW q
  PROVE  Calm(t, q, r)
<1>. SUFFICES ASSUME NEW u, Breaks(q, r, u)  PROVE u = t /\ "self" \in BreakCalls
  BY DEF Calm
<1>1. r # <<>> /\ Last(r) \in BrkFrames /\ Last(r).next # Run /\ Last(r).of = u
  BY DEF Breaks
<1>. DEFINE n == Len(fr)
            d == n - 1
<1>2. /\ n \in Nat /\ DOMAIN fr = 1..n /\ DOMAIN r = 1..d /\ Len(r) = d /\ r \in Seq(Frames)
      /\ \A i \in 1..d : r[i] = fr[i]
  BY Left
<1>3. d \in 1..d /\ d \in 1..n /\ d < n
  <2>1. n \in Nat /\ 1 <= n
    BY Left
  <2>2. n - 1 # 0
    BY <1>1, <1>2, EmptySeq
  <2>3. \A k \in Nat : 1 <= k /\ k - 1 # 0 => k - 1 \in 1..k - 1 /\ k - 1 \in 1..k /\ k - 1 < k
    OBVIOUS
  <2>. HIDE DEF n
  <2>. QED  BY <2>1, <2>2, <2>3
<1>. HIDE DEF d, n
<1>4. Last(r) = fr[d]
  BY <1>2, <1>3 DEF Last
<1>5. Callable(t, fr[d])
  BY <1>2, <1>3 DEF PlaceOK, n
<1>. QED  BY <1>1, <1>4, <1>5 DEF Callable, BrkFrames

\* Elsewhere no break function of another task is innermost.
LEMMA CalmElse ==
  ASSUME NEW t \in SvcTasks, NEW q, NEW fr, q.at # "run" \/ (fr # <<>> => Last(fr).f # "brk" \/ Last(fr).next = Run)
  PROVE  Calm(t, q, fr)
BY DEF Calm, Breaks, BrkFrames

\* A task may then have its own lock at most.
LEMMA OwnLock ==
  ASSUME NEW t \in SvcTasks, NEW p, NEW fr, NEW locks, HoldsOK(t, p, fr, locks), Calm(t, p, fr),
         p.at \notin {"ras_lock", "ras", "ras_break", "ras_end"}
  PROVE  Own(t, locks)
BY DEF HoldsOK, Calm, Raises

\* Its own lock at most is right there, outside the extended SVC's entry and
\* exit.
LEMMA CalmHolds ==
  ASSUME NEW t \in SvcTasks, NEW q, NEW fr, NEW locks, Own(t, locks), Calm(t, q, fr),
         q.at \in {"run", "self_break", "enter_lock", "exit_lock", "ras_lock", "ras_end"}
  PROVE  HoldsOK(t, q, fr, locks)
BY DEF HoldsOK, Calm

\* The next step of a call.
LEMMA PlaceMoves ==
  ASSUME NEW t, NEW p, NEW fr, PlaceOK(t, p, fr), p.at # "run", NEW q,
         q.at \in {"exit_lock", "exit"} <=> p.at \in {"exit_lock", "exit"}
  PROVE  PlaceOK(t, q, fr)
BY DEF PlaceOK

\* All handlers of t may call the kernel, and it has room for one more.
Room(t, fr) == Len(fr) < MaxFrames[t] /\ \A i \in DOMAIN fr : Callable(t, fr[i])

\* There is room within a call other than the exit from an extended SVC.
LEMMA RoomInCall ==
  ASSUME NEW t, NEW p, NEW fr, PlaceOK(t, p, fr), p.at \notin {"run", "exit_lock", "exit"}
  PROVE  Room(t, fr)
BY DEF PlaceOK, Room

\* There is where the innermost handler may call the kernel.
LEMMA RoomToCall ==
  ASSUME NEW t \in SvcTasks, frames[t] \in Seq(Frames), PlaceOK(t, pc[t], frames[t]), may_call(t)
  PROVE  Room(t, frames[t]) /\ Calm(t, pc[t], frames[t])
<1>. DEFINE fr == frames[t]
<1>1. Len(fr) \in Nat /\ DOMAIN fr = 1..Len(fr)
  BY LenProperties
<1>2. fr # <<>> => Callable(t, Last(fr))
  BY DEF may_call, in, Callable
<1>3. ASSUME NEW i \in DOMAIN fr  PROVE Callable(t, fr[i])
  <2>1. CASE i < Len(fr)
    BY <2>1 DEF PlaceOK
  <2>2. CASE i = Len(fr)
    <3>1. fr # <<>>
      BY <1>1, <2>2
    <3>. QED  BY <1>2, <2>2, <3>1 DEF Last
  <2>. QED  BY <1>1, <2>1, <2>2
<1>4. Len(fr) < MaxFrames[t]
  BY DEF may_call
<1>5. Calm(t, pc[t], fr)
  BY <1>2 DEF Calm, Breaks, Callable, BrkFrames
<1>. QED  BY <1>3, <1>4, <1>5 DEF Room

\* With room, any step is right that does not leave an extended SVC.
LEMMA PlaceWithRoom ==
  ASSUME NEW t \in SvcTasks, NEW fr \in Seq(Frames), Room(t, fr), NEW q, q.at \notin {"exit_lock", "exit"}
  PROVE  PlaceOK(t, q, fr)
<1>1. Len(fr) \in Nat /\ MaxFrames[t] \in Nat
  BY LenProperties, SubsystemAssumption
<1>. QED  BY <1>1 DEF Room, PlaceOK

\* A handler is entered, or left.
LEMMA PlacePushed ==
  ASSUME NEW t \in SvcTasks, NEW fr \in Seq(Frames), Room(t, fr), NEW f \in Frames,
         NEW r, r = Append(fr, f), NEW q, q.at = "run"
  PROVE  PlaceOK(t, q, r)
<1>. DEFINE n == Len(fr)
            m == n + 1
<1>1. /\ n \in Nat /\ DOMAIN fr = 1..n /\ DOMAIN r = 1..m /\ Len(r) = m
      /\ \A i \in 1..n : r[i] = fr[i]
  BY Entered
<1>2. \A i \in 1..m : i < m => i \in 1..n
  BY <1>1
<1>3. m <= MaxFrames[t]
  <2>1. n < MaxFrames[t] /\ n \in Nat /\ MaxFrames[t] \in Nat
    BY <1>1, SubsystemAssumption DEF Room
  <2>. QED  BY <2>1
<1>. HIDE DEF n, m
<1>. QED  BY <1>1, <1>2, <1>3 DEF Room, PlaceOK

\* When it is left, the handlers around it may call the kernel.
LEMMA PlacePopped ==
  ASSUME NEW t \in SvcTasks, NEW p, NEW fr \in Seq(Frames), PlaceOK(t, p, fr), fr # <<>>,
         NEW r, r = Front(fr), NEW q, q.at \notin {"exit_lock", "exit"}
  PROVE  PlaceOK(t, q, r)
<1>. DEFINE n == Len(fr)
            d == n - 1
<1>1. /\ DOMAIN fr = 1..n /\ DOMAIN r = 1..d /\ Len(r) = d
      /\ \A i \in 1..d : r[i] = fr[i]
  BY Left
<1>2. n \in Nat /\ MaxFrames[t] \in Nat /\ n <= MaxFrames[t]
  BY LenProperties, SubsystemAssumption DEF PlaceOK
<1>3. d < MaxFrames[t] /\ d <= MaxFrames[t] /\ \A i \in 1..d : i \in 1..n /\ i < n
  BY <1>2
<1>4. \A i \in 1..n : i < n => Callable(t, fr[i])
  BY <1>1 DEF PlaceOK
<1>. HIDE DEF n, d
<1>. QED  BY <1>1, <1>3, <1>4 DEF PlaceOK

-----------------------------------------------------------------------------
(* What a step must keep.                                                  *)

\* The invariant, of one task.
TaskOK(t) ==
    /\ PlaceOK(t, pc[t], frames[t]) /\ HoldsOK(t, pc[t], frames[t], svclocked[t])
    /\ BrokenOK(frames[t], execssid[t])
    /\ TexOK(frames[t], texhdr[t], forgotten[t], texmask[t], pendtex[t], exectex[t], texflg[t], reqdct[t])

LocksOK == LockTypes(svclocked, wtskq) /\ LocksInv(svclocked, wtskq, tstat, pc)

\* A step changes of the other tasks at most the locks, which stay right.
Alone(t) == \A w \in SvcTasks \ {t} :
    /\ pc'[w] = pc[w] /\ frames'[w] = frames[w] /\ execssid'[w] = execssid[w] /\ texhdr'[w] = texhdr[w]
    /\ forgotten'[w] = forgotten[w] /\ texmask'[w] = texmask[w] /\ pendtex'[w] = pendtex[w] /\ exectex'[w] = exectex[w]
    /\ texflg'[w] = texflg[w] /\ reqdct'[w] = reqdct[w]
LocksElse(t) == \A w \in SvcTasks \ {t} : HoldsOK(w, pc[w], frames[w], svclocked'[w])

\* The invariant is that of every task.
LEMMA TaskByTask ==
  SvcInv <=> SvcTypes /\ LocksOK /\ \A t \in SvcTasks : TaskOK(t)
BY DEF SvcInv, LocksOK, TaskOK, PlacesInv, HoldsAll, BrokenInv, TexInv

\* A step of one task.
LEMMA OneMoves ==
  ASSUME SvcInv, NEW t \in SvcTasks, SvcTypes', LocksOK', Alone(t), LocksElse(t), TaskOK(t)'
  PROVE  SvcInv'
<1>1. ASSUME NEW w \in SvcTasks \ {t}  PROVE TaskOK(w)'
  BY TaskByTask DEF Alone, LocksElse, TaskOK
<1>2. SvcTypes' /\ LocksOK' /\ (\A w \in SvcTasks : TaskOK(w))' => SvcInv'
  BY DEF SvcInv, LocksOK, TaskOK, PlacesInv, HoldsAll, BrokenInv, TexInv
<1>. QED  BY <1>1, <1>2

\* A task that runs goes to another step of its call.
LEMMA GoesOn ==
  ASSUME SvcInv, NEW t \in SvcTasks, ~klockwait(t), NEW x, goto(t, x), tstat' = tstat, UNCHANGED lockvars
  PROVE  LocksOK' /\ LocksElse(t) /\ svclocked'[t] = svclocked[t]
<1>1. LockTypes(svclocked, wtskq) /\ LocksInv(svclocked, wtskq, tstat, pc) /\ pc \in [SvcTasks -> Steps]
      /\ HoldsAll(svclocked, pc, frames)
  BY DEF SvcInv, SvcTypes
<1>2. ~Queued(wtskq, t)
  BY <1>1, KlockwaitQueued DEF LockTypes
<1>3. LocksBut(svclocked, wtskq, tstat, pc, {})
  BY <1>1, LocksWhole
<1>4. pc' = [pc EXCEPT ![t] = x] /\ svclocked' = svclocked /\ wtskq' = wtskq
  BY DEF goto, lockvars
<1>5. LocksBut(svclocked, wtskq, tstat, pc', {})
  <2>1. \A q : q = [pc EXCEPT ![t] = x] => LocksBut(svclocked, wtskq, tstat, q, {})
    BY <1>1, <1>2, <1>3, MovesOn
  <2>. QED  BY <2>1, <1>4, Zenon
<1>6. LocksInv(svclocked', wtskq', tstat', pc')
  BY <1>4, <1>5, LocksWhole
<1>. QED  BY <1>1, <1>4, <1>6 DEF LocksOK, LocksElse, HoldsAll

\* It gives its latest lock back, if it has one, and goes on.
LEMMA Unlocks ==
  ASSUME SvcInv, NEW t \in SvcTasks, ~klockwait(t), NEW x, goto(t, x), tstat' = tstat, UnlockSVC(t)
  PROVE  /\ LocksOK' /\ LocksElse(t)
         /\ svclocked'[t] = IF svclocked[t] = None THEN None ELSE Tail(svclocked[t])
         /\ Own(t, svclocked[t]) => svclocked'[t] = None
         /\ svclocked[t] # None => Own(t, svclocked'[t])
<1>1. LockTypes(svclocked, wtskq) /\ LocksInv(svclocked, wtskq, tstat, pc) /\ pc \in [SvcTasks -> Steps]
      /\ HoldsAll(svclocked, pc, frames)
  BY DEF SvcInv, SvcTypes
<1>2. pc' = [pc EXCEPT ![t] = x]
  BY DEF goto
<1>3. /\ LockTypes(svclocked', wtskq') /\ LocksInv(svclocked', wtskq', tstat', pc')
      /\ svclocked'[t] = IF svclocked[t] = None THEN None ELSE Tail(svclocked[t])
      /\ \A w \in SvcTasks \ {t} : HoldsOK(w, pc[w], frames[w], svclocked'[w])
  BY <1>1, <1>2, UnlockKeeps
<1>4. Tail(One(t)) = None
  BY ShortLists DEF Shorts
<1>5. svclocked[t] # None => Own(t, Tail(svclocked[t]))
  <2>1. HoldsOK(t, pc[t], frames[t], svclocked[t])
    BY <1>1 DEF HoldsAll
  <2>. QED  BY <2>1, HeldLocks DEF Held
<1>. QED  BY <1>3, <1>4, <1>5 DEF LocksOK, LocksElse, Own

\* The types of what a task has.
LEMMA TaskParts ==
  ASSUME SvcInv, NEW t \in SvcTasks
  PROVE  /\ SvcTypes /\ TaskOK(t) /\ pc[t] \in Steps /\ frames[t] \in Seq(Frames) /\ execssid[t] \in Execs
         /\ diswai[t] \in BOOLEAN /\ exectex[t] \in SUBSET Codes /\ texflg[t] \in SUBSET Flags
         /\ pc \in [SvcTasks -> Steps]
BY TaskByTask DEF SvcTypes

\* Where LockSVC and the check lead.
LeadsTo(p, a) == \/ p.at = "enter_lock" /\ a = "enter_check"
                 \/ p.at = "enter_check" /\ a = "enter"
                 \/ p.at = "exit_lock" /\ a = "exit"
                 \/ p.at = "ras_lock" /\ a = "ras"

\* The step that follows keeps what the call is about.
LEMMA NextSteps ==
  ASSUME NEW p \in Steps, NEW a, LeadsTo(p, a), NEW q, q = [p EXCEPT !.at = a]
  PROVE  q \in Steps /\ q.at = a /\ (p.at = "enter_check" => q.ssid = p.ssid) /\ (p.at = "ras_lock" => q.of = p.of)
<1>1. CASE p.at = "enter_lock" /\ a = "enter_check"
  <2>1. p.ssid \in Ssids /\ p = [at |-> "enter_lock", ssid |-> p.ssid]
    BY <1>1, StepParts
  <2>2. q = [at |-> "enter_check", ssid |-> p.ssid]
    BY <1>1, <2>1
  <2>. QED  BY <1>1, <2>1, <2>2 DEF Steps
<1>2. CASE p.at = "enter_check" /\ a = "enter"
  <2>1. p.ssid \in Ssids /\ p = [at |-> "enter_check", ssid |-> p.ssid]
    BY <1>2, StepParts
  <2>2. q = [at |-> "enter", ssid |-> p.ssid]
    BY <1>2, <2>1
  <2>. QED  BY <1>2, <2>1, <2>2 DEF Steps
<1>3. CASE p.at = "exit_lock" /\ a = "exit"
  <2>1. p = [at |-> "exit_lock"]
    BY <1>3, StepParts
  <2>2. q = [at |-> "exit"]
    BY <1>3, <2>1
  <2>. QED  BY <1>3, <2>1, <2>2 DEF Steps
<1>4. CASE p.at = "ras_lock" /\ a = "ras"
  <2>1. p.of \in SvcTasks /\ p.code \in Codes /\ p = [at |-> "ras_lock", of |-> p.of, code |-> p.code]
    BY <1>4, StepParts
  <2>2. q = [at |-> "ras", of |-> p.of, code |-> p.code]
    BY <1>4, <2>1
  <2>. QED  BY <1>4, <2>1, <2>2 DEF Steps
<1>. QED  BY <1>1, <1>2, <1>3, <1>4 DEF LeadsTo

\* The steps with parameters.
LEMMA NewSteps ==
  /\ \A s \in Ssids : [at |-> "enter_lock", ssid |-> s] \in Steps
  /\ \A u \in SvcTasks, c \in Codes : [at |-> "ras_lock", of |-> u, code |-> c] \in Steps
  /\ \A u \in SvcTasks : [at |-> "ras_break", of |-> u] \in Steps
  /\ \A u \in SvcTasks : [at |-> "ras_end", of |-> u, next |-> Run] \in Steps /\ RasRest(u) \in Steps
  /\ Run \in Steps /\ SelfStep \in Steps /\ [at |-> "exit_lock"] \in Steps
BY DEF Steps, Run, SelfStep, RasRest

\* LockSVC of svc_ientry and of tk_ras_tex.
LEMMA LocksStep ==
  ASSUME SvcInv, NEW t \in SvcTasks, tstat[t] = "READY", ~klockwait(t), pc[t].at \in LockPlaces,
         NEW l, l = LockOf(t, pc[t]), NEW a, LeadsTo(pc[t], a),
         NEW x, x = [pc[t] EXCEPT !.at = a], LockSVC(t, l, x),
         UNCHANGED <<ssycb, tstat, frames, execssid, diswai, texvars, pri>>
  PROVE  SvcInv'
<1>1. /\ TaskOK(t) /\ pc[t] \in Steps /\ pc \in [SvcTasks -> Steps] /\ SvcTypes
  BY TaskParts
<1>2. LockTypes(svclocked, wtskq) /\ LocksInv(svclocked, wtskq, tstat, pc) /\ HoldsAll(svclocked, pc, frames)
  BY DEF SvcInv
<1>3. /\ frames' = frames /\ execssid' = execssid /\ texhdr' = texhdr /\ forgotten' = forgotten /\ texmask' = texmask /\ tstat' = tstat
      /\ pendtex' = pendtex /\ exectex' = exectex /\ texflg' = texflg /\ reqdct' = reqdct
      /\ ssycb' = ssycb /\ diswai' = diswai
  BY DEF texvars
<1>4. /\ LockTypes(svclocked', wtskq') /\ LocksInv(svclocked', wtskq', tstat', pc')
      /\ \A w \in SvcTasks \ {t} : svclocked'[w] = svclocked[w]
      /\ \/ pc' = pc /\ svclocked' = svclocked
         \/ pc' = [pc EXCEPT ![t] = x] /\ Got(t, l, svclocked'[t])
  BY <1>1, <1>2, <1>3, LockKeeps
<1>5. /\ x \in Steps /\ x.at = a /\ (pc[t].at = "ras_lock" => x.of = pc[t].of)
  BY <1>1, NextSteps
<1>6. LocksOK' /\ LocksElse(t)
  BY <1>2, <1>4 DEF LocksOK, LocksElse, HoldsAll
<1>7. pc' \in [SvcTasks -> Steps] /\ Alone(t)
  BY <1>1, <1>3, <1>4, <1>5 DEF Alone
<1>8. SvcTypes'
  BY <1>1, <1>3, <1>7 DEF SvcTypes
<1>9. TaskOK(t)'
  <2>1. CASE pc' = pc /\ svclocked' = svclocked
    BY <1>1, <1>3, <2>1 DEF TaskOK
  <2>2. CASE pc'[t] = x /\ Got(t, l, svclocked'[t])
    <3>1. PlaceOK(t, x, frames[t])
      <4>1. x.at \in {"exit_lock", "exit"} <=> pc[t].at \in {"exit_lock", "exit"}
      BY <1>5 DEF LeadsTo, LockPlaces
    <4>2. pc[t].at # "run" /\ PlaceOK(t, pc[t], frames[t])
      BY <1>1 DEF TaskOK, LockPlaces
    <4>. QED  BY <4>1, <4>2, PlaceMoves
    <3>2. HoldsOK(t, x, frames[t], svclocked'[t])
      <4>1. a = "ras" => l = x.of /\ x.of \in SvcTasks
        BY <1>1, <1>5, StepParts DEF LockOf, LeadsTo
      <4>2. /\ a # "ras" => l = t
            /\ a \in {"enter_check", "enter", "exit", "ras"} /\ (a = "enter" => pc[t].at = "enter_check")
        BY DEF LockOf, LeadsTo
      <4>3. \A u : ~Breaks(x, frames[t], u)
        BY <1>5, <4>2 DEF Breaks
      <4>. QED  BY <1>5, <2>2, <4>1, <4>2, <4>3 DEF HoldsOK, Got, Own, Raises
    <3>. QED  BY <1>1, <1>3, <2>2, <3>1, <3>2 DEF TaskOK
  <2>. QED  BY <1>1, <1>4, <2>1, <2>2
<1>. QED  BY <1>6, <1>7, <1>8, <1>9, OneMoves

\* svc_ientry takes the lock of its task, to enter and to leave.
LEMMA SvcLockKeeps ==
  ASSUME SvcInv, NEW t \in SvcTasks, SvcLock(t)  PROVE SvcInv'
<1>1. tstat[t] = "READY" /\ ~klockwait(t) /\ UNCHANGED <<ssycb, tstat, frames, execssid, diswai, texvars, pri>>
  BY DEF SvcLock, at
<1>2. CASE at(t, "enter_lock") /\ LockSVC(t, t, [pc[t] EXCEPT !.at = "enter_check"])
  <2>1. LeadsTo(pc[t], "enter_check") /\ t = LockOf(t, pc[t]) /\ pc[t].at \in LockPlaces
    BY <1>2 DEF at, LockOf, LockPlaces, LeadsTo
  <2>. QED  BY <1>1, <1>2, <2>1, LocksStep
<1>3. CASE at(t, "exit_lock") /\ LockSVC(t, t, [pc[t] EXCEPT !.at = "exit"])
  <2>1. LeadsTo(pc[t], "exit") /\ t = LockOf(t, pc[t]) /\ pc[t].at \in LockPlaces
    BY <1>3 DEF at, LockOf, LockPlaces, LeadsTo
  <2>. QED  BY <1>1, <1>3, <2>1, LocksStep
<1>. QED  BY <1>2, <1>3 DEF SvcLock

\* tk_ras_tex takes the lock of the task it raises an exception on.
LEMMA RasLockKeeps ==
  ASSUME SvcInv, NEW t \in SvcTasks, RasLock(t)  PROVE SvcInv'
<1>1. tstat[t] = "READY" /\ ~klockwait(t) /\ UNCHANGED <<ssycb, tstat, frames, execssid, diswai, texvars, pri>>
  BY DEF RasLock, at
<1>2. LeadsTo(pc[t], "ras") /\ pc[t].of = LockOf(t, pc[t]) /\ pc[t].at \in LockPlaces
  BY DEF RasLock, at, LockOf, LockPlaces, LeadsTo
<1>3. LockSVC(t, pc[t].of, [pc[t] EXCEPT !.at = "ras"])
  BY DEF RasLock
<1>. QED  BY <1>1, <1>2, <1>3, LocksStep

-----------------------------------------------------------------------------
(* The steps of the tasks, one after the other: extended SVCs.             *)

\* tk_dis_wai may have disabled them meanwhile.
LEMMA SvcCheckKeeps ==
  ASSUME SvcInv, NEW t \in SvcTasks, SvcCheck(t)  PROVE SvcInv'
<1>1. /\ pc[t].at = "enter_check" /\ ~klockwait(t) /\ tstat' = tstat
      /\ frames' = frames /\ execssid' = execssid /\ texhdr' = texhdr /\ forgotten' = forgotten /\ texmask' = texmask
      /\ pendtex' = pendtex /\ exectex' = exectex /\ texflg' = texflg /\ reqdct' = reqdct
      /\ ssycb' = ssycb /\ diswai' = diswai
  BY DEF SvcCheck, at, texvars
<1>2. /\ SvcTypes /\ TaskOK(t) /\ pc[t] \in Steps /\ frames[t] \in Seq(Frames) /\ pc \in [SvcTasks -> Steps]
  BY TaskParts
<1>3. PlaceOK(t, pc[t], frames[t]) /\ svclocked[t] = One(t)
  BY <1>1, <1>2 DEF TaskOK, HoldsOK
<1>4. Room(t, frames[t])
  BY <1>1, <1>3, RoomInCall
<1>5. CASE diswai[t] /\ UnlockSVC(t) /\ goto(t, Run)
  <2>1. LocksOK' /\ LocksElse(t) /\ svclocked'[t] = None
    BY <1>1, <1>3, <1>5, Unlocks DEF Own
  <2>2. pc' = [pc EXCEPT ![t] = Run] /\ Run \in Steps /\ Run.at = "run"
    BY <1>5, NewSteps DEF goto, Run
  <2>3. PlaceOK(t, Run, frames[t])
    BY <1>2, <1>4, <2>2, PlaceWithRoom
  <2>4. HoldsOK(t, Run, frames[t], None)
    <3>1. Calm(t, Run, frames[t])
      BY <1>1, <1>2, <1>3, CalmInCall
    <3>. QED  BY <2>2, <3>1, CalmHolds DEF Own
  <2>5. SvcTypes' /\ Alone(t)
    BY <1>1, <1>2, <2>2 DEF SvcTypes, Alone
  <2>6. TaskOK(t)'
    BY <1>1, <1>2, <2>1, <2>2, <2>3, <2>4 DEF TaskOK
  <2>. QED  BY <2>1, <2>5, <2>6, OneMoves
<1>6. CASE goto(t, [pc[t] EXCEPT !.at = "enter"]) /\ UNCHANGED lockvars
  <2>. PICK x : x = [pc[t] EXCEPT !.at = "enter"]
    OBVIOUS
  <2>1. x \in Steps /\ x.at = "enter"
    BY <1>1, <1>2, NextSteps DEF LeadsTo
  <2>2. LocksOK' /\ LocksElse(t) /\ svclocked'[t] = svclocked[t]
    BY <1>1, <1>6, GoesOn
  <2>3. pc' = [pc EXCEPT ![t] = x]
    BY <1>6 DEF goto
  <2>4. PlaceOK(t, x, frames[t])
    BY <1>1, <1>3, <2>1, PlaceMoves
  <2>5. HoldsOK(t, x, frames[t], One(t))
    BY <2>1 DEF HoldsOK, Own, Breaks
  <2>6. SvcTypes' /\ Alone(t)
    BY <1>1, <1>2, <2>1, <2>3 DEF SvcTypes, Alone
  <2>7. TaskOK(t)'
    BY <1>1, <1>2, <1>3, <2>2, <2>3, <2>4, <2>5 DEF TaskOK
  <2>. QED  BY <2>2, <2>6, <2>7, OneMoves
<1>. QED  BY <1>5, <1>6 DEF SvcCheck

\* What is saved when an extended SVC is entered.
LEMMA SvcEnterKeeps ==
  ASSUME SvcInv, NEW t \in SvcTasks, SvcEnter(t)  PROVE SvcInv'
<1>a. PICK f : f = [f |-> "svc", ssid |-> pc[t].ssid, breaks |-> 0, save_execssid |-> execssid[t],
                   save_waitmask |-> diswai[t], save_exectex |-> exectex[t]]
  OBVIOUS
<1>b. PICK fr, ex : fr = frames[t] /\ ex = exectex[t]
  OBVIOUS
<1>c. PICK r : r = Append(fr, f)
  OBVIOUS
<1>d. PICK ex2 : ex2 = IF execssid[t].ran THEN {} ELSE exectex[t]
  OBVIOUS
<1>e. PICK en : en = [ssid |-> pc[t].ssid, ran |-> FALSE]
  OBVIOUS
<1>1. /\ pc[t].at = "enter" /\ ~klockwait(t) /\ tstat' = tstat /\ goto(t, Run) /\ UnlockSVC(t)
      /\ texhdr' = texhdr /\ forgotten' = forgotten /\ texmask' = texmask /\ pendtex' = pendtex /\ texflg' = texflg
      /\ reqdct' = reqdct /\ ssycb' = ssycb
  BY DEF SvcEnter, at
<1>2. /\ frames' = [frames EXCEPT ![t] = r] /\ execssid' = [execssid EXCEPT ![t] = en]
      /\ diswai' = [diswai EXCEPT ![t] = FALSE] /\ exectex' = [exectex EXCEPT ![t] = ex2]
  BY <1>a, <1>b, <1>c, <1>d, <1>e DEF SvcEnter, push
<1>3. /\ SvcTypes /\ TaskOK(t) /\ pc[t] \in Steps /\ fr \in Seq(Frames) /\ pc \in [SvcTasks -> Steps]
      /\ execssid[t] \in Execs /\ diswai[t] \in BOOLEAN /\ ex \in SUBSET Codes
      /\ BrokenOK(fr, execssid[t])
      /\ TexOK(fr, texhdr[t], forgotten[t], texmask[t], pendtex[t], ex, texflg[t], reqdct[t])
  BY <1>b, TaskParts DEF TaskOK
<1>4. PlaceOK(t, pc[t], fr) /\ svclocked[t] = One(t)
  BY <1>1, <1>3, <1>b DEF TaskOK, HoldsOK
<1>5. /\ f \in SvcFrames /\ f \in Frames /\ f.save_execssid = execssid[t] /\ f.breaks = 0
      /\ f.f = "svc" /\ f.save_exectex = ex /\ en \in Execs
  <2>1. pc[t].ssid \in Ssids
    BY <1>1, <1>3, StepParts
  <2>. QED  BY <1>3, <1>a, <1>b, <1>e, <2>1 DEF SvcFrames, Frames, Execs
<1>6. /\ r \in Seq(Frames) /\ r # <<>> /\ Last(r) = f
  <2>1. fr \in Seq(Frames) /\ f \in Frames
    BY <1>3, <1>5
  <2>. QED  BY <1>c, <2>1, Entered
<1>7. LocksOK' /\ LocksElse(t) /\ svclocked'[t] = None
  BY <1>1, <1>4, Unlocks DEF Own
<1>8. pc' = [pc EXCEPT ![t] = Run] /\ Run \in Steps /\ Run.at = "run"
  BY <1>1, NewSteps DEF goto, Run
<1>9. PlaceOK(t, Run, r)
  <2>1. Room(t, fr)
    BY <1>1, <1>4, RoomInCall
  <2>. QED  BY <1>3, <1>5, <1>8, <1>c, <2>1, PlacePushed
<1>10. HoldsOK(t, Run, r, None)
  <2>1. Calm(t, Run, r)
    BY <1>5, <1>6, CalmElse
  <2>. QED  BY <1>8, <2>1, CalmHolds DEF Own
<1>11. BrokenOK(r, en)
  BY <1>3, <1>5, <1>c, SvcPushed
<1>12. TexOK(r, texhdr[t], forgotten[t], texmask[t], pendtex[t], ex2, texflg[t], reqdct[t])
  <2>1. ex2 \in SUBSET ex
    BY <1>d, <1>b
  <2>2. Carried(r, ex2) = Carried(fr, ex)
    BY <1>3, <1>5, <1>c, <2>1, SvcPushedTex, ZenonT(60)
  <2>3. \A i \in DOMAIN r : r[i].f \in {"ssfn", "brk"} => r[i].save_texflg \cap Tex = texflg[t] \cap Tex
    <3>1. /\ DOMAIN fr = 1..Len(fr) /\ DOMAIN r = 1..Len(fr) + 1
          /\ r[Len(fr) + 1] = f /\ Len(fr) \in Nat
          /\ \A i \in 1..Len(fr) : r[i] = fr[i]
      BY <1>3, <1>5, <1>c, Entered
    <3>2. \A i \in DOMAIN fr : fr[i].f \in {"ssfn", "brk"} =>
             fr[i].save_texflg \cap Tex = texflg[t] \cap Tex
      BY <1>3 DEF TexOK
    <3>3. \A n \in Nat : \A i \in 1..n + 1 : i \in 1..n \/ i = n + 1
      OBVIOUS
    <3>. QED  BY <1>5, <3>1, <3>2, <3>3
  <2>. QED  BY <1>3, <2>2, <2>3, TexFrames
<1>13. SvcTypes'
  <2>1. ex2 \in SUBSET Codes
    BY <1>3, <1>d, <1>b
  <2>. QED  BY <1>1, <1>2, <1>3, <1>5, <1>6, <1>8, <2>1 DEF SvcTypes
<1>14. Alone(t)
  BY <1>1, <1>2, <1>3, <1>8 DEF Alone, SvcTypes
<1>15. TaskOK(t)'
  <2>1. /\ pc'[t] = Run /\ frames'[t] = r /\ execssid'[t] = en /\ exectex'[t] = ex2
    BY <1>2, <1>3, <1>8 DEF SvcTypes
  <2>. QED  BY <1>1, <1>7, <1>9, <1>10, <1>11, <1>12, <2>1 DEF TaskOK
<1>. QED  BY <1>7, <1>13, <1>14, <1>15, OneMoves

\* Where frames, flags and exceptions are as before.
LEMMA OnlyGoes ==
  ASSUME SvcInv, NEW t \in SvcTasks, NEW x \in Steps, goto(t, x), LocksOK', LocksElse(t),
         PlaceOK(t, x, frames[t]), HoldsOK(t, x, frames[t], svclocked'[t]),
         UNCHANGED <<ssycb, tstat, frames, execssid, diswai, texvars>>
  PROVE  SvcInv'
<1>1. /\ tstat' = tstat /\ pc' = [pc EXCEPT ![t] = x]
      /\ frames' = frames /\ execssid' = execssid /\ texhdr' = texhdr /\ forgotten' = forgotten /\ texmask' = texmask
      /\ pendtex' = pendtex /\ exectex' = exectex /\ texflg' = texflg /\ reqdct' = reqdct
      /\ ssycb' = ssycb /\ diswai' = diswai
  BY DEF goto, texvars
<1>2. SvcTypes /\ TaskOK(t) /\ pc \in [SvcTasks -> Steps]
  BY TaskParts
<1>3. SvcTypes'
  BY <1>1, <1>2 DEF SvcTypes
<1>4. Alone(t)
  BY <1>1, <1>2 DEF Alone
<1>5. TaskOK(t)'
  BY <1>1, <1>2 DEF TaskOK
<1>. QED  BY <1>3, <1>4, <1>5, OneMoves

\* A call starts where the handlers allow it.
LEMMA CallStarts ==
  ASSUME SvcInv, NEW t \in SvcTasks, may_call(t), NEW x \in Steps, goto(t, x),
         x.at \in {"enter_lock", "ras_lock", "self_break"},
         UNCHANGED <<ssycb, tstat, frames, lockvars, execssid, diswai, texvars>>
  PROVE  SvcInv'
<1>1. /\ TaskOK(t) /\ frames[t] \in Seq(Frames)
  BY TaskParts
<1>2. /\ Room(t, frames[t]) /\ Calm(t, pc[t], frames[t])
  BY <1>1, RoomToCall DEF TaskOK
<1>3. ~klockwait(t) /\ pc[t].at = "run"
  BY DEF may_call, at
<1>4. LocksOK' /\ LocksElse(t) /\ svclocked'[t] = svclocked[t]
  BY <1>3, GoesOn
<1>5. Own(t, svclocked[t])
  BY <1>1, <1>2, <1>3, OwnLock DEF TaskOK
<1>6. PlaceOK(t, x, frames[t])
  BY <1>1, <1>2, PlaceWithRoom
<1>7. Calm(t, x, frames[t])
  BY CalmElse
<1>8. HoldsOK(t, x, frames[t], svclocked[t])
  BY <1>5, <1>7, CalmHolds
<1>. QED  BY <1>4, <1>6, <1>8, OnlyGoes

\* An extended SVC is called.
LEMMA SvcCallKeeps ==
  ASSUME SvcInv, NEW t \in SvcTasks, NEW s \in Ssids, SvcCall(t, s)  PROVE SvcInv'
<1>. PICK x : x = [at |-> "enter_lock", ssid |-> s]
  OBVIOUS
<1>1. x \in Steps /\ x.at = "enter_lock"
  BY NewSteps
<1>. QED  BY <1>1, CallStarts DEF SvcCall

\* tk_ras_tex is called.
LEMMA RasCallKeeps ==
  ASSUME SvcInv, NEW t \in SvcTasks, NEW u \in SvcTasks, NEW c \in Codes, RasCall(t, u, c)  PROVE SvcInv'
<1>. PICK x : x = [at |-> "ras_lock", of |-> u, code |-> c]
  OBVIOUS
<1>1. x \in Steps /\ x.at = "ras_lock"
  BY NewSteps
<1>. QED  BY <1>1, CallStarts DEF RasCall

\* The handler of an extended SVC returns to svc_ientry.
LEMMA SvcHandlerReturnsKeeps ==
  ASSUME SvcInv, NEW t \in SvcTasks, SvcHandlerReturns(t)  PROVE SvcInv'
<1>. PICK x, fr : x = [at |-> "exit_lock"] /\ fr = frames[t]
  OBVIOUS
<1>1. /\ TaskOK(t) /\ fr \in Seq(Frames)
  BY TaskParts
<1>2. /\ ~klockwait(t) /\ pc[t].at = "run" /\ fr # <<>> /\ Last(fr).f = "svc" /\ goto(t, x) /\ tstat' = tstat
      /\ UNCHANGED <<ssycb, tstat, frames, lockvars, execssid, diswai, texvars>> /\ UNCHANGED lockvars
  BY DEF SvcHandlerReturns, at, in
<1>3. LocksOK' /\ LocksElse(t) /\ svclocked'[t] = svclocked[t]
  BY <1>2, GoesOn
<1>4. x \in Steps /\ x.at = "exit_lock"
  BY NewSteps
<1>5. Own(t, svclocked[t])
  <2>1. Calm(t, pc[t], fr)
    BY <1>2, CalmElse
  <2>. QED  BY <1>1, <1>2, <2>1, OwnLock DEF TaskOK
<1>6. PlaceOK(t, x, fr)
  <2>1. DOMAIN fr = 1..Len(fr) /\ Len(fr) \in Nat /\ Last(fr) = fr[Len(fr)]
    BY <1>1, LenProperties DEF Last
  <2>2. \A n \in Nat : \A i \in 1..n : i < n \/ i = n
    OBVIOUS
  <2>3. \A i \in DOMAIN fr : i < Len(fr) \/ i = Len(fr)
    BY <2>1, <2>2
  <2>4. Callable(t, fr[Len(fr)])
    BY <1>2, <2>1 DEF Callable
  <2>5. PlaceOK(t, pc[t], fr)
    BY <1>1 DEF TaskOK
  <2>. QED  BY <1>2, <1>4, <2>3, <2>4, <2>5 DEF PlaceOK
<1>7. Calm(t, x, fr)
  BY <1>4, CalmElse
<1>8. HoldsOK(t, x, fr, svclocked[t])
  BY <1>4, <1>5, <1>7, CalmHolds
<1>. QED  BY <1>2, <1>3, <1>4, <1>6, <1>8, OnlyGoes

\* tk_ras_tex gives the lock back.
LEMMA RasEndKeeps ==
  ASSUME SvcInv, NEW t \in SvcTasks, RasEnd(t)  PROVE SvcInv'
<1>. PICK x, fr : x = pc[t].next /\ fr = frames[t]
  OBVIOUS
<1>1. /\ TaskOK(t) /\ fr \in Seq(Frames) /\ pc[t] \in Steps
  BY TaskParts
<1>2. /\ ~klockwait(t) /\ pc[t].at = "ras_end" /\ goto(t, x) /\ tstat' = tstat /\ UnlockSVC(t)
      /\ UNCHANGED <<ssycb, tstat, frames, execssid, diswai, texvars>>
  BY DEF RasEnd, at
<1>3. LocksOK' /\ LocksElse(t) /\ Own(t, svclocked'[t])
  <2>1. svclocked[t] = None => svclocked'[t] = None
    BY <1>2, Unlocks
  <2>. QED  BY <1>2, <2>1, Unlocks DEF Own
<1>4. x \in {Run, SelfStep} /\ x \in Steps /\ x.at \in {"run", "self_break"}
  <2>1. x \in {Run, SelfStep}
    BY <1>1, <1>2, StepParts
  <2>. QED  BY <2>1, NewSteps DEF Run, SelfStep
<1>5. PlaceOK(t, pc[t], fr) /\ Room(t, fr)
  BY <1>1, <1>2, RoomInCall DEF TaskOK
<1>6. PlaceOK(t, x, fr)
  BY <1>1, <1>4, <1>5, PlaceWithRoom
<1>7. Calm(t, x, fr)
  BY <1>1, <1>2, <1>5, CalmInCall
<1>8. HoldsOK(t, x, fr, svclocked'[t])
  BY <1>3, <1>4, <1>7, CalmHolds
<1>. QED  BY <1>2, <1>3, <1>4, <1>6, <1>8, OnlyGoes


\* The handler entered is the innermost.
LEMMA EnteredLast ==
  ASSUME NEW fr \in Seq(Frames), NEW f \in Frames, NEW r, r = Append(fr, f)
  PROVE  r \in Seq(Frames) /\ r # <<>> /\ Last(r) = f
BY Entered

\* A handler that is no extended SVC is entered, with task exceptions suspended.
Enters(t, fr, f, r, es, hdr, fg, mask, pend, ex, flg, req) ==
    /\ t \in SvcTasks /\ fr \in Seq(Frames) /\ Room(t, fr) /\ BrokenOK(fr, es)
    /\ TexOK(fr, hdr, fg, mask, pend, ex, flg, req)
    /\ f \in Frames /\ f.f # "svc" /\ f.save_texflg = flg /\ r = Append(fr, f)
HasEntered(t, f, r, es, hdr, fg, mask, pend, ex, flg, req) ==
    /\ r \in Seq(Frames) /\ r # <<>> /\ Last(r) = f /\ BrokenOK(r, es)
    /\ \A q : q.at = "run" => PlaceOK(t, q, r)
    /\ TexOK(r, hdr, fg, mask, pend, ex, flg \cup {"SSFN"}, req)

\* Marks, flags and exceptions are right with it.
LEMMA PushedOK ==
  ASSUME NEW t, NEW fr, NEW f, NEW r, NEW es, NEW hdr, NEW fg, NEW mask, NEW pend, NEW ex, NEW flg, NEW req,
         Enters(t, fr, f, r, es, hdr, fg, mask, pend, ex, flg, req)
  PROVE  HasEntered(t, f, r, es, hdr, fg, mask, pend, ex, flg, req)
<1>a. PICK flg2 : flg2 = flg \cup {"SSFN"}
  OBVIOUS
<1>. /\ t \in SvcTasks /\ fr \in Seq(Frames) /\ Room(t, fr) /\ BrokenOK(fr, es)
     /\ TexOK(fr, hdr, fg, mask, pend, ex, flg, req)
     /\ f \in Frames /\ f.f # "svc" /\ f.save_texflg = flg /\ r = Append(fr, f)
  BY DEF Enters
<1>1. r \in Seq(Frames) /\ r # <<>> /\ Last(r) = f
  BY EnteredLast, Zenon
<1>2. (\A q : q.at = "run" => PlaceOK(t, q, r)) /\ BrokenOK(r, es) /\ Carried(r, ex) = Carried(fr, ex)
  BY PlacePushed, OtherPushed, OtherTex, ZenonT(60)
<1>3. flg2 \cap Tex = flg \cap Tex
  BY <1>a DEF Tex
<1>4. \A i \in DOMAIN r : r[i].f \in {"ssfn", "brk"} => r[i].save_texflg \cap Tex = flg \cap Tex
  <2>1. /\ DOMAIN fr = 1..Len(fr) /\ DOMAIN r = 1..Len(fr) + 1
        /\ r[Len(fr) + 1] = f /\ Len(fr) \in Nat /\ \A i \in 1..Len(fr) : r[i] = fr[i]
    BY Entered
  <2>2. \A i \in DOMAIN fr : fr[i].f \in {"ssfn", "brk"} => fr[i].save_texflg \cap Tex = flg \cap Tex
    BY DEF TexOK
  <2>3. \A n \in Nat : \A i \in 1..n + 1 : i \in 1..n \/ i = n + 1
    OBVIOUS
  <2>. QED  BY <2>1, <2>2, <2>3
<1>5. TexOK(r, hdr, fg, mask, pend, ex, flg2, req)
  BY <1>2, <1>3, <1>4, TexFrames
<1>. QED  BY <1>1, <1>2, <1>5, <1>a DEF HasEntered

\* A handler is left, with the flags, the mark and the exceptions it saved.
Leaves(fr, r, e, es, hdr, fg, mask, pend, ex, flg, req) ==
    /\ fr \in Seq(Frames) /\ fr # <<>> /\ r = Front(fr) /\ e = Last(fr) /\ BrokenOK(fr, es)
    /\ TexOK(fr, hdr, fg, mask, pend, ex, flg, req)
HasLeft(r, e, es, hdr, fg, mask, pend, ex, flg, req) ==
    /\ r \in Seq(Frames) /\ e \in Frames
    /\ e.f = "svc" => /\ BrokenOK(r, e.save_execssid)
                      /\ TexOK(r, hdr, fg, mask, pend, ex \cup e.save_exectex, flg, req)
    /\ e.f # "svc" => BrokenOK(r, es) /\ TexOK(r, hdr, fg, mask, pend, ex, e.save_texflg, req)

\* They are right again without it.
LEMMA PoppedOK ==
  ASSUME NEW fr, NEW es, NEW hdr, NEW fg, NEW mask, NEW pend, NEW ex, NEW flg, NEW req, NEW r, NEW e,
         Leaves(fr, r, e, es, hdr, fg, mask, pend, ex, flg, req)
  PROVE  HasLeft(r, e, es, hdr, fg, mask, pend, ex, flg, req)
<1>. fr \in Seq(Frames) /\ fr # <<>> /\ r = Front(fr) /\ e = Last(fr) /\ BrokenOK(fr, es)
     /\ TexOK(fr, hdr, fg, mask, pend, ex, flg, req)
  BY DEF Leaves
<1>a. PICK ex2, flg2 : IF e.f = "svc" THEN ex2 = ex \cup e.save_exectex /\ flg2 = flg
                       ELSE ex2 = ex /\ flg2 = e.save_texflg
  OBVIOUS
<1>1. /\ r \in Seq(Frames) /\ DOMAIN fr = 1..Len(fr) /\ DOMAIN r = 1..Len(fr) - 1 /\ Len(fr) \in Nat
      /\ 1 <= Len(fr) /\ e = fr[Len(fr)] /\ e \in Frames /\ \A i \in 1..Len(fr) - 1 : r[i] = fr[i]
  BY Left
<1>2. BrokenOK(r, IF e.f = "svc" THEN e.save_execssid ELSE es)
  <2>1. CASE e.f = "svc"
    BY <2>1, SvcPopped
  <2>2. CASE e.f # "svc"
    BY <2>2, OtherPopped
  <2>. QED  BY <2>1, <2>2
<1>3. Carried(r, ex2) = Carried(fr, ex)
  <2>1. CASE e.f = "svc"
    <3>1. Carried(r, ex \cup e.save_exectex) = Carried(fr, ex)
      BY <2>1, SvcPoppedTex
    <3>. QED  BY <1>a, <2>1, <3>1
  <2>2. CASE e.f # "svc"
    <3>1. Carried(r, ex) = Carried(fr, ex)
      BY <2>2, OtherPoppedTex
    <3>. QED  BY <1>a, <2>2, <3>1
  <2>. QED  BY <2>1, <2>2
<1>4. \A i \in DOMAIN fr : fr[i].f \in {"ssfn", "brk"} => fr[i].save_texflg \cap Tex = flg \cap Tex
  BY DEF TexOK
<1>5. flg2 \cap Tex = flg \cap Tex
  <2>1. Len(fr) \in DOMAIN fr
    <3>1. \A n \in Nat : 1 <= n => n \in 1..n
      OBVIOUS
    <3>. QED  BY <1>1, <3>1
  <2>2. e.f # "svc" => e.f \in {"ssfn", "brk"}
    BY <1>1, FrameParts
  <2>. QED  BY <1>1, <1>4, <1>a, <2>1, <2>2
<1>6. \A i \in DOMAIN r : r[i].f \in {"ssfn", "brk"} => r[i].save_texflg \cap Tex = flg \cap Tex
  <2>1. \A n \in Nat : \A i \in 1..n - 1 : i \in 1..n
    OBVIOUS
  <2>. QED  BY <1>1, <1>4, <2>1
<1>7. TexOK(r, hdr, fg, mask, pend, ex2, flg2, req)
  BY <1>3, <1>5, <1>6, TexFrames
<1>. QED  BY <1>1, <1>2, <1>7, <1>a DEF HasLeft

\* An extended SVC ends.
LEMMA SvcExitKeeps ==
  ASSUME SvcInv, NEW t \in SvcTasks, SvcExit(t)  PROVE SvcInv'
<1>a. PICK fr, e, r : fr = frames[t] /\ e = Last(fr) /\ r = Front(fr)
  OBVIOUS
<1>b. PICK ex, ex2 : ex = exectex[t] /\ ex2 = ex \cup e.save_exectex
  OBVIOUS
<1>1. /\ pc[t].at = "exit" /\ ~klockwait(t) /\ tstat' = tstat /\ goto(t, SelfStep) /\ UnlockSVC(t)
      /\ texhdr' = texhdr /\ forgotten' = forgotten /\ texmask' = texmask /\ pendtex' = pendtex /\ texflg' = texflg
      /\ reqdct' = reqdct /\ ssycb' = ssycb
  BY DEF SvcExit, at, SelfStep
<1>2. /\ frames' = [frames EXCEPT ![t] = r] /\ execssid' = [execssid EXCEPT ![t] = e.save_execssid]
      /\ diswai' = [diswai EXCEPT ![t] = e.save_waitmask] /\ exectex' = [exectex EXCEPT ![t] = ex2]
  BY <1>a, <1>b DEF SvcExit, pop, restored_execssid, restored_exectex
<1>3. /\ SvcTypes /\ TaskOK(t) /\ pc[t] \in Steps /\ fr \in Seq(Frames) /\ pc \in [SvcTasks -> Steps]
      /\ ex \in SUBSET Codes
  BY <1>a, <1>b, TaskParts
<1>4. /\ PlaceOK(t, pc[t], fr) /\ svclocked[t] = One(t) /\ BrokenOK(fr, execssid[t])
      /\ TexOK(fr, texhdr[t], forgotten[t], texmask[t], pendtex[t], ex, texflg[t], reqdct[t])
  BY <1>1, <1>3, <1>a, <1>b DEF TaskOK, HoldsOK
<1>5. /\ fr # <<>> /\ e.f = "svc"
  BY <1>1, <1>4, <1>a DEF PlaceOK
<1>6. e.save_execssid \in Execs /\ e.save_waitmask \in BOOLEAN /\ ex2 \in SUBSET Codes
  <2>1. e \in Frames
    BY <1>3, <1>5, <1>a, Left
  <2>2. e \in SvcFrames
    BY <1>5, <2>1, FrameParts
  <2>. QED  BY <1>3, <1>b, <2>2 DEF SvcFrames
<1>7. LocksOK' /\ LocksElse(t) /\ svclocked'[t] = None
  BY <1>1, <1>4, Unlocks DEF Own
<1>8. pc' = [pc EXCEPT ![t] = SelfStep] /\ SelfStep \in Steps /\ SelfStep.at = "self_break"
  BY <1>1, NewSteps DEF goto, SelfStep
<1>9. /\ r \in Seq(Frames) /\ PlaceOK(t, SelfStep, r) /\ Calm(t, SelfStep, r) /\ BrokenOK(r, e.save_execssid)
      /\ TexOK(r, texhdr[t], forgotten[t], texmask[t], pendtex[t], ex2, texflg[t], reqdct[t])
  <2>1. PlaceOK(t, SelfStep, r) /\ Calm(t, SelfStep, r)
    BY <1>3, <1>4, <1>5, <1>8, <1>a, PlacePopped, CalmPopped
  <2>2. Leaves(fr, r, e, execssid[t], texhdr[t], forgotten[t], texmask[t], pendtex[t], ex, texflg[t], reqdct[t])
    BY <1>3, <1>4, <1>5, <1>a DEF Leaves
  <2>3. HasLeft(r, e, execssid[t], texhdr[t], forgotten[t], texmask[t], pendtex[t], ex, texflg[t], reqdct[t])
    BY <2>2, PoppedOK
  <2>. QED  BY <1>5, <1>b, <2>1, <2>3 DEF HasLeft
<1>10. HoldsOK(t, SelfStep, r, None)
  BY <1>8, <1>9, CalmHolds DEF Own
<1>11. SvcTypes'
  BY <1>1, <1>2, <1>3, <1>6, <1>8, <1>9 DEF SvcTypes
<1>12. Alone(t)
  BY <1>1, <1>2, <1>3, <1>8 DEF Alone, SvcTypes
<1>13. TaskOK(t)'
  <2>1. /\ pc'[t] = SelfStep /\ frames'[t] = r /\ execssid'[t] = e.save_execssid /\ exectex'[t] = ex2
    BY <1>2, <1>3, <1>8 DEF SvcTypes
  <2>. QED  BY <1>1, <1>7, <1>9, <1>10, <2>1 DEF TaskOK
<1>. QED  BY <1>7, <1>11, <1>12, <1>13, OneMoves

\* A subsystem function or a break function returns.
LEMMA OtherReturns ==
  ASSUME SvcInv, NEW t \in SvcTasks, ~klockwait(t), in(t, "ssfn") \/ in(t, "brk"), pop(t),
         NEW x \in Steps, x.at \notin {"exit_lock", "exit"}, goto(t, x),
         texflg' = [texflg EXCEPT ![t] = Last(frames[t]).save_texflg],
         Calm(t, x, Front(frames[t])) => HoldsOK(t, x, Front(frames[t]), svclocked[t]),
         UNCHANGED <<ssycb, tstat, lockvars, execssid, diswai, texhdr, forgotten, texmask, pendtex, exectex, reqdct>>
  PROVE  SvcInv'
<1>a. PICK fr, e, r : fr = frames[t] /\ e = Last(fr) /\ r = Front(fr)
  OBVIOUS
<1>1. /\ tstat' = tstat /\ pc' = [pc EXCEPT ![t] = x] /\ frames' = [frames EXCEPT ![t] = r]
      /\ texflg' = [texflg EXCEPT ![t] = e.save_texflg] /\ lockvars' = lockvars
      /\ execssid' = execssid /\ texhdr' = texhdr /\ forgotten' = forgotten /\ texmask' = texmask
      /\ pendtex' = pendtex /\ exectex' = exectex /\ reqdct' = reqdct
      /\ ssycb' = ssycb /\ diswai' = diswai
  BY <1>a DEF goto, pop, in
<1>2. /\ SvcTypes /\ TaskOK(t) /\ fr \in Seq(Frames) /\ pc \in [SvcTasks -> Steps]
  BY <1>a, TaskParts
<1>3. /\ fr # <<>> /\ e.f \in {"ssfn", "brk"} /\ e.f # "svc"
  BY <1>a DEF in
<1>4. /\ PlaceOK(t, pc[t], fr) /\ BrokenOK(fr, execssid[t])
      /\ TexOK(fr, texhdr[t], forgotten[t], texmask[t], pendtex[t], exectex[t], texflg[t], reqdct[t])
  BY <1>2, <1>a DEF TaskOK
<1>5. LocksOK' /\ LocksElse(t) /\ svclocked'[t] = svclocked[t]
  BY <1>1, GoesOn
<1>6. PlaceOK(t, x, r) /\ Calm(t, x, r)
  BY <1>2, <1>3, <1>4, <1>a, PlacePopped, CalmPopped
<1>7. HasLeft(r, e, execssid[t], texhdr[t], forgotten[t], texmask[t], pendtex[t], exectex[t], texflg[t], reqdct[t])
  <2>1. Leaves(fr, r, e, execssid[t], texhdr[t], forgotten[t], texmask[t], pendtex[t], exectex[t], texflg[t], reqdct[t])
    BY <1>2, <1>3, <1>4, <1>a DEF Leaves
  <2>. QED  BY <2>1, PoppedOK
<1>8. /\ r \in Seq(Frames) /\ BrokenOK(r, execssid[t]) /\ e.save_texflg \in SUBSET Flags
      /\ TexOK(r, texhdr[t], forgotten[t], texmask[t], pendtex[t], exectex[t], e.save_texflg, reqdct[t])
  <2>1. e \in Frames
    BY <1>7 DEF HasLeft
  <2>2. e.save_texflg \in SUBSET Flags
    BY <1>3, <2>1, FrameParts DEF SsfnFrames, BrkFrames
  <2>. QED  BY <1>3, <1>7, <2>2 DEF HasLeft
<1>9. HoldsOK(t, x, r, svclocked[t])
  BY <1>6, <1>a
<1>10. SvcTypes'
  BY <1>1, <1>2, <1>8 DEF SvcTypes
<1>11. Alone(t)
  BY <1>1, <1>2 DEF Alone, SvcTypes
<1>12. TaskOK(t)'
  <2>1. pc'[t] = x /\ frames'[t] = r /\ texflg'[t] = e.save_texflg
    BY <1>1, <1>2 DEF SvcTypes
  <2>. QED  BY <1>1, <1>5, <1>6, <1>8, <1>9, <2>1 DEF TaskOK
<1>. QED  BY <1>5, <1>10, <1>11, <1>12, OneMoves

\* A subsystem function returns.
LEMMA SsfnReturnsKeeps ==
  ASSUME SvcInv, NEW t \in SvcTasks, SsfnReturns(t)  PROVE SvcInv'
<1>1. /\ ~klockwait(t) /\ pc[t].at = "run" /\ in(t, "ssfn") /\ pop(t) /\ goto(t, SelfStep)
      /\ texflg' = [texflg EXCEPT ![t] = Last(frames[t]).save_texflg]
      /\ UNCHANGED <<ssycb, tstat, lockvars, execssid, diswai, texhdr, forgotten, texmask, pendtex, exectex, reqdct>>
  BY DEF SsfnReturns, at, SelfStep
<1>2. SelfStep \in Steps /\ SelfStep.at = "self_break"
  BY NewSteps DEF SelfStep
<1>3. Own(t, svclocked[t])
  <2>1. Calm(t, pc[t], frames[t])
    BY <1>1, CalmElse DEF in
  <2>. QED  BY <1>1, <2>1, TaskParts, OwnLock DEF TaskOK
<1>4. Calm(t, SelfStep, Front(frames[t])) => HoldsOK(t, SelfStep, Front(frames[t]), svclocked[t])
  BY <1>2, <1>3, CalmHolds
<1>. QED  BY <1>1, <1>2, <1>4, OtherReturns

\* After a break function that tk_ras_tex called, its lock is given back.
LEMMA BreakReturnsKeeps ==
  ASSUME SvcInv, NEW t \in SvcTasks, BreakReturns(t)  PROVE SvcInv'
<1>a. PICK e, x, fr : fr = frames[t] /\ e = Last(fr) /\ x = e.next
  OBVIOUS
<1>1. /\ ~klockwait(t) /\ pc[t].at = "run" /\ in(t, "brk") /\ pop(t) /\ goto(t, x)
      /\ texflg' = [texflg EXCEPT ![t] = Last(frames[t]).save_texflg]
      /\ UNCHANGED <<ssycb, tstat, lockvars, execssid, diswai, texhdr, forgotten, texmask, pendtex, exectex, reqdct>>
  BY <1>a DEF BreakReturns, at
<1>2. fr # <<>> /\ e \in BrkFrames
  <2>1. fr # <<>> /\ e.f = "brk"
    BY <1>1, <1>a DEF in
  <2>2. fr \in Seq(Frames)
    BY <1>a, TaskParts
  <2>3. e \in Frames
    BY <2>1, <2>2, <1>a, Left
  <2>. QED  BY <2>1, <2>3, FrameParts
<1>3. /\ x \in Steps /\ x \in {Run, RasRest(e.of)} /\ e.of \in SvcTasks
  BY <1>2, <1>a DEF BrkFrames
<1>4. x.at \in {"run", "ras_end"} /\ (x # Run => x.at = "ras_end" /\ x.of = e.of)
  BY <1>3 DEF Run, RasRest
<1>5. HoldsOK(t, pc[t], fr, svclocked[t])
  BY <1>a, TaskParts DEF TaskOK
<1>6. Calm(t, x, Front(fr)) => HoldsOK(t, x, Front(fr), svclocked[t])
  <2>1. CASE x = Run
    <3>1. Calm(t, pc[t], fr)
      BY <1>a, <2>1, CalmElse
    <3>2. Own(t, svclocked[t])
      BY <1>1, <1>5, <3>1, OwnLock
    <3>. QED  BY <1>4, <3>2, CalmHolds
  <2>2. CASE x # Run
    <3>1. Own(t, svclocked[t]) \/ \E u \in SvcTasks \ {t} : OnTop(t, u, svclocked[t]) /\ Raises(pc[t], fr, u)
      BY <1>5 DEF HoldsOK
    <3>2. \A u : Raises(pc[t], fr, u) => u = e.of
      BY <1>1, <1>a DEF Raises, Breaks
    <3>3. \A u : Raises(x, Front(fr), u) <=> u = e.of
      BY <1>4, <2>2 DEF Raises, Breaks
    <3>4. \A u : ~Breaks(x, Front(fr), u)
      BY <1>4, <2>2 DEF Breaks
    <3>. QED  BY <1>4, <2>2, <3>1, <3>2, <3>3, <3>4 DEF HoldsOK
  <2>. QED  BY <2>1, <2>2
<1>7. x.at \notin {"exit_lock", "exit"}
  BY <1>4
<1>. QED  BY <1>1, <1>3, <1>6, <1>7, <1>a, OtherReturns


\* A subsystem function is called, if the subsystem is defined.
LEMMA SsfnCallKeeps ==
  ASSUME SvcInv, NEW t \in SvcTasks, NEW s \in Ssids, SsfnCall(t, s)  PROVE SvcInv'
<1>1. CASE ssycb[s] = "undefined"
  <2>1. goto(t, SelfStep) /\ may_call(t) /\ frames' = frames /\ texflg' = texflg
        /\ UNCHANGED <<ssycb, tstat, lockvars, execssid, diswai, texhdr, forgotten, texmask, pendtex, exectex, reqdct>>
    BY <1>1 DEF SsfnCall, SelfStep
  <2>2. UNCHANGED <<ssycb, tstat, frames, lockvars, execssid, diswai, texvars>>
    BY <2>1 DEF texvars
  <2>3. SelfStep \in Steps /\ SelfStep.at = "self_break"
    BY NewSteps DEF SelfStep
  <2>. QED  BY <2>1, <2>2, <2>3, CallStarts
<1>2. CASE ssycb[s] # "undefined"
  <2>a. PICK fr, flg, p : fr = frames[t] /\ flg = texflg[t] /\ p = pc[t]
    OBVIOUS
  <2>b. PICK f : f = [f |-> "ssfn", save_texflg |-> flg]
    OBVIOUS
  <2>c. PICK r : r = Append(fr, f)
    OBVIOUS
  <2>1. /\ tstat' = tstat /\ pc' = pc /\ frames' = [frames EXCEPT ![t] = r]
        /\ texflg' = [texflg EXCEPT ![t] = flg \cup {"SSFN"}] /\ lockvars' = lockvars
        /\ execssid' = execssid /\ texhdr' = texhdr /\ forgotten' = forgotten /\ texmask' = texmask
        /\ pendtex' = pendtex /\ exectex' = exectex /\ reqdct' = reqdct
        /\ ssycb' = ssycb /\ diswai' = diswai
    BY <1>2, <2>a, <2>b, <2>c DEF SsfnCall, push
  <2>2. /\ SvcTypes /\ TaskOK(t) /\ fr \in Seq(Frames) /\ pc \in [SvcTasks -> Steps] /\ flg \in SUBSET Flags
        /\ PlaceOK(t, p, fr) /\ BrokenOK(fr, execssid[t]) /\ HoldsOK(t, p, fr, svclocked[t])
        /\ TexOK(fr, texhdr[t], forgotten[t], texmask[t], pendtex[t], exectex[t], flg, reqdct[t])
    BY <2>a, TaskParts DEF TaskOK
  <2>3. ~klockwait(t) /\ p.at = "run" /\ may_call(t)
    BY <2>a DEF SsfnCall, may_call, at
  <2>4. Room(t, fr) /\ Calm(t, p, fr) /\ Own(t, svclocked[t])
    <3>1. Room(t, fr) /\ Calm(t, p, fr)
      BY <2>2, <2>3, <2>a, RoomToCall
    <3>. QED  BY <2>2, <2>3, <3>1, OwnLock
  <2>5. f \in Frames /\ f.f = "ssfn" /\ f.save_texflg = flg
    BY <2>2, <2>b DEF Frames, SsfnFrames
  <2>6. HasEntered(t, f, r, execssid[t], texhdr[t], forgotten[t], texmask[t], pendtex[t], exectex[t], flg, reqdct[t])
    <3>1. Enters(t, fr, f, r, execssid[t], texhdr[t], forgotten[t], texmask[t], pendtex[t], exectex[t], flg, reqdct[t])
      BY <2>2, <2>4, <2>5, <2>c DEF Enters
    <3>. QED  BY <3>1, PushedOK
  <2>7. /\ r \in Seq(Frames) /\ r # <<>> /\ Last(r) = f /\ BrokenOK(r, execssid[t]) /\ PlaceOK(t, p, r)
        /\ TexOK(r, texhdr[t], forgotten[t], texmask[t], pendtex[t], exectex[t], flg \cup {"SSFN"}, reqdct[t])
    BY <2>3, <2>6 DEF HasEntered
  <2>8. HoldsOK(t, p, r, svclocked[t])
    <3>1. Calm(t, p, r)
      BY <2>5, <2>7, CalmElse
    <3>. QED  BY <2>3, <2>4, <3>1, CalmHolds
  <2>9. LocksOK' /\ LocksElse(t) /\ svclocked'[t] = svclocked[t]
    <3>1. goto(t, p)
      BY <2>1, <2>2, <2>a DEF goto
    <3>. QED  BY <2>1, <2>3, <3>1, GoesOn
  <2>10. SvcTypes'
    <3>1. flg \cup {"SSFN"} \in SUBSET Flags
      BY <2>2 DEF Flags
    <3>. QED  BY <2>1, <2>2, <2>7, <3>1 DEF SvcTypes
  <2>11. Alone(t)
    BY <2>1, <2>2 DEF Alone, SvcTypes
  <2>12. TaskOK(t)'
    <3>1. pc'[t] = p /\ frames'[t] = r /\ texflg'[t] = flg \cup {"SSFN"}
      BY <2>1, <2>2, <2>a DEF SvcTypes
    <3>. QED  BY <2>1, <2>7, <2>8, <2>9, <3>1 DEF TaskOK
  <2>. QED  BY <2>9, <2>10, <2>11, <2>12, OneMoves
<1>. QED  BY <1>1, <1>2

-----------------------------------------------------------------------------
(* Break functions.                                                        *)

\* The other handlers are as before, and their places.
LEMMA SameKinds ==
  ASSUME NEW fr, NEW i, NEW r, Counted(fr, i, r)
  PROVE  /\ \A t, p : PlaceOK(t, p, fr) => PlaceOK(t, p, r)
         /\ \A p, w : Breaks(p, r, w) <=> Breaks(p, fr, w)
         /\ \A t, p, locks : HoldsOK(t, p, fr, locks) => HoldsOK(t, p, r, locks)
         /\ \A k \in DOMAIN r : r[k].f \in {"ssfn", "brk"} => k \in DOMAIN fr /\ r[k] = fr[k]
<1>. /\ fr \in Seq(Frames) /\ r \in Seq(Frames) /\ DOMAIN r = DOMAIN fr /\ Len(r) = Len(fr)
     /\ i \in DOMAIN fr /\ fr[i].f = "svc" /\ r[i].f = "svc"
     /\ \A k \in DOMAIN fr : k # i => r[k] = fr[k]
  BY DEF Counted
<1>1. DOMAIN fr = 1..Len(fr) /\ Len(fr) \in Nat /\ fr # <<>> /\ r # <<>>
  BY LenProperties
<1>2. Len(fr) \in DOMAIN fr /\ Last(fr) = fr[Len(fr)] /\ Last(r) = r[Len(fr)]
  <2>1. \A n \in Nat : \A k \in 1..n : n \in 1..n
    OBVIOUS
  <2>. QED  BY <1>1, <2>1 DEF Last
<1>3. (Last(r).f = "svc" <=> Last(fr).f = "svc") /\ (Last(fr).f # "svc" => Last(r) = Last(fr))
  BY <1>2
<1>4. \A p, w : Breaks(p, r, w) <=> Breaks(p, fr, w)
  BY <1>1, <1>3 DEF Breaks, BrkFrames
<1>5. ASSUME NEW t, NEW p, PlaceOK(t, p, fr)  PROVE PlaceOK(t, p, r)
  <2>1. \A k \in DOMAIN r : Callable(t, fr[k]) => Callable(t, r[k])
    BY DEF Callable
  <2>. QED  BY <1>1, <1>3, <1>5, <2>1 DEF PlaceOK
<1>6. ASSUME NEW t, NEW p, NEW locks, HoldsOK(t, p, fr, locks)  PROVE HoldsOK(t, p, r, locks)
  BY <1>4, <1>6 DEF HoldsOK, Raises
<1>. QED  BY <1>4, <1>5, <1>6

\* call_brkhdr counts and marks the innermost extended SVC of u.
LEMMA CountKeeps ==
  ASSUME SvcInv, NEW u \in SvcTasks, break_due(u), NEW i, i = innermost_svc(u),
         NEW g, g = count_break(frames, u, i), NEW es, es = [execssid EXCEPT ![u].ran = TRUE]
  PROVE  /\ g \in [SvcTasks -> Seq(Frames)] /\ es \in [SvcTasks -> Execs]
         /\ \A w \in SvcTasks :
              /\ PlaceOK(w, pc[w], g[w]) /\ HoldsOK(w, pc[w], g[w], svclocked[w])
              /\ BrokenOK(g[w], es[w]) /\ BrokenOK(frames[w], es[w])
              /\ TexOK(g[w], texhdr[w], forgotten[w], texmask[w], pendtex[w], exectex[w], texflg[w], reqdct[w])
<1>a. PICK fr, e, r, ex : /\ fr = frames[u] /\ e = [fr[i] EXCEPT !.breaks = fr[i].breaks + 1]
                         /\ r = [fr EXCEPT ![i] = e] /\ ex = execssid[u]
  OBVIOUS
<1>b. PICK ex2 : ex2 = [ex EXCEPT !.ran = TRUE]
  OBVIOUS
<1>1. /\ SvcTypes /\ fr \in Seq(Frames) /\ ex \in Execs /\ BrokenOK(fr, ex)
      /\ TexOK(fr, texhdr[u], forgotten[u], texmask[u], pendtex[u], exectex[u], texflg[u], reqdct[u])
  BY <1>a, TaskParts DEF TaskOK
<1>2. ~ex.ran /\ ex.ssid # NULL /\ ex2 \in Execs /\ ex2.ran /\ ex2.ssid = ex.ssid
  BY <1>1, <1>a, <1>b DEF break_due, Execs
<1>3. Innermost(fr, i)
  <2>1. Innermost(fr, SelectLastInSeq(fr, LAMBDA f : f.f = "svc"))
    BY <1>1, <1>2, InnermostFound
  <2>. QED  BY <2>1, <1>a DEF innermost_svc
<1>4. g = [frames EXCEPT ![u] = r] /\ es = [execssid EXCEPT ![u] = ex2]
  BY <1>1, <1>a, <1>b DEF count_break, SvcTypes
<1>5. BrokenOK(r, ex2) /\ BrokenOK(fr, ex2)
  <2>1. BrokenOK(r, ex2)
    BY <1>1, <1>2, <1>3, <1>a, BrokenNow
  <2>. QED  BY <1>1, <1>2, <2>1, MarkedNow
<1>6. Counted(fr, i, r) /\ Carried(r, exectex[u]) = Carried(fr, exectex[u])
  <2>1. Breaking(fr, i, e, r)
    BY <1>1, <1>3, <1>a DEF Breaking
  <2>. QED  BY <2>1, BrokenTex
<1>7. TexOK(r, texhdr[u], forgotten[u], texmask[u], pendtex[u], exectex[u], texflg[u], reqdct[u])
  <2>1. \A k \in DOMAIN r : r[k].f \in {"ssfn", "brk"} => r[k].save_texflg \cap Tex = texflg[u] \cap Tex
    BY <1>1, <1>6, SameKinds DEF TexOK
  <2>. QED  BY <1>1, <1>6, <2>1, TexFrames
<1>8. r \in Seq(Frames) /\ frames \in [SvcTasks -> Seq(Frames)] /\ execssid \in [SvcTasks -> Execs]
  BY <1>1, <1>6 DEF Counted, SvcTypes
<1>9. ASSUME NEW w \in SvcTasks
      PROVE  /\ PlaceOK(w, pc[w], g[w]) /\ HoldsOK(w, pc[w], g[w], svclocked[w])
             /\ BrokenOK(g[w], es[w]) /\ BrokenOK(frames[w], es[w])
             /\ TexOK(g[w], texhdr[w], forgotten[w], texmask[w], pendtex[w], exectex[w], texflg[w], reqdct[w])
  <2>1. TaskOK(w)
    BY TaskParts
  <2>2. CASE w # u
    <3>1. g[w] = frames[w] /\ es[w] = execssid[w]
      BY <1>4, <1>8, <2>2
    <3>. QED  BY <2>1, <3>1 DEF TaskOK
  <2>3. CASE w = u
    <3>1. g[w] = r /\ es[w] = ex2 /\ frames[w] = fr
      BY <1>4, <1>8, <1>a, <2>3
    <3>2. PlaceOK(w, pc[w], r) /\ HoldsOK(w, pc[w], r, svclocked[w])
      BY <1>6, <2>1, <3>1, SameKinds DEF TaskOK
    <3>. QED  BY <1>5, <1>7, <2>3, <3>1, <3>2
  <2>. QED  BY <2>2, <2>3
<1>. QED  BY <1>2, <1>4, <1>8, <1>9

\* call_brkhdr by t, within tk_ras_tex on u, or on itself after an extended SVC.
BreaksRightly(t, u, next) ==
    /\ next \in Steps /\ ((next = Run /\ u = t) \/ next = RasRest(u))
    /\ next = Run => Own(t, svclocked[t])
    /\ next # Run => /\ svclocked[t] # None /\ Head(svclocked[t]) = u
                     /\ Own(t, svclocked[t]) \/ (u # t /\ OnTop(t, u, svclocked[t]))

\* So tasks hold the right locks when it goes on, and while the function runs.
LEMMA BreakLocks ==
  ASSUME NEW t \in SvcTasks, NEW u \in SvcTasks, NEW next, BreaksRightly(t, u, next), NEW fr,
         Calm(t, next, fr), NEW r, r # <<>>, NEW f, Last(r) = f, f.f = "brk", f.of = u, f.next = next,
         f \in BrkFrames
  PROVE  HoldsOK(t, next, fr, svclocked[t]) /\ HoldsOK(t, Run, r, svclocked[t])
<1>1. CASE next = Run
  <2>1. Own(t, svclocked[t]) /\ Run.at = "run"
    BY <1>1 DEF BreaksRightly, Run
  <2>2. HoldsOK(t, next, fr, svclocked[t])
    BY <1>1, <2>1, CalmHolds
  <2>3. Calm(t, Run, r)
    BY <1>1, CalmElse
  <2>. QED  BY <2>1, <2>2, <2>3, CalmHolds
<1>2. CASE next # Run
  <2>1. /\ next.at = "ras_end" /\ next.of = u /\ Run.at = "run"
        /\ svclocked[t] # None /\ Head(svclocked[t]) = u
        /\ Own(t, svclocked[t]) \/ (u # t /\ OnTop(t, u, svclocked[t]))
    BY <1>2 DEF BreaksRightly, RasRest, Run
  <2>2. Raises(next, fr, u) /\ \A w : ~Breaks(next, fr, w)
    BY <2>1 DEF Raises, Breaks
  <2>3. Raises(Run, r, u) /\ \A w : Breaks(Run, r, w) => w = u
    BY <1>2, <2>1 DEF Raises, Breaks
  <2>. QED  BY <2>1, <2>2, <2>3 DEF HoldsOK
<1>. QED  BY <1>1, <1>2

\* The frame of a break function.
LEMMA BreakFrame ==
  ASSUME SvcInv, NEW t \in SvcTasks, NEW u \in SvcTasks, NEW next, BreaksRightly(t, u, next),
         NEW f, f = [f |-> "brk", of |-> u, next |-> next, save_texflg |-> texflg[t]]
  PROVE  /\ f.f = "brk" /\ f.of = u /\ f.next = next /\ f \in BrkFrames /\ f \in Frames
         /\ f.save_texflg = texflg[t]
<1>1. texflg[t] \in SUBSET Flags
  BY TaskParts
<1>2. next \in Steps /\ next \in {Run, RasRest(u)}
  BY DEF BreaksRightly
<1>. QED  BY <1>1, <1>2 DEF BrkFrames, Frames

\* The break function is called ...
LEMMA BreakCalled ==
  ASSUME SvcInv, NEW t \in SvcTasks, NEW u \in SvcTasks, NEW next, BreaksRightly(t, u, next),
         ~klockwait(t), pc[t].at \in {"self_break", "ras_break"}, call_brkhdr(t, u, next),
         break_due(u), ssycb[execssid[u].ssid] = "break"
  PROVE  SvcInv'
<1>a. PICK i, g, es : /\ i = innermost_svc(u) /\ g = count_break(frames, u, i)
                      /\ es = [execssid EXCEPT ![u].ran = TRUE]
  OBVIOUS
<1>b. PICK f : f = [f |-> "brk", of |-> u, next |-> next, save_texflg |-> texflg[t]]
  OBVIOUS
<1>c. PICK fr, r, flg : fr = g[t] /\ r = Append(fr, f) /\ flg = texflg[t]
  OBVIOUS
<1>1. /\ g \in [SvcTasks -> Seq(Frames)] /\ es \in [SvcTasks -> Execs]
      /\ \A w \in SvcTasks :
           /\ PlaceOK(w, pc[w], g[w]) /\ HoldsOK(w, pc[w], g[w], svclocked[w])
           /\ BrokenOK(g[w], es[w])
           /\ TexOK(g[w], texhdr[w], forgotten[w], texmask[w], pendtex[w], exectex[w], texflg[w], reqdct[w])
  BY <1>a, CountKeeps
<1>2. SvcTypes /\ TaskOK(t) /\ flg \in SUBSET Flags /\ pc \in [SvcTasks -> Steps]
  BY <1>c, TaskParts
<1>3. /\ frames' = [g EXCEPT ![t] = r] /\ execssid' = es /\ texflg' = [texflg EXCEPT ![t] = flg \cup {"SSFN"}]
  BY <1>1, <1>a, <1>b, <1>c DEF call_brkhdr
<1>4. /\ tstat' = tstat /\ pc' = [pc EXCEPT ![t] = Run] /\ goto(t, Run) /\ lockvars' = lockvars
      /\ texhdr' = texhdr /\ forgotten' = forgotten /\ texmask' = texmask /\ pendtex' = pendtex /\ exectex' = exectex
      /\ reqdct' = reqdct /\ ssycb' = ssycb /\ diswai' = diswai
  BY DEF call_brkhdr, goto
<1>5. /\ fr \in Seq(Frames) /\ PlaceOK(t, pc[t], fr) /\ BrokenOK(fr, es[t])
      /\ TexOK(fr, texhdr[t], forgotten[t], texmask[t], pendtex[t], exectex[t], flg, reqdct[t])
  BY <1>1, <1>c
<1>6. Room(t, fr)
  BY <1>5, RoomInCall
<1>7. /\ f.f = "brk" /\ f.of = u /\ f.next = next /\ f \in BrkFrames /\ f \in Frames /\ f.save_texflg = flg
  BY <1>b, <1>c, BreakFrame
<1>8. HasEntered(t, f, r, es[t], texhdr[t], forgotten[t], texmask[t], pendtex[t], exectex[t], flg, reqdct[t])
  <2>1. Enters(t, fr, f, r, es[t], texhdr[t], forgotten[t], texmask[t], pendtex[t], exectex[t], flg, reqdct[t])
    BY <1>5, <1>6, <1>7, <1>c DEF Enters
  <2>. QED  BY <2>1, PushedOK
<1>9. /\ r \in Seq(Frames) /\ r # <<>> /\ Last(r) = f /\ BrokenOK(r, es[t]) /\ PlaceOK(t, Run, r)
      /\ TexOK(r, texhdr[t], forgotten[t], texmask[t], pendtex[t], exectex[t], flg \cup {"SSFN"}, reqdct[t])
  BY <1>8 DEF HasEntered, Run
<1>10. HoldsOK(t, Run, r, svclocked[t])
  <2>1. Calm(t, next, fr)
    BY <1>5, CalmInCall
  <2>. QED  BY <1>7, <1>9, <2>1, BreakLocks
<1>11. LocksOK' /\ svclocked' = svclocked
  BY <1>4, GoesOn DEF lockvars
<1>12. SvcTypes'
  <2>1. flg \cup {"SSFN"} \in SUBSET Flags /\ Run \in Steps
    BY <1>2, NewSteps DEF Flags
  <2>. QED  BY <1>1, <1>2, <1>3, <1>4, <1>9, <2>1 DEF SvcTypes
<1>13. ASSUME NEW w \in SvcTasks  PROVE TaskOK(w)'
  <2>1. CASE w = t
    <3>1. pc'[t] = Run /\ frames'[t] = r /\ texflg'[t] = flg \cup {"SSFN"} /\ execssid'[t] = es[t]
      BY <1>1, <1>2, <1>3, <1>4 DEF SvcTypes
    <3>. QED  BY <1>4, <1>9, <1>10, <1>11, <2>1, <3>1 DEF TaskOK
  <2>2. CASE w # t
    <3>1. pc'[w] = pc[w] /\ frames'[w] = g[w] /\ texflg'[w] = texflg[w] /\ execssid'[w] = es[w]
      BY <1>1, <1>2, <1>3, <1>4, <2>2 DEF SvcTypes
    <3>. QED  BY <1>1, <1>4, <1>11, <3>1 DEF TaskOK
  <2>. QED  BY <2>1, <2>2
<1>14. SvcTypes' /\ LocksOK' /\ (\A w \in SvcTasks : TaskOK(w))' => SvcInv'
  BY DEF SvcInv, LocksOK, TaskOK, PlacesInv, HoldsAll, BrokenInv, TexInv
<1>. QED  BY <1>11, <1>12, <1>13, <1>14

\* ... or there is none, or none is due.
LEMMA BreakNotCalled ==
  ASSUME SvcInv, NEW t \in SvcTasks, NEW u \in SvcTasks, NEW next, BreaksRightly(t, u, next),
         ~klockwait(t), pc[t].at \in {"self_break", "ras_break"}, call_brkhdr(t, u, next),
         ~(break_due(u) /\ ssycb[execssid[u].ssid] = "break")
  PROVE  SvcInv'
<1>a. PICK fr, f : /\ fr = frames[t]
                   /\ f = [f |-> "brk", of |-> u, next |-> next, save_texflg |-> texflg[t]]
  OBVIOUS
<1>1. /\ frames' = frames /\ texflg' = texflg /\ tstat' = tstat /\ goto(t, next)
      /\ pc' = [pc EXCEPT ![t] = next] /\ lockvars' = lockvars
      /\ execssid' = IF break_due(u) THEN [execssid EXCEPT ![u].ran = TRUE] ELSE execssid
      /\ texhdr' = texhdr /\ forgotten' = forgotten /\ texmask' = texmask /\ pendtex' = pendtex /\ exectex' = exectex
      /\ reqdct' = reqdct /\ ssycb' = ssycb /\ diswai' = diswai
  BY DEF call_brkhdr, goto
<1>2. /\ SvcTypes /\ fr \in Seq(Frames) /\ pc \in [SvcTasks -> Steps] /\ PlaceOK(t, pc[t], fr)
  BY <1>a, TaskParts DEF TaskOK
<1>3. /\ execssid' \in [SvcTasks -> Execs] /\ \A w \in SvcTasks : BrokenOK(frames[w], execssid'[w])
  <2>1. CASE break_due(u)
    <3>1. PICK i, g, es : /\ i = innermost_svc(u) /\ g = count_break(frames, u, i)
                          /\ es = [execssid EXCEPT ![u].ran = TRUE]
      OBVIOUS
    <3>2. es \in [SvcTasks -> Execs] /\ \A w \in SvcTasks : BrokenOK(frames[w], es[w])
      BY <2>1, <3>1, CountKeeps
    <3>. QED  BY <1>1, <2>1, <3>1, <3>2
  <2>2. CASE ~break_due(u)
    BY <1>1, <1>2, <2>2, TaskParts DEF SvcTypes, TaskOK
  <2>. QED  BY <2>1, <2>2
<1>4. next \in Steps /\ next.at \notin {"exit_lock", "exit"}
  BY DEF BreaksRightly, Run, RasRest
<1>5. PlaceOK(t, next, fr)
  <2>1. Room(t, fr)
    BY <1>2, RoomInCall
  <2>. QED  BY <1>2, <1>4, <2>1, PlaceWithRoom
<1>6. HoldsOK(t, next, fr, svclocked[t])
  <2>1. Calm(t, next, fr)
    BY <1>2, CalmInCall
  <2>2. /\ f.f = "brk" /\ f.of = u /\ f.next = next /\ f \in BrkFrames
    BY <1>a, BreakFrame
  <2>3. PICK r : r = <<f>>
    OBVIOUS
  <2>4. r # <<>> /\ Last(r) = f
    BY <2>3 DEF Last
  <2>. QED  BY <2>1, <2>2, <2>4, BreakLocks
<1>7. LocksOK' /\ LocksElse(t) /\ svclocked'[t] = svclocked[t] /\ svclocked' = svclocked
  BY <1>1, GoesOn DEF lockvars
<1>8. SvcTypes'
  BY <1>1, <1>2, <1>3, <1>4 DEF SvcTypes
<1>9. ASSUME NEW w \in SvcTasks  PROVE TaskOK(w)'
  <2>1. TaskOK(w)
    BY TaskParts
  <2>2. pc'[w] = IF w = t THEN next ELSE pc[w]
    BY <1>1, <1>2
  <2>3. CASE w = t
    BY <1>1, <1>3, <1>5, <1>6, <1>7, <1>a, <2>1, <2>2, <2>3 DEF TaskOK
  <2>4. CASE w # t
    BY <1>1, <1>3, <1>7, <2>1, <2>2, <2>4 DEF TaskOK
  <2>. QED  BY <2>3, <2>4
<1>10. SvcTypes' /\ LocksOK' /\ (\A w \in SvcTasks : TaskOK(w))' => SvcInv'
  BY DEF SvcInv, LocksOK, TaskOK, PlacesInv, HoldsAll, BrokenInv, TexInv
<1>. QED  BY <1>7, <1>8, <1>9, <1>10

\* The two calls of call_brkhdr.
LEMMA SelfBreakKeeps ==
  ASSUME SvcInv, NEW t \in SvcTasks, SelfBreak(t)  PROVE SvcInv'
<1>1. ~klockwait(t) /\ pc[t].at = "self_break" /\ call_brkhdr(t, t, Run)
  BY DEF SelfBreak, at
<1>2. TaskOK(t) /\ Run \in Steps
  BY TaskParts, NewSteps
<1>3. Own(t, svclocked[t])
  <2>1. Calm(t, pc[t], frames[t])
    BY <1>1, CalmElse
  <2>. QED  BY <1>1, <1>2, <2>1, OwnLock DEF TaskOK
<1>4. BreaksRightly(t, t, Run)
  BY <1>2, <1>3 DEF BreaksRightly
<1>. QED  BY <1>1, <1>4, BreakCalled, BreakNotCalled

\* tk_ras_tex breaks the extended SVC its task is in, under its lock.
LEMMA RasBreakKeeps ==
  ASSUME SvcInv, NEW t \in SvcTasks, RasBreak(t)  PROVE SvcInv'
<1>. PICK u : u = pc[t].of
  OBVIOUS
<1>1. ~klockwait(t) /\ pc[t].at = "ras_break" /\ call_brkhdr(t, u, RasRest(u))
  BY DEF RasBreak, at, RasRest, SelfStep
<1>2. TaskOK(t) /\ u \in SvcTasks /\ RasRest(u) \in Steps /\ RasRest(u) # Run
  <2>1. TaskOK(t) /\ u \in SvcTasks
    BY <1>1, TaskParts, StepParts
  <2>2. RasRest(u).at = "ras_end" /\ Run.at = "run"
    BY DEF RasRest, Run
  <2>. QED  BY <2>1, <2>2, NewSteps
<1>3. svclocked[t] # None /\ Head(svclocked[t]) = u
  BY <1>1, <1>2 DEF TaskOK, HoldsOK
<1>4. Own(t, svclocked[t]) \/ (u # t /\ OnTop(t, u, svclocked[t]))
  <2>1. ASSUME NEW w \in SvcTasks \ {t}, OnTop(t, w, svclocked[t]), Raises(pc[t], frames[t], w)
        PROVE  u # t /\ OnTop(t, u, svclocked[t])
    BY <1>1, <2>1 DEF Raises, Breaks
  <2>. QED  BY <1>2, <2>1 DEF TaskOK, HoldsOK
<1>5. BreaksRightly(t, u, RasRest(u))
  BY <1>2, <1>3, <1>4 DEF BreaksRightly
<1>. QED  BY <1>1, <1>2, <1>5, BreakCalled, BreakNotCalled

-----------------------------------------------------------------------------
(* Task exceptions, and what else is done to a task.                       *)

\* Calls, handlers and locks are as they were.
TexElse(u) == \A w \in SvcTasks \ {u} :
    /\ texhdr'[w] = texhdr[w] /\ texmask'[w] = texmask[w] /\ pendtex'[w] = pendtex[w]
    /\ forgotten'[w] = forgotten[w] /\ exectex'[w] = exectex[w] /\ texflg'[w] = texflg[w] /\ reqdct'[w] = reqdct[w]
TexNow(u) == TexOK(frames[u], texhdr'[u], forgotten'[u], texmask'[u], pendtex'[u], exectex'[u], texflg'[u], reqdct'[u])

\* A step on the exceptions of u alone.
LEMMA TexSteps ==
  ASSUME SvcInv, SvcTypes', UNCHANGED <<tstat, pc, frames, lockvars, execssid>>, NEW u \in SvcTasks,
         TexElse(u), TexNow(u)
  PROVE  SvcInv'
<1>1. /\ tstat' = tstat /\ pc' = pc /\ frames' = frames /\ execssid' = execssid
      /\ svclocked' = svclocked /\ wtskq' = wtskq
  BY DEF lockvars
<1>2. TexInv'
  BY <1>1 DEF SvcInv, TexInv, TexElse, TexNow
<1>. QED  BY <1>1, <1>2 DEF SvcInv, PlacesInv, HoldsAll, BrokenInv

\* setup_texhdr starts the handler, or finds nothing to execute.
LEMMA SetupTexhdrKeeps ==
  ASSUME SvcInv, NEW t \in SvcTasks, SetupTexhdr(t)  PROVE SvcInv'
<1>a. PICK c, ex, flg : c = lowest(ex) /\ ex = exectex[t] /\ flg = texflg[t]
  OBVIOUS
<1>b. PICK flg2 : flg2 = flg \cup {IF c = 0 THEN "TEX0" ELSE "TEX1"}
  OBVIOUS
<1>1. /\ SvcTypes /\ TexOK(<<>>, texhdr[t], forgotten[t], texmask[t], pendtex[t], ex, flg, reqdct[t])
      /\ ex \in SUBSET Codes /\ flg \in SUBSET Flags /\ frames[t] = <<>>
  BY <1>a, TaskParts DEF TaskOK, SetupTexhdr
<1>2. /\ reqdct' = [reqdct EXCEPT ![t] = FALSE] /\ ssycb' = ssycb /\ tstat' = tstat /\ pc' = pc
      /\ frames' = frames /\ lockvars' = lockvars /\ execssid' = execssid /\ diswai' = diswai
      /\ texhdr' = texhdr /\ forgotten' = [forgotten EXCEPT ![t] = {}] /\ texmask' = texmask
  BY DEF SetupTexhdr
<1>3. CASE ex = {}
  <2>1. exectex' = exectex /\ pendtex' = pendtex /\ texflg' = texflg
    BY <1>3, <1>a DEF SetupTexhdr
  <2>2. SvcTypes'
    BY <1>1, <1>2, <2>1 DEF SvcTypes
  <2>3. TexOK(<<>>, texhdr[t], {}, texmask[t], pendtex[t], {}, flg, FALSE)
    BY <1>1, <1>3, NothingToStart
  <2>4. TexElse(t) /\ TexNow(t)
    BY <1>1, <1>2, <1>3, <1>a, <2>1, <2>3 DEF SvcTypes, TexElse, TexNow
  <2>. QED  BY <1>2, <2>2, <2>4, TexSteps
<1>4. CASE ex # {}
  <2>1. /\ exectex' = [exectex EXCEPT ![t] = {}] /\ pendtex' = [pendtex EXCEPT ![t] = pendtex[t] \ {c}]
        /\ texflg' = [texflg EXCEPT ![t] = flg2]
    BY <1>4, <1>a, <1>b DEF SetupTexhdr
  <2>2. flg2 \in SUBSET Flags /\ pendtex[t] \ {c} \in SUBSET Codes
    BY <1>1, <1>b DEF Flags, SvcTypes
  <2>3. SvcTypes'
    BY <1>1, <1>2, <2>1, <2>2 DEF SvcTypes
  <2>4. TexOK(<<>>, texhdr[t], {}, texmask[t], pendtex[t] \ {c}, {}, flg2, FALSE)
    BY <1>1, <1>4, <1>a, <1>b, StartedTex
  <2>5. TexElse(t) /\ TexNow(t)
    BY <1>1, <1>2, <2>1, <2>4 DEF SvcTypes, TexElse, TexNow
  <2>. QED  BY <1>2, <2>3, <2>5, TexSteps
<1>. QED  BY <1>3, <1>4

\* tk_end_tex
LEMMA EndTexKeeps ==
  ASSUME SvcInv, NEW t \in SvcTasks, NEW d, EndTex(t, d)  PROVE SvcInv'
<1>a. PICK pend, c, ex, flg : pend = pendtex[t] /\ c = lowest(pend \ {0}) /\ ex = exectex[t] /\ flg = texflg[t]
  OBVIOUS
<1>1. /\ SvcTypes /\ TexOK(<<>>, texhdr[t], forgotten[t], texmask[t], pend, ex, flg, reqdct[t]) /\ pend \in SUBSET Codes
      /\ ex \in SUBSET Codes /\ flg \in SUBSET Flags /\ flg \cap Tex = {"TEX1"} /\ frames[t] = <<>>
  BY <1>a, TaskParts DEF TaskOK, EndTex, Tex, SvcTypes
<1>2. /\ ssycb' = ssycb /\ tstat' = tstat /\ pc' = pc /\ frames' = frames /\ lockvars' = lockvars
      /\ execssid' = execssid /\ diswai' = diswai /\ texhdr' = texhdr /\ forgotten' = forgotten /\ texmask' = texmask
  BY DEF EndTex
<1>3. CASE d \/ pend \ {0} = {}
  <2>a. PICK req : req = (reqdct[t] \/ pend \ {0} # {})
    OBVIOUS
  <2>1. /\ texflg' = [texflg EXCEPT ![t] = flg \ {"TEX1"}] /\ exectex' = [exectex EXCEPT ![t] = ex \cup pend]
        /\ reqdct' = [reqdct EXCEPT ![t] = req] /\ pendtex' = pendtex
    BY <1>3, <1>a, <2>a DEF EndTex
  <2>2. SvcTypes'
    <3>1. req \in BOOLEAN /\ ex \cup pend \in SUBSET Codes
      BY <1>1, <2>a
    <3>. QED  BY <1>1, <1>2, <2>1, <3>1 DEF SvcTypes
  <2>3. TexOK(<<>>, texhdr[t], forgotten[t], texmask[t], pend, ex \cup pend, flg \ {"TEX1"}, req)
    <3>1. reqdct[t] \/ pend \ {0} # {} => req
      BY <2>a
    <3>. QED  BY <1>1, <3>1, EndedTex
  <2>4. TexElse(t) /\ TexNow(t)
    BY <1>1, <1>2, <1>a, <2>1, <2>3 DEF SvcTypes, TexElse, TexNow
  <2>. QED  BY <1>2, <2>2, <2>4, TexSteps
<1>4. CASE ~(d \/ pend \ {0} = {})
  <2>1. /\ texflg' = texflg /\ exectex' = exectex /\ reqdct' = reqdct
        /\ pendtex' = [pendtex EXCEPT ![t] = pend \ {c}]
    BY <1>4, <1>a DEF EndTex
  <2>2. SvcTypes'
    BY <1>1, <1>2, <2>1 DEF SvcTypes
  <2>3. TexOK(<<>>, texhdr[t], forgotten[t], texmask[t], pend \ {c}, ex, flg, reqdct[t])
    <3>1. PICK req : req = TRUE
      OBVIOUS
    <3>. QED  BY <1>1, <3>1, EndedTex
  <2>4. TexElse(t) /\ TexNow(t)
    BY <1>1, <1>2, <1>a, <2>1, <2>3 DEF SvcTypes, TexElse, TexNow
  <2>. QED  BY <1>2, <2>2, <2>4, TexSteps
<1>. QED  BY <1>3, <1>4

\* tk_def_tex
LEMMA DefTexKeeps ==
  ASSUME SvcInv, NEW t \in SvcTasks, NEW d \in BOOLEAN, DefTex(t, d)  PROVE SvcInv'
<1>1. /\ SvcTypes
      /\ TexOK(frames[t], texhdr[t], forgotten[t], texmask[t], pendtex[t], exectex[t], texflg[t], reqdct[t])
  BY TaskParts DEF TaskOK
<1>2. /\ ssycb' = ssycb /\ tstat' = tstat /\ pc' = pc /\ frames' = frames /\ lockvars' = lockvars
      /\ execssid' = execssid /\ diswai' = diswai /\ texflg' = texflg /\ reqdct' = reqdct
      /\ texhdr' = [texhdr EXCEPT ![t] = d] /\ texmask' = [texmask EXCEPT ![t] = {}]
      /\ pendtex' = [pendtex EXCEPT ![t] = {}] /\ exectex' = [exectex EXCEPT ![t] = {}]
      /\ forgotten' = [forgotten EXCEPT ![t] = saved_exectex(t)]
  BY DEF DefTex
<1>3. \A i \in DOMAIN frames[t] : frames[t][i].f \in {"ssfn", "brk"} =>
         frames[t][i].save_texflg \cap Tex = texflg[t] \cap Tex
  BY <1>1 DEF TexOK
<1>4. /\ TexOK(frames[t], d, saved_exectex(t), {}, {}, {}, texflg[t], reqdct[t])
      /\ saved_exectex(t) \in SUBSET Codes
  BY <1>1, <1>3, ForgottenTex
<1>5. SvcTypes'
  BY <1>1, <1>2, <1>4 DEF SvcTypes
<1>6. TexElse(t) /\ TexNow(t)
  BY <1>1, <1>2, <1>4 DEF SvcTypes, TexElse, TexNow
<1>. QED  BY <1>2, <1>5, <1>6, TexSteps

\* tk_ena_tex and tk_dis_tex
LEMMA SetTexMaskKeeps ==
  ASSUME SvcInv, NEW t \in SvcTasks, NEW m \in TexMasks, SetTexMask(t, m)  PROVE SvcInv'
<1>a. PICK pend : pend = pendtex[t]
  OBVIOUS
<1>1. /\ SvcTypes /\ TexOK(frames[t], TRUE, forgotten[t], texmask[t], pend, exectex[t], texflg[t], reqdct[t])
      /\ texhdr[t] = TRUE
  BY <1>a, TaskParts DEF TaskOK, SetTexMask, SvcTypes
<1>2. /\ ssycb' = ssycb /\ tstat' = tstat /\ pc' = pc /\ frames' = frames /\ lockvars' = lockvars
      /\ execssid' = execssid /\ diswai' = diswai /\ texflg' = texflg /\ reqdct' = reqdct
      /\ texhdr' = texhdr /\ forgotten' = forgotten /\ texmask' = [texmask EXCEPT ![t] = m]
      /\ pendtex' = [pendtex EXCEPT ![t] = pend \cap m] /\ exectex' = exectex
  BY <1>a DEF SetTexMask
<1>3. SvcTypes'
  <2>1. m \in SUBSET Codes /\ pend \cap m \in SUBSET Codes
    BY SubsystemAssumption
  <2>. QED  BY <1>1, <1>2, <2>1 DEF SvcTypes
<1>4. TexOK(frames[t], TRUE, forgotten[t], m, pend \cap m, exectex[t], texflg[t], reqdct[t])
  BY <1>1, MaskedTex
<1>5. TexElse(t) /\ TexNow(t)
  BY <1>1, <1>2, <1>4 DEF SvcTypes, TexElse, TexNow
<1>. QED  BY <1>2, <1>3, <1>5, TexSteps

\* tk_dis_wai and tk_ena_wai
LEMMA SetDiswaiKeeps ==
  ASSUME SvcInv, NEW t \in SvcTasks, NEW d \in BOOLEAN, SetDiswai(t, d)  PROVE SvcInv'
<1>1. SvcTypes /\ TaskOK(t)
  BY TaskParts
<1>2. /\ ssycb' = ssycb /\ tstat' = tstat /\ pc' = pc /\ frames' = frames /\ lockvars' = lockvars
      /\ execssid' = execssid /\ diswai' = [diswai EXCEPT ![t] = d] /\ texflg' = texflg /\ reqdct' = reqdct
      /\ texhdr' = texhdr /\ forgotten' = forgotten /\ texmask' = texmask /\ pendtex' = pendtex /\ exectex' = exectex
  BY DEF SetDiswai, texvars
<1>3. SvcTypes'
  BY <1>1, <1>2 DEF SvcTypes
<1>4. TexElse(t) /\ TexNow(t)
  BY <1>1, <1>2 DEF TaskOK, TexElse, TexNow
<1>. QED  BY <1>2, <1>3, <1>4, TexSteps

\* tk_def_ssy
LEMMA DefSsyKeeps ==
  ASSUME SvcInv, NEW s \in Ssids, NEW d \in {"undefined", "break"}, DefSsy(s, d)  PROVE SvcInv'
<1>1. /\ ssycb' = [ssycb EXCEPT ![s] = d] /\ tstat' = tstat /\ pc' = pc /\ frames' = frames
      /\ svclocked' = svclocked /\ wtskq' = wtskq
      /\ execssid' = execssid /\ diswai' = diswai /\ texflg' = texflg /\ reqdct' = reqdct
      /\ texhdr' = texhdr /\ forgotten' = forgotten /\ texmask' = texmask /\ pendtex' = pendtex /\ exectex' = exectex
  BY DEF DefSsy, texvars, lockvars
<1>2. SvcTypes'
  BY <1>1 DEF SvcInv, SvcTypes
<1>. QED  BY <1>1, <1>2 DEF SvcInv, PlacesInv, HoldsAll, BrokenInv, TexInv

\* tk_ras_tex tells u; its own call goes on.
LEMMA RasKeeps ==
  ASSUME SvcInv, NEW t \in SvcTasks, Ras(t)  PROVE SvcInv'
<1>a. PICK u, p, fr : u = pc[t].of /\ p = pc[t] /\ fr = frames[t]
  OBVIOUS
<1>b. PICK pend, heard, rastex :
         /\ pend = pendtex[u] \cup ({p.code} \cap texmask[u])
         /\ heard = (texhdr[u] /\ tstat[u] # "DORMANT" /\ "TEX0" \notin texflg[u])
         /\ rastex = (heard /\ pend # {} /\ startable(u, pend))
  OBVIOUS
<1>c. PICK x : x = IF rastex THEN [at |-> "ras_break", of |-> u] ELSE [at |-> "ras_end", of |-> u, next |-> Run]
  OBVIOUS
<1>1. /\ p.at = "ras" /\ ~klockwait(t) /\ tstat' = tstat /\ goto(t, x) /\ lockvars' = lockvars
      /\ frames' = frames /\ execssid' = execssid /\ texhdr' = texhdr /\ forgotten' = forgotten /\ texmask' = texmask
      /\ texflg' = texflg /\ ssycb' = ssycb /\ diswai' = diswai
      /\ pendtex' = (IF heard THEN [pendtex EXCEPT ![u] = pend] ELSE pendtex)
      /\ exectex' = (IF rastex THEN [exectex EXCEPT ![u] = exectex[u] \cup pend] ELSE exectex)
      /\ reqdct' = (IF rastex THEN [reqdct EXCEPT ![u] = TRUE] ELSE reqdct)
  BY <1>a, <1>b, <1>c DEF Ras, at
<1>2. /\ SvcTypes /\ TaskOK(t) /\ p \in Steps /\ fr \in Seq(Frames) /\ pc \in [SvcTasks -> Steps]
      /\ PlaceOK(t, p, fr) /\ HoldsOK(t, p, fr, svclocked[t])
  BY <1>a, TaskParts DEF TaskOK
<1>3. u \in SvcTasks /\ p.code \in Codes
  BY <1>1, <1>2, <1>a, StepParts
<1>4. TaskOK(u) /\ pendtex[u] \in SUBSET Codes /\ texmask[u] \in SUBSET Codes /\ exectex[u] \in SUBSET Codes
      /\ heard \in BOOLEAN /\ rastex \in BOOLEAN
  BY <1>2, <1>3, <1>b, TaskParts DEF SvcTypes
<1>5. pend \in SUBSET Codes /\ (pendtex[u] \subseteq texmask[u] => pend \subseteq texmask[u])
  BY <1>3, <1>4, <1>b
<1>6. x \in Steps /\ x.at \in {"ras_break", "ras_end"} /\ x.of = u
  BY <1>3, <1>c, NewSteps
<1>7. LocksOK' /\ LocksElse(t) /\ svclocked'[t] = svclocked[t] /\ svclocked' = svclocked
  BY <1>1, GoesOn DEF lockvars
<1>8. pc' = [pc EXCEPT ![t] = x]
  BY <1>1 DEF goto
<1>9. PlaceOK(t, x, fr)
  <2>1. Room(t, fr)
    BY <1>1, <1>2, RoomInCall
  <2>. QED  BY <1>2, <1>6, <2>1, PlaceWithRoom
<1>10. HoldsOK(t, x, fr, svclocked[t])
  <2>1. \A w : Raises(p, fr, w) <=> w = u
    BY <1>1, <1>a DEF Raises, Breaks
  <2>2. \A w : Raises(x, fr, w) <=> w = u
    BY <1>6 DEF Raises, Breaks
  <2>3. \A w : ~Breaks(x, fr, w)
    BY <1>6 DEF Breaks
  <2>4. svclocked[t] # None /\ Head(svclocked[t]) = u
    BY <1>1, <1>2, <1>a DEF HoldsOK
  <2>. QED  BY <1>2, <1>6, <2>1, <2>2, <2>3, <2>4 DEF HoldsOK
<1>11. SvcTypes'
  <2>1. exectex[u] \cup pend \in SUBSET Codes
    BY <1>4, <1>5
  <2>2. pendtex' \in [SvcTasks -> SUBSET Codes] /\ exectex' \in [SvcTasks -> SUBSET Codes]
        /\ reqdct' \in [SvcTasks -> BOOLEAN]
    BY <1>1, <1>2, <1>5, <2>1 DEF SvcTypes
  <2>3. tstat' \in [SvcTasks -> {"DORMANT", "READY", "SUSPEND"}] /\ pc' \in [SvcTasks -> Steps]
    BY <1>1, <1>2, <1>6, <1>8 DEF SvcTypes
  <2>. QED  BY <1>1, <1>2, <2>2, <2>3 DEF SvcTypes
<1>12. TexOK(frames[u], texhdr[u], forgotten[u], texmask[u], pendtex'[u], exectex'[u], texflg[u], reqdct'[u])
  <2>1. TexOK(frames[u], texhdr[u], forgotten[u], texmask[u], pendtex[u], exectex[u], texflg[u], reqdct[u])
    BY <1>4 DEF TaskOK
  <2>2. CASE ~heard
    BY <1>1, <1>b, <2>1, <2>2
  <2>3. CASE heard
    <3>1. pendtex'[u] = pend
      BY <1>1, <1>2, <1>3, <2>3 DEF SvcTypes
    <3>2. rastex <=> pend # {} /\ (0 \in pend \/ "TEX1" \notin texflg[u])
      BY <1>b, <2>3 DEF startable
    <3>3. IF rastex THEN exectex'[u] = exectex[u] \cup pend /\ reqdct'[u] = TRUE
          ELSE exectex'[u] = exectex[u] /\ reqdct'[u] = reqdct[u]
      BY <1>1, <1>2, <1>3 DEF SvcTypes
    <3>4. PICK ex2, req2 : ex2 = exectex'[u] /\ req2 = reqdct'[u]
      OBVIOUS
    <3>5. Heard(pend, exectex[u], texflg[u], reqdct[u], ex2, req2)
      BY <3>2, <3>3, <3>4 DEF Heard
    <3>6. texhdr[u] /\ "TEX0" \notin texflg[u] /\ pend \subseteq texmask[u]
      BY <1>b, <1>5, <2>1, <2>3 DEF TexOK
    <3>7. TexOK(frames[u], texhdr[u], forgotten[u], texmask[u], pend, ex2, texflg[u], req2)
      BY <2>1, <3>5, <3>6, RaisedTex
    <3>. QED  BY <3>1, <3>4, <3>7
  <2>. QED  BY <1>4, <2>2, <2>3
<1>13. ASSUME NEW w \in SvcTasks  PROVE TaskOK(w)'
  <2>1. TaskOK(w)
    BY TaskParts
  <2>2. TexOK(frames[w], texhdr[w], forgotten[w], texmask[w], pendtex'[w], exectex'[w], texflg[w], reqdct'[w])
    <3>1. CASE w = u
      BY <1>12, <3>1
    <3>2. CASE w # u
      <4>1. pendtex'[w] = pendtex[w] /\ exectex'[w] = exectex[w] /\ reqdct'[w] = reqdct[w]
        BY <1>1, <1>2, <3>2 DEF SvcTypes
      <4>. QED  BY <2>1, <4>1 DEF TaskOK
    <3>. QED  BY <3>1, <3>2
  <2>3. PlaceOK(w, pc'[w], frames[w]) /\ HoldsOK(w, pc'[w], frames[w], svclocked[w])
    <3>1. CASE w = t
      BY <1>2, <1>8, <1>9, <1>10, <1>a, <3>1
    <3>2. CASE w # t
      BY <1>2, <1>8, <2>1, <3>2 DEF TaskOK
    <3>. QED  BY <3>1, <3>2
  <2>. QED  BY <1>1, <1>7, <2>1, <2>2, <2>3 DEF TaskOK
<1>14. SvcTypes' /\ LocksOK' /\ (\A w \in SvcTasks : TaskOK(w))' => SvcInv'
  BY DEF SvcInv, LocksOK, TaskOK, PlacesInv, HoldsAll, BrokenInv, TexInv
<1>. QED  BY <1>7, <1>11, <1>13, <1>14

\* Suspended, a task leaves the queue of the lock it waits for.
LEMMA SuspendKeeps ==
  ASSUME SvcInv, NEW t \in SvcTasks, Suspend(t)  PROVE SvcInv'
<1>1. /\ tstat' = [tstat EXCEPT ![t] = "SUSPEND"] /\ wtskq' = LeftQueues(wtskq, t) /\ svclocked' = svclocked
      /\ ssycb' = ssycb /\ pc' = pc /\ frames' = frames
      /\ execssid' = execssid /\ diswai' = diswai /\ texflg' = texflg /\ reqdct' = reqdct
      /\ texhdr' = texhdr /\ forgotten' = forgotten /\ texmask' = texmask /\ pendtex' = pendtex /\ exectex' = exectex
  BY DEF Suspend, LeftQueues, texvars
<1>2. SvcTypes'
  BY <1>1 DEF SvcInv, SvcTypes
<1>3. LocksBut(svclocked, wtskq, tstat, pc, {}) /\ LockTypes(svclocked, wtskq)
  BY LocksWhole DEF SvcInv
<1>4. OthersStay(tstat', pc', tstat, pc, t)
  BY <1>1 DEF SvcInv, SvcTypes, OthersStay
<1>5. LockTypes(svclocked, wtskq') /\ LocksBut(svclocked, wtskq', tstat', pc', {})
  BY <1>1, <1>3, <1>4, LeavesQueue
<1>6. LockTypes(svclocked', wtskq') /\ LocksInv(svclocked', wtskq', tstat', pc')
  BY <1>1, <1>5, LocksWhole
<1>. QED  BY <1>1, <1>2, <1>6 DEF SvcInv, PlacesInv, HoldsAll, BrokenInv, TexInv

\* Tasks in a queue are neither suspended nor dormant.
LEMMA WakesKeeps ==
  ASSUME SvcInv, NEW t \in SvcTasks, Resume(t) \/ StartTask(t)  PROVE SvcInv'
<1>1. /\ tstat' = [tstat EXCEPT ![t] = "READY"] /\ wtskq' = wtskq /\ svclocked' = svclocked
      /\ ssycb' = ssycb /\ pc' = pc /\ frames' = frames
      /\ execssid' = execssid /\ diswai' = diswai /\ texflg' = texflg /\ reqdct' = reqdct
      /\ texhdr' = texhdr /\ forgotten' = forgotten /\ texmask' = texmask /\ pendtex' = pendtex /\ exectex' = exectex
  BY DEF Resume, StartTask, texvars, lockvars
<1>2. SvcTypes'
  BY <1>1 DEF SvcInv, SvcTypes
<1>3. \A w \in SvcTasks : tstat[w] = "READY" => tstat'[w] = "READY"
  BY <1>1 DEF SvcInv, SvcTypes
<1>4. LocksInv(svclocked', wtskq', tstat', pc')
  <2>1. \A l \in SvcTasks : wtskq[l] # NULL => ToSet(wtskq[l]) \subseteq SvcTasks
    <3>1. \A q \in Seq(SvcTasks) : ToSet(q) \subseteq SvcTasks
      BY ElementOfSeq, LenProperties DEF ToSet
    <3>. QED  BY <3>1 DEF SvcInv, LockTypes
  <2>. QED  BY <1>1, <1>3, <2>1 DEF SvcInv, LocksInv
<1>. QED  BY <1>1, <1>2, <1>4 DEF SvcInv, LockTypes, PlacesInv, HoldsAll, BrokenInv, TexInv

\* tk_ter_tsk
LEMMA TerminateKeeps ==
  ASSUME SvcInv, NEW t \in SvcTasks, Terminate(t)  PROVE SvcInv'
<1>1. /\ tstat' = [tstat EXCEPT ![t] = "DORMANT"] /\ pc' = [pc EXCEPT ![t] = Run]
      /\ frames' = [frames EXCEPT ![t] = <<>>] /\ execssid' = [execssid EXCEPT ![t] = NoSvc]
      /\ diswai' = [diswai EXCEPT ![t] = FALSE] /\ texhdr' = [texhdr EXCEPT ![t] = FALSE]
      /\ texmask' = [texmask EXCEPT ![t] = {}] /\ pendtex' = [pendtex EXCEPT ![t] = {}]
      /\ forgotten' = [forgotten EXCEPT ![t] = {}]
      /\ exectex' = [exectex EXCEPT ![t] = {}] /\ texflg' = [texflg EXCEPT ![t] = {}]
      /\ reqdct' = [reqdct EXCEPT ![t] = FALSE] /\ ssycb' = ssycb /\ AllUnlockSVC(t)
  BY DEF Terminate
<1>2. SvcTypes
  BY DEF SvcInv
<1>3. SvcTypes'
  <2>1. NoSvc \in Execs /\ Run \in Steps /\ <<>> \in Seq(Frames)
    BY NewSteps DEF NoSvc, Execs
  <2>. QED  BY <1>1, <1>2, <2>1 DEF SvcTypes
<1>4. LockTypes(svclocked', wtskq') /\ LocksInv(svclocked', wtskq', tstat', pc') /\ HoldsAll(svclocked', pc', frames')
  BY <1>1, <1>2, AllUnlockKeeps DEF SvcInv, SvcTypes
<1>5. PlaceOK(t, Run, <<>>)
  <2>1. Len(<<>>) = 0 /\ DOMAIN <<>> = {} /\ MaxFrames[t] \in Nat
    BY SubsystemAssumption
  <2>. QED  BY <2>1 DEF PlaceOK, Run
<1>6. BrokenOK(<<>>, NoSvc) /\ TexOK(<<>>, FALSE, {}, {}, {}, {}, {}, FALSE)
  <2>1. \A i : i \notin DOMAIN <<>>
    OBVIOUS
  <2>2. BrokenOK(<<>>, NoSvc)
    BY <2>1 DEF BrokenOK, NoSvc, Innermost, Around
  <2>. QED  BY <2>2, NoTex
<1>7. ASSUME NEW w \in SvcTasks
      PROVE  /\ PlaceOK(w, pc'[w], frames'[w]) /\ BrokenOK(frames'[w], execssid'[w])
             /\ TexOK(frames'[w], texhdr'[w], forgotten'[w], texmask'[w], pendtex'[w], exectex'[w], texflg'[w], reqdct'[w])
  <2>1. TaskOK(w)
    BY TaskParts
  <2>2. CASE w = t
    <3>1. /\ pc'[w] = Run /\ frames'[w] = <<>> /\ execssid'[w] = NoSvc /\ texhdr'[w] = FALSE
          /\ forgotten'[w] = {} /\ texmask'[w] = {} /\ pendtex'[w] = {} /\ exectex'[w] = {}
          /\ texflg'[w] = {} /\ reqdct'[w] = FALSE
      BY <1>1, <1>2, <2>2 DEF SvcTypes
    <3>. QED  BY <1>5, <1>6, <2>2, <3>1
  <2>3. CASE w # t
    <3>1. /\ pc'[w] = pc[w] /\ frames'[w] = frames[w] /\ execssid'[w] = execssid[w] /\ texhdr'[w] = texhdr[w]
          /\ forgotten'[w] = forgotten[w]
          /\ texmask'[w] = texmask[w] /\ pendtex'[w] = pendtex[w] /\ exectex'[w] = exectex[w]
          /\ texflg'[w] = texflg[w] /\ reqdct'[w] = reqdct[w]
      BY <1>1, <1>2, <2>3 DEF SvcTypes
    <3>. QED  BY <2>1, <3>1 DEF TaskOK
  <2>. QED  BY <2>2, <2>3
<1>. QED  BY <1>3, <1>4, <1>7 DEF SvcInv, PlacesInv, BrokenInv, TexInv

\* Every step of the tasks.
LEMMA SvcStep ==
  ASSUME SvcInv, SvcNext  PROVE SvcInv'
<1>1. ASSUME NEW t \in SvcTasks, SvcLock(t) \/ SvcCheck(t) \/ SvcEnter(t) \/ SvcHandlerReturns(t) \/ SvcExit(t)
      PROVE  SvcInv'
  BY <1>1, SvcLockKeeps, SvcCheckKeeps, SvcEnterKeeps, SvcHandlerReturnsKeeps, SvcExitKeeps
<1>2. ASSUME NEW t \in SvcTasks, SelfBreak(t) \/ BreakReturns(t) \/ SsfnReturns(t)
      PROVE  SvcInv'
  BY <1>2, SelfBreakKeeps, BreakReturnsKeeps, SsfnReturnsKeeps
<1>3. ASSUME NEW t \in SvcTasks, RasLock(t) \/ Ras(t) \/ RasBreak(t) \/ RasEnd(t) \/ SetupTexhdr(t)
      PROVE  SvcInv'
  BY <1>3, RasLockKeeps, RasKeeps, RasBreakKeeps, RasEndKeeps, SetupTexhdrKeeps
<1>4. ASSUME NEW t \in SvcTasks, Suspend(t) \/ Resume(t) \/ Terminate(t) \/ StartTask(t)
      PROVE  SvcInv'
  BY <1>4, SuspendKeeps, WakesKeeps, TerminateKeeps
<1>5. ASSUME NEW t \in SvcTasks, NEW u \in TexTasks, NEW c \in Codes, RasCall(t, u, c)  PROVE SvcInv'
  BY <1>5, RasCallKeeps, SubsystemAssumption
<1>6. ASSUME NEW t \in TexTasks, NEW s \in Ssids, SvcCall(t, s) \/ SsfnCall(t, s)  PROVE SvcInv'
  BY <1>6, SvcCallKeeps, SsfnCallKeeps, SubsystemAssumption
<1>7. ASSUME NEW t \in TexTasks, NEW d \in BOOLEAN, EndTex(t, d) \/ DefTex(t, d) \/ SetDiswai(t, d)
      PROVE  SvcInv'
  BY <1>7, EndTexKeeps, DefTexKeeps, SetDiswaiKeeps, SubsystemAssumption
<1>8. ASSUME NEW t \in TexTasks, NEW m \in TexMasks, SetTexMask(t, m)  PROVE SvcInv'
  BY <1>8, SetTexMaskKeeps, SubsystemAssumption
<1>9. ASSUME NEW s \in Ssids, NEW d \in {"undefined", "break"}, DefSsy(s, d)  PROVE SvcInv'
  BY <1>9, DefSsyKeeps
<1>. QED  BY <1>1, <1>2, <1>3, <1>4, <1>5, <1>6, <1>7, <1>8, <1>9 DEF SvcNext

\* In the beginning no task is in a call.
LEMMA SvcStart ==
  ASSUME SvcInit  PROVE SvcInv
<1>1. /\ SvcTypes /\ LockTypes(svclocked, wtskq)
  <2>1. NoSvc \in Execs /\ Run \in Steps
    BY NewSteps DEF NoSvc, Execs
  <2>2. \A S : <<>> \in Seq(S)
    OBVIOUS
  <2>. QED  BY <2>1, <2>2 DEF SvcInit, SvcTypes, LockTypes
<1>2. LocksInv(svclocked, wtskq, tstat, pc)
  <2>1. \A x : ~Contains(<<>>, x)
    BY DEF Contains
  <2>. QED  BY <2>1 DEF SvcInit, LocksInv
<1>3. \A t \in SvcTasks : frames[t] = <<>> /\ pc[t] = Run /\ svclocked[t] = None /\ execssid[t] = NoSvc
  BY DEF SvcInit, None
<1>4. PlacesInv
  <2>1. Len(<<>>) = 0 /\ \A i : i \notin DOMAIN <<>>
    OBVIOUS
  <2>2. \A t \in SvcTasks : 0 <= MaxFrames[t]
    BY SubsystemAssumption
  <2>. QED  BY <1>3, <2>1, <2>2 DEF PlacesInv, PlaceOK, Run
<1>5. HoldsAll(svclocked, pc, frames)
  <2>1. ASSUME NEW t \in SvcTasks  PROVE HoldsOK(t, Run, <<>>, None)
    <3>1. Calm(t, Run, <<>>) /\ Run.at = "run"
      BY CalmElse DEF Run
    <3>. QED  BY <3>1, CalmHolds DEF Own
  <2>. QED  BY <1>3, <2>1 DEF HoldsAll
<1>6. BrokenInv
  <2>1. \A i : i \notin DOMAIN <<>>
    OBVIOUS
  <2>2. BrokenOK(<<>>, NoSvc)
    BY <2>1 DEF BrokenOK, NoSvc, Innermost, Around
  <2>. QED  BY <1>3, <2>2 DEF BrokenInv
<1>7. TexInv
  <2>1. \A t \in SvcTasks : pendtex[t] = {} /\ exectex[t] = {}
    BY DEF SvcInit
  <2>2. \A t \in SvcTasks : TexOK(<<>>, texhdr[t], forgotten[t], texmask[t], {}, {}, texflg[t], reqdct[t])
    BY NoTex
  <2>. QED  BY <1>3, <2>1, <2>2 DEF TexInv
<1>. QED  BY <1>1, <1>2, <1>4, <1>5, <1>6, <1>7 DEF SvcInv

-----------------------------------------------------------------------------
(* What the invariant says of the runs' properties.                        *)

\* A list of one or two different locks, or of none, names none twice.
LEMMA HeldOnce ==
  ASSUME NEW t \in SvcTasks, NEW p, NEW fr, NEW locks, HoldsOK(t, p, fr, locks)
  PROVE  IsInjective(locks)
<1>1. locks = None \/ locks = One(t) \/ \E u \in SvcTasks \ {t} : locks = One(u) \/ locks = Two(u, t)
  BY DEF HoldsOK, Own, OnTop
<1>2. IsInjective(None)
  <2>1. \A i : i \notin DOMAIN <<>>
    OBVIOUS
  <2>. QED  BY <2>1 DEF None, IsInjective
<1>3. \A a : IsInjective(One(a))
  BY DEF One, IsInjective
<1>4. \A a, b : a # b => IsInjective(Two(a, b))
  BY DEF Two, IsInjective
<1>. QED  BY <1>1, <1>2, <1>3, <1>4

\* The queues and holders of the locks are exact.
LEMMA LocksExact ==
  ASSUME SvcInv  PROVE SvcLocksExact
<1>1. LocksInv(svclocked, wtskq, tstat, pc) /\ LockTypes(svclocked, wtskq) /\ SvcTypes
  BY DEF SvcInv
<1>2. \A t \in SvcTasks : IsInjective(svclocked[t])
  BY HeldOnce DEF SvcInv, HoldsAll
<1>3. ASSUME NEW l \in SvcTasks
      PROVE  LET holders == {t \in SvcTasks : Contains(svclocked[t], l)}
             IN  /\ Cardinality(holders) = IF wtskq[l] = NULL THEN 0 ELSE 1
                 /\ wtskq[l] # NULL =>
                       /\ IsInjective(wtskq[l]) /\ ToSet(wtskq[l]) \cap holders = {}
                       /\ \A t \in ToSet(wtskq[l]) : tstat[t] = "READY" /\ wanted(t) = l
  <2>. DEFINE holders == {t \in SvcTasks : Contains(svclocked[t], l)}
  <2>1. wtskq[l] = NULL => Cardinality(holders) = 0
    <3>1. wtskq[l] = NULL => holders = {}
      BY <1>1 DEF LocksInv
    <3>. QED  BY <3>1, FS_EmptySet
  <2>2. wtskq[l] # NULL => Cardinality(holders) = 1
    <3>1. wtskq[l] # NULL => \E t \in SvcTasks : holders = {t}
      BY <1>1 DEF LocksInv
    <3>. QED  BY <3>1, FS_Singleton
  <2>3. wtskq[l] # NULL =>
           /\ IsInjective(wtskq[l]) /\ ToSet(wtskq[l]) \cap holders = {}
           /\ \A t \in ToSet(wtskq[l]) : tstat[t] = "READY" /\ wanted(t) = l
    BY <1>1 DEF LocksInv, wanted
  <2>. QED  BY <2>1, <2>2, <2>3
<1>. QED  BY <1>2, <1>3 DEF SvcLocksExact

\* The types of the subsystem part.
LEMMA SvcTypesOK ==
  ASSUME SvcInv  PROVE SvcTypeOK
BY DEF SvcInv, SvcTypes, LockTypes, SvcTypeOK, PlacesInv, PlaceOK, TexInv, TexOK, Flags

\* An exception that is pending has a handler running or requested, and without a
\* handler only what tk_def_tex forgot too early is to be executed.
LEMMA NothingForgotten ==
  ASSUME SvcInv  PROVE ExceptionsKept
<1>. SUFFICES ASSUME NEW t \in SvcTasks
     PROVE  /\ pendtex[t] # {} /\ texflg[t] \cap {"TEX0", "TEX1"} = {} => reqdct[t]
            /\ ~texhdr[t] => pendtex[t] = {} /\ exectex[t] \subseteq forgotten[t]
  BY DEF ExceptionsKept
<1>1. TexOK(frames[t], texhdr[t], forgotten[t], texmask[t], pendtex[t], exectex[t], texflg[t], reqdct[t])
  BY DEF SvcInv, TexInv
<1>2. \A e \in exectex[t] : e \in Carried(frames[t], exectex[t])
  BY CarriedMember
<1>. QED  BY <1>1, <1>2 DEF TexOK, Tex

\* A break function of tk_ras_tex is the innermost handler of its task, which has
\* the lock of the task it is about.
LEMMA BreaksApart ==
  ASSUME SvcInv, "self" \notin BreakCalls  PROVE BreakExclusive
<1>. SUFFICES ASSUME NEW t \in SvcTasks, NEW i \in DOMAIN frames[t], NEW f, f = frames[t][i]
     PROVE  /\ f.f = "brk" /\ f.next # Run =>
                  /\ Contains(svclocked[t], f.of)
                  /\ f.of # t => pc[f.of].at \notin {"enter_check", "enter", "exit"}
            /\ f.f = "svc" => f.breaks <= 1
  BY DEF BreakExclusive
<1>a. PICK fr, locks : fr = frames[t] /\ locks = svclocked[t]
  OBVIOUS
<1>1. /\ TaskOK(t) /\ fr \in Seq(Frames) /\ PlaceOK(t, pc[t], fr) /\ BrokenOK(fr, execssid[t])
      /\ HoldsOK(t, pc[t], fr, locks) /\ LocksInv(svclocked, wtskq, tstat, pc)
  BY <1>a, TaskParts DEF TaskOK, SvcInv
<1>2. f.f = "svc" => f.breaks <= 1
  BY <1>1, <1>a DEF BrokenOK
<1>3. ASSUME f.f = "brk", f.next # Run
      PROVE  Contains(locks, f.of) /\ (f.of # t => pc[f.of].at \notin {"enter_check", "enter", "exit"})
  <2>1. ~Callable(t, f)
    BY <1>3 DEF Callable
  <2>2. i = Len(fr) /\ pc[t].at = "run"
    <3>1. ~(i < Len(fr)) /\ pc[t].at = "run"
      BY <1>1, <1>a, <2>1 DEF PlaceOK
    <3>2. DOMAIN fr = 1..Len(fr) /\ Len(fr) \in Nat
      BY <1>1, LenProperties
    <3>3. \A n \in Nat : \A k \in 1..n : ~(k < n) => k = n
      OBVIOUS
    <3>. QED  BY <3>1, <3>2, <3>3, <1>a
  <2>3. fr # <<>> /\ Last(fr) = f /\ f \in Frames
    <3>1. fr # <<>>
      BY <1>a
    <3>2. Last(fr) = f
      BY <1>a, <2>2 DEF Last
    <3>. QED  BY <1>1, <3>1, <3>2, Left
  <2>4. f \in BrkFrames /\ f.of \in SvcTasks
    BY <1>3, <2>3, FrameParts DEF BrkFrames
  <2>5. Breaks(pc[t], fr, f.of)
    BY <1>3, <2>2, <2>3, <2>4 DEF Breaks
  <2>6. locks # None /\ Head(locks) = f.of
    BY <1>1, <2>4, <2>5 DEF HoldsOK
  <2>7. Contains(locks, f.of)
    BY <1>1, <2>6, HeldLocks DEF Held
  <2>8. ASSUME f.of # t, pc[f.of].at \in {"enter_check", "enter", "exit"}  PROVE FALSE
    <3>1. svclocked[f.of] = One(f.of)
      BY <2>4, <2>8, TaskParts DEF TaskOK, HoldsOK
    <3>2. Contains(svclocked[f.of], f.of)
      BY <2>4, <3>1, ShortLists, ZenonT(60) DEF Shorts
    <3>. QED  BY <1>1, <1>a, <2>4, <2>7, <2>8, <3>2 DEF LocksInv
  <2>. QED  BY <2>7, <2>8
<1>. QED  BY <1>2, <1>3, <1>a

-----------------------------------------------------------------------------
(* The services together.                                                  *)

ServicesInv == SvcInv /\ ProcInv /\ MemInv /\ DevInv /\ HeapInv /\ FilesInv /\ SmpInv

\* What a step does not change keeps its invariant.
LEMMA SameKeeps ==
  /\ SvcInv /\ UNCHANGED svcvars => SvcInv'
  /\ ProcInv /\ UNCHANGED procs => ProcInv'
  /\ MemInv /\ UNCHANGED mem => MemInv'
  /\ DevInv /\ UNCHANGED devs => DevInv'
  /\ HeapInv /\ UNCHANGED heap => HeapInv'
  /\ FilesInv /\ UNCHANGED fs => FilesInv'
  /\ SmpInv /\ UNCHANGED smp => SmpInv'
<1>1. SvcInv /\ UNCHANGED svcvars => SvcInv'
  BY DEF svcvars, lockvars, texvars, SvcInv, SvcTypes, PlacesInv, HoldsAll, BrokenInv, TexInv
<1>2. ProcInv /\ UNCHANGED procs => ProcInv'
  BY DEF procs, ProcInv
<1>3. MemInv /\ UNCHANGED mem => MemInv'
  BY DEF mem, MemInv
<1>4. DevInv /\ UNCHANGED devs => DevInv'
  BY DEF devs, DevInv
<1>5. HeapInv /\ UNCHANGED heap => HeapInv'
  BY DEF heap, HeapInv
<1>6. FilesInv /\ UNCHANGED fs => FilesInv'
  BY DEF fs, FilesInv
<1>7. SmpInv /\ UNCHANGED smp => SmpInv'
  BY DEF smp, SmpInv, SmpTypeOK, sem_waiters, woken_for
<1>. QED  BY <1>1, <1>2, <1>3, <1>4, <1>5, <1>6, <1>7

\* One of them takes a step.
LEMMA ServicesStep ==
  ASSUME ServicesInv, [Next]_vars  PROVE ServicesInv'
<1>1. CASE UNCHANGED vars
  BY <1>1, SameKeeps DEF ServicesInv, vars
<1>2. CASE SvcNext /\ UNCHANGED <<procs, mem, devs, heap, fs, smp>>
  BY <1>2, SvcStep, SameKeeps DEF ServicesInv
<1>3. CASE ProcNext /\ UNCHANGED <<svcvars, mem, devs, heap, fs, smp>>
  BY <1>3, ProcStep, SameKeeps DEF ServicesInv
<1>4. CASE MemNext /\ UNCHANGED <<svcvars, procs, devs, heap, fs, smp>>
  BY <1>4, MemStep, SameKeeps DEF ServicesInv
<1>5. CASE DevNext /\ UNCHANGED <<svcvars, procs, mem, heap, fs, smp>>
  BY <1>5, DevStep, SameKeeps DEF ServicesInv
<1>6. CASE HeapNext /\ UNCHANGED <<svcvars, procs, mem, devs, fs, smp>>
  BY <1>6, HeapStep, SameKeeps DEF ServicesInv
<1>7. CASE FilesNext /\ UNCHANGED <<svcvars, procs, mem, devs, heap, smp>>
  BY <1>7, FilesStep, SameKeeps DEF ServicesInv
<1>8. CASE SmpNext /\ UNCHANGED <<svcvars, procs, mem, devs, heap, fs>>
  BY <1>8, SmpStep, SameKeeps DEF ServicesInv
<1>. QED  BY <1>1, <1>2, <1>3, <1>4, <1>5, <1>6, <1>7, <1>8 DEF Next

\* They start with nothing but the system's process and its file.
LEMMA ServicesStart ==
  ASSUME Init  PROVE ServicesInv
<1>1. SvcInv
  BY SvcStart DEF Init
<1>2. ProcInv
  BY ManagersAssumption DEF Init, ManagersInit, ProcInv, ProcSlots
<1>3. MemInv
  BY DEF Init, ManagersInit, MemInv
<1>4. DevInv
  BY DEF Init, ManagersInit, DevInv
<1>5. HeapInv
  <2>1. Len(<<>>) = 0 /\ PoolSize \in Nat /\ <<>> \in Seq(BlockSet)
    BY HeapAssumption
  <2>. QED  BY <2>1 DEF Init, HeapInit, HeapInv, Tiled, Apart
<1>6. FilesInv
  <2>1. 1 \in 0..MAX_RECORD_SIZE /\ 0 \in 0..MAX_RECORD_SIZE /\ 1 \in 0..MAX_RECS_PER_FILE
        /\ 0 \in 0..MAX_RECS_PER_FILE /\ startup \in Paths
    BY FileAssumption
  <2>. QED  BY <2>1 DEF Init, FilesInit, FilesInv, NoFile, NoRecord
<1>7. SmpInv
  <2>1. 0 \in 0..MaxSem /\ MaxSem \in Nat
    BY SmpAssumption
  <2>. QED  BY <2>1 DEF Init, SmpInit, SmpInv, SmpTypeOK, sem_waiters, woken_for
<1>. QED  BY <1>1, <1>2, <1>3, <1>4, <1>5, <1>6, <1>7 DEF ServicesInv

\* The inductive invariant of the services.
THEOREM ServicesInvariant == Spec => []ServicesInv
<1>1. Init => ServicesInv
  BY ServicesStart
<1>2. ServicesInv /\ [Next]_vars => ServicesInv'
  BY ServicesStep
<1>. QED  BY <1>1, <1>2, PTL DEF Spec

-----------------------------------------------------------------------------
(* The properties.                                                         *)

\* Ids and entries name what they did, and the heap is covered by its blocks.
LEMMA OwnedHandles ==
  ASSUME ProcInv, MemInv, DevInv  PROVE HandlesExact
<1>1. ASSUME NEW adr \in Bases  PROVE Cardinality(mbk(adr)) = IF adr \in malloced THEN 1 ELSE 0
  <2>1. CASE adr \in malloced
    <3>1. PICK i \in MemSlots : g_mem_table[i] # NULL /\ g_mem_table[i].base_ptr = adr
      BY <2>1 DEF MemInv
    <3>2. mbk(adr) = {i}
      BY <3>1 DEF MemInv, mbk
    <3>. QED  BY <2>1, <3>2, FS_Singleton
  <2>2. CASE adr \notin malloced
    <3>1. mbk(adr) = {}
      BY <2>2, SMTT(40) DEF MemInv, mbk
    <3>. QED  BY <2>2, <3>1, FS_EmptySet
  <2>. QED  BY <2>1, <2>2
<1>. QED  BY <1>1 DEF HandlesExact, ProcInv, DevInv

\* The blocks cover the heap used so far, with no two free ones side by side.
LEMMA OwnedHeap ==
  ASSUME HeapInv  PROVE HeapTiled
<1>. SUFFICES /\ \A i \in DOMAIN blocks :
                   LET next == IF i = Len(blocks) THEN s_heap_offset ELSE blocks[i + 1].adr
                   IN  /\ blocks[i].size > 0 /\ blocks[i].adr + Header + blocks[i].size = next
                       /\ blocks[i].free => i < Len(blocks) /\ ~blocks[i + 1].free
              /\ blocks # <<>> => blocks[1].adr = 0
              /\ blocks = <<>> => s_heap_offset = 0
  BY DEF HeapTiled
<1>1. /\ blocks \in Seq(BlockSet) /\ (blocks # <<>> => blocks[1].adr = 0) /\ (blocks = <<>> => s_heap_offset = 0)
      /\ \A i \in 1..Len(blocks) : End(blocks[i]) = IF i = Len(blocks) THEN s_heap_offset ELSE blocks[i + 1].adr
      /\ \A i \in 1..Len(blocks) : blocks[i].free => i < Len(blocks) /\ ~blocks[i + 1].free
  BY DEF HeapInv, Tiled, Apart
<1>2. DOMAIN blocks = 1..Len(blocks)
  BY <1>1, LenProperties
<1>3. \A i \in 1..Len(blocks) : blocks[i].size > 0
  <2>1. ASSUME NEW i \in 1..Len(blocks)  PROVE blocks[i] \in BlockSet
    BY <1>1, <1>2, ElementOfSeq
  <2>2. \A b \in BlockSet : b.size > 0
    BY DEF BlockSet
  <2>. QED  BY <2>1, <2>2, SMTT(40)
<1>. QED  BY <1>1, <1>2, <1>3 DEF End

\* Devices hold their bytes in order.
LEMMA BytesKept ==
  ASSUME DevInv  PROVE DeviceBytesInOrder
BY DEF DevInv, DevOK, DeviceBytesInOrder

\* Records and handles stay within their bounds.
LEMMA RecordsKept ==
  ASSUME FilesInv  PROVE RecordsBounded
BY DEF FilesInv, Handles, RecordsBounded

\* A semaphore that counts has a thread on its way to it, if any is blocked.
LEMMA SignalsKept ==
  ASSUME SmpInv  PROVE SmpSignalsKept
<1>. SUFFICES ASSUME NEW s \in SmpSems, sem[s].count > 0, sem_waiters(s) # {}
     PROVE  \E t \in SmpTasks : thread[t] = "woken" /\ s \in wants[t]
  BY DEF SmpSignalsKept
<1>1. Cardinality(woken_for(s)) >= sem[s].count /\ sem[s].count \in Nat
  BY SmpAssumption DEF SmpInv
<1>2. woken_for(s) # {}
  <2>1. woken_for(s) = {} => Cardinality(woken_for(s)) = 0
    BY FS_EmptySet
  <2>. QED  BY <1>1, <2>1
<1>. QED  BY <1>2 DEF woken_for

\* Type correctness of the services.
THEOREM ServicesTypeOK == Spec => []TypeOK
<1>1. ServicesInv => TypeOK
  <2>. SUFFICES ASSUME ServicesInv  PROVE TypeOK
    OBVIOUS
  <2>1. SvcTypeOK
    BY SvcTypesOK DEF ServicesInv
  <2>2. ManagersTypeOK
    <3>1. ASSUME NEW i \in DevSlots, g_devs[i] # NULL  PROVE Len(g_devs[i].buf) <= BufSize
      <4>1. PICK d : d = g_devs[i]
        OBVIOUS
      <4>2. DevOK(d)
        BY <3>1, <4>1 DEF ServicesInv, DevInv
      <4>3. d.rd \in Nat /\ d.wr \in Nat /\ d.rd <= d.wr /\ d.wr - d.rd <= BufSize
        BY <4>2 DEF DevOK
      <4>4. PICK b, n : b = d.buf /\ n = d.wr - d.rd
        OBVIOUS
      <4>5. n \in Nat /\ n <= BufSize
        BY <4>3, <4>4
      <4>6. b \in Seq(Nat) /\ b = [k \in 1..n |-> d.rd + k]
        BY <4>2, <4>4 DEF DevOK
      <4>7. Len(b) = n
        BY <4>5, <4>6, LenProperties
      <4>. QED  BY <4>1, <4>4, <4>5, <4>7
    <3>. QED  BY <3>1 DEF ServicesInv, ProcInv, MemInv, ManagersTypeOK
  <2>3. FilesTypeOK
    <3>1. \A fd \in Fds : g_files[fd].path \in Paths \cup {NULL} /\ g_files[fd].num_records <= MAX_RECS_PER_FILE
      BY FileAssumption DEF ServicesInv, FilesInv
    <3>2. \A id \in RecIds : g_open_recs[id] # NULL =>
             g_open_recs[id].fd \in Fds /\ g_open_recs[id].rec_idx \in Recs
      BY DEF ServicesInv, FilesInv, Handles
    <3>. QED  BY <3>1, <3>2 DEF FilesTypeOK
  <2>4. SmpTypeOK
    BY DEF ServicesInv, SmpInv
  <2>. QED  BY <2>1, <2>2, <2>3, <2>4 DEF TypeOK
<1>. QED  BY <1>1, ServicesInvariant, PTL

\* Locks, ids, blocks of memory and the bytes of the kernel heap are accounted
\* for exactly once (LockSVC, UnlockSVC, AllUnlockSVC; cre_prc, opn_dev_mgr,
\* get_mbk, rel_mbk; Imalloc, Ifree).
THEOREM ServicesOwnedOnce == Spec => []OwnedOnce
<1>1. ServicesInv => OwnedOnce
  BY LocksExact, OwnedHandles, OwnedHeap DEF ServicesInv, OwnedOnce
<1>. QED  BY <1>1, ServicesInvariant, PTL

\* Devices keep their bytes in order, records their bounds and semaphores their
\* signals (wri_dev, rea_dev; wr_rec, trn_rec, del_rec; sig_sem, wai_sem).
THEOREM ServicesDataKept == Spec => []DataKept
<1>1. ServicesInv => DataKept
  BY BytesKept, RecordsKept, SignalsKept DEF ServicesInv, DataKept
<1>. QED  BY <1>1, ServicesInvariant, PTL

\* A pending task exception has a handler running or requested, and without a
\* handler none is to be executed but what tk_def_tex forgot while an extended SVC
\* had it saved (tk_ras_tex, tk_def_tex, tk_end_tex, svc_ientry, setup_texhdr).
THEOREM TaskExceptionsKept == Spec => []ExceptionsKept
<1>1. ServicesInv => ExceptionsKept
  BY NothingForgotten DEF ServicesInv
<1>. QED  BY <1>1, ServicesInvariant, PTL

\* Break functions that call extended SVCs only where svc_ientry called them keep
\* apart from the entry and the exit of the extended SVC they break, which they
\* break once (svc_ientry, call_brkhdr, BREAK_RAN); where tk_ras_tex of the task
\* itself called them they do not.
THEOREM BreakFunctionsExclusive ==
  ASSUME "self" \notin BreakCalls
  PROVE  Spec => []BreakExclusive
<1>1. ServicesInv => BreakExclusive
  BY BreaksApart DEF ServicesInv
<1>. QED  BY <1>1, ServicesInvariant, PTL

=============================================================================
