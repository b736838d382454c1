----------------------------- MODULE Rendezvous -----------------------------
(***************************************************************************)
(* Rendezvous ports of the T-Kernel (rendezvous.c).  A caller waits in the *)
(* call queue of a port (CAL), then for the end of its rendezvous (RDV) in *)
(* no queue at all: only the rendezvous number ties it to the task that    *)
(* accepted it, which may pass it on to another port or keep a number that *)
(* is no longer good.                                                      *)
(***************************************************************************)
EXTENDS KernelTasks

CONSTANTS Ports,
          CalPatterns, \* the values of calptn, sets of bits
          AcpPatterns, \* the values of acpptn
          PortKinds,   \* of every port, the attributes and maxrmsz it may be created with
          MaxOdd       \* bound: numbers held, waits disabled and priorities changed,
                       \* all together, at a time; priorities while no number is held

ASSUME RendezvousAssumption == MaxOdd \in Nat \ {0} /\ \A p \in Ports : PortKinds[p] \subseteq [atr : ObjAtr, maxrmsz : Nat]

VARIABLES porcb,       \* poratr, maxrmsz and existence of every port
          call_queue, accept_queue,
          rtcb,        \* the tasks; buf (history): the size of the reply buffer a caller brought
          holds        \* history: the rendezvous numbers a task has received and not used

por == <<porcb, call_queue, accept_queue, rtcb, holds>>

Waits == {"CAL", "ACP", "RDV"}

\* is_diswai
port_diswai(p, t, wait) == wait \in rtcb[t].mask /\ ~porcb[p].atr.nodiswai

\* Mutant: the number stays the same.
gen_rdvno_same(t) == <<t, 0>>

\* gen_rdvno counts up: the number is not one that anybody still holds, as long
\* as nobody keeps one over the 65535 following calls of the same task.
gen_rdvno(t) == <<t, Min({n \in 0..MaxOdd :
                            \A u \in Tasks : <<t, n>> \notin holds[u]})>>
held_by_any == UNION {holds[u] : u \in Tasks}
masked == {u \in Tasks : rtcb[u].mask # {}}
moved  == {u \in Tasks : rtcb[u].pri # INI_PRI}
room   == Cardinality(held_by_any) + Cardinality(masked) + Cardinality(moved) < MaxOdd

pri == [t \in Tasks |-> rtcb[t].pri]

\* The first task of q whose pattern meets ptn; NULL if there is none.
first_match(q, ptn) ==
    LET i == SelectInSeq(q, LAMBDA u : rtcb[u].ptn \cap ptn # {})
    IN  IF i = 0 THEN NULL ELSE q[i]

-----------------------------------------------------------------------------
PorInit == /\ porcb = [p \in Ports |-> [exists |-> FALSE]]
           /\ call_queue = [p \in Ports |-> <<>>] /\ accept_queue = [p \in Ports |-> <<>>]
           /\ rtcb = [t \in Tasks |-> [state |-> "READY", wid |-> NULL, ptn |-> {}, rdvno |-> NULL,
                                       maxrmsz |-> 0, nodiswai |-> FALSE, mask |-> {},
                                       pri |-> INI_PRI, buf |-> 0]]
           /\ holds = [t \in Tasks |-> {}]

\* What is left of the wait of a task when it ends.
Ready(r) == [r EXCEPT !.state = "READY", !.wid = NULL, !.ptn = {}, !.rdvno = NULL,
                      !.maxrmsz = 0, !.nodiswai = FALSE, !.buf = 0]

\* tk_cre_por
CrePor(p, pk_cpor) ==
    /\ ~porcb[p].exists
    /\ porcb' = [porcb EXCEPT ![p] = [exists |-> TRUE, atr |-> pk_cpor.atr, maxrmsz |-> pk_cpor.maxrmsz]]
    /\ UNCHANGED <<call_queue, accept_queue, rtcb, holds>>

\* tk_del_por; a rendezvous that has begun goes on.
DelPor(p) ==
    /\ porcb[p].exists
    /\ porcb' = [porcb EXCEPT ![p] = [exists |-> FALSE]]
    /\ call_queue' = [call_queue EXCEPT ![p] = <<>>]
    /\ accept_queue' = [accept_queue EXCEPT ![p] = <<>>]
    /\ rtcb' = [t \in Tasks |-> IF rtcb[t].state \in {"CAL", "ACP"} /\ rtcb[t].wid = p
                                  THEN Ready(rtcb[t]) ELSE rtcb[t]]
    /\ UNCHANGED holds

\* The task t waits for the end of the rendezvous with a new number.
rdv_wait(t, p, buf) == [rtcb[t] EXCEPT !.state = "RDV", !.wid = NULL, !.ptn = {}, !.rdvno = gen_rdvno(t),
                                  !.maxrmsz = porcb[p].maxrmsz, 
                                  !.nodiswai = porcb[p].atr.nodiswai, !.buf = buf]
cal_wait(t, p, ptn, buf) ==
    [Ready(rtcb[t]) EXCEPT !.state = "CAL", !.wid = p, !.ptn = ptn,
                           !.nodiswai = porcb[p].atr.nodiswai, !.buf = buf]

\* The call reaches the acceptor a; the caller waits for the reply unless that
\* wait is disabled: then the acceptor has a number that is good for nothing.
meet(t, a, p, buf) ==
    /\ accept_queue' = [accept_queue EXCEPT ![p] = QueRemove(@, a)]
    /\ rtcb' = [rtcb EXCEPT ![a] = Ready(@),
                            ![t] = IF port_diswai(p, t, "RDV")
                                     THEN Ready(@) ELSE rdv_wait(t, p, buf)]

\* tk_cal_por
CalPor(t, p, ptn) ==
    LET a == first_match(accept_queue[p], ptn)
    IN  /\ rtcb[t].state = "READY" /\ porcb[p].exists /\ ~port_diswai(p, t, "CAL")
        /\ \/ /\ a # NULL /\ room
              /\ meet(t, a, p, porcb[p].maxrmsz)
              /\ holds' = [holds EXCEPT ![a] = @ \cup {gen_rdvno(t)}]
              /\ UNCHANGED call_queue
           \/ /\ a = NULL
              /\ rtcb' = [rtcb EXCEPT ![t] = cal_wait(t, p, ptn, porcb[p].maxrmsz)]
              /\ call_queue' = [call_queue EXCEPT ![p] = gcb_make_wait(@, t, pri, porcb[p].atr.tpri)]
              /\ UNCHANGED <<accept_queue, holds>>
        /\ UNCHANGED porcb

\* tk_acp_por; acceptors wait in the order of arrival.
AcpPor(t, p, ptn) ==
    LET c == first_match(call_queue[p], ptn)
    IN  /\ rtcb[t].state = "READY" /\ porcb[p].exists /\ ~port_diswai(p, t, "ACP")
        /\ \/ /\ c # NULL /\ room
              /\ rtcb' = [rtcb EXCEPT ![c] = IF port_diswai(p, c, "RDV")
                                               THEN Ready(@) ELSE rdv_wait(c, p, rtcb[c].buf)]
              /\ call_queue' = [call_queue EXCEPT ![p] = QueRemove(@, c)]
              /\ holds' = [holds EXCEPT ![t] = @ \cup {gen_rdvno(c)}]
              /\ UNCHANGED accept_queue
           \/ /\ c = NULL
              /\ rtcb' = [rtcb EXCEPT ![t].state = "ACP", ![t].wid = p, ![t].ptn = ptn,
                                      ![t].nodiswai = porcb[p].atr.nodiswai]
              /\ accept_queue' = [accept_queue EXCEPT ![p] = QueInsert(@, t)]
              /\ UNCHANGED <<call_queue, holds>>
        /\ UNCHANGED porcb

\* r is the number under which its caller waits.
good(r) == rtcb[r[1]].state = "RDV" /\ rtcb[r[1]].rdvno = r

\* tk_fwd_por is refused to a port with longer replies.
may_forward(r, p) ==
    good(r) /\ porcb[p].exists /\ porcb[p].maxrmsz <= rtcb[r[1]].maxrmsz

\* tk_fwd_por of the rendezvous r by t, which does not use r any more.
FwdPor(t, p, ptn, r) ==
    LET c == r[1]
        a == first_match(accept_queue[p], ptn)
    IN  /\ rtcb[t].state = "READY" /\ r \in holds[t] /\ may_forward(r, p)
        /\ \/ /\ port_diswai(p, c, "CAL")
              /\ rtcb' = [rtcb EXCEPT ![c] = Ready(@)]
              /\ holds' = [holds EXCEPT ![t] = @ \ {r}]
              /\ UNCHANGED <<call_queue, accept_queue>>
           \/ /\ ~port_diswai(p, c, "CAL") /\ a # NULL /\ room
              /\ meet(c, a, p, rtcb[c].buf)
              /\ holds' = [u \in Tasks |-> (holds[u] \ (IF u = t THEN {r} ELSE {}))
                                             \cup (IF u = a THEN {gen_rdvno(c)} ELSE {})]
              /\ UNCHANGED call_queue
           \/ /\ ~port_diswai(p, c, "CAL") /\ a = NULL
              /\ rtcb' = [rtcb EXCEPT ![c] = cal_wait(c, p, ptn, rtcb[c].buf)]
              /\ call_queue' = [call_queue EXCEPT ![p] = gcb_make_wait(@, c, pri, porcb[p].atr.tpri)]
              /\ holds' = [holds EXCEPT ![t] = @ \ {r}]
              /\ UNCHANGED accept_queue
        /\ UNCHANGED porcb

\* tk_rpl_rdv of a number that t holds, good or not (E_OBJ).
RplRdv(t, r) ==
    /\ rtcb[t].state = "READY" /\ r \in holds[t]
    /\ rtcb' = IF good(r) THEN [rtcb EXCEPT ![r[1]] = Ready(@)] ELSE rtcb
    /\ holds' = [holds EXCEPT ![t] = @ \ {r}]
    /\ UNCHANGED <<porcb, call_queue, accept_queue>>

-----------------------------------------------------------------------------
\* Mutant: an acceptor stays in its queue.
unqueue_caller(t) == /\ call_queue' = [p \in Ports |-> QueRemove(call_queue[p], t)]
                     /\ UNCHANGED accept_queue

\* The task t leaves the queue it waits in.
unqueue(t) == /\ call_queue' = [p \in Ports |-> QueRemove(call_queue[p], t)]
              /\ accept_queue' = [p \in Ports |-> QueRemove(accept_queue[p], t)]

\* tk_rel_wai or a timeout: none of the three waits has a hook.
RelWai(t) == /\ rtcb[t].state \in Waits
             /\ rtcb' = [rtcb EXCEPT ![t] = Ready(@)]
             /\ unqueue(t) /\ UNCHANGED <<porcb, holds>>

\* tk_dis_wai of one kind of wait
DisWaiRdv(t, wait) ==
    /\ room
    /\ IF rtcb[t].state = wait /\ ~rtcb[t].nodiswai
         THEN unqueue(t) /\ rtcb' = [rtcb EXCEPT ![t] = [Ready(@) EXCEPT !.mask = {wait}]]
         ELSE UNCHANGED <<call_queue, accept_queue>> /\ rtcb' = [rtcb EXCEPT ![t].mask = {wait}]
    /\ UNCHANGED <<porcb, holds>>

\* tk_ena_wai
EnaWaiRdv(t) == /\ rtcb' = [rtcb EXCEPT ![t].mask = {}]
                /\ UNCHANGED <<porcb, call_queue, accept_queue, holds>>

\* tk_ter_tsk and tk_sta_tsk again.
RestartTsk(t) ==
    /\ rtcb' = [rtcb EXCEPT ![t] = [Ready(@) EXCEPT !.mask = {}, !.pri = INI_PRI]]
    /\ holds' = [holds EXCEPT ![t] = {}]
    /\ unqueue(t) /\ UNCHANGED porcb

\* tk_chg_pri; cal_chg_pri with TA_TPRI.
ChgPriRdv(t, p) ==
    /\ p = INI_PRI \/ (room /\ held_by_any = {})
    /\ rtcb' = [rtcb EXCEPT ![t].pri = p]
    /\ LET now == [pri EXCEPT ![t] = p]
           w == rtcb[t].wid
       IN  call_queue' = IF rtcb[t].state = "CAL" /\ porcb[w].atr.tpri
                           THEN [call_queue EXCEPT ![w] = gcb_change_priority(@, t, now)]
                           ELSE call_queue
    /\ UNCHANGED <<porcb, accept_queue, holds>>

PorNext ==
    \/ \E p \in Ports :
         \/ DelPor(p)
         \/ \E pk_cpor \in PortKinds[p] : CrePor(p, pk_cpor)
         \/ \E t \in Tasks :
              \/ \E ptn \in AcpPatterns : AcpPor(t, p, ptn)
              \/ \E ptn \in CalPatterns :
                   CalPor(t, p, ptn) \/ \E r \in holds[t] : FwdPor(t, p, ptn, r)
    \/ \E t \in Tasks :
         \/ \E r \in holds[t] : RplRdv(t, r)
         \/ \E wait \in Waits : DisWaiRdv(t, wait)
         \/ \E p \in Pri : ChgPriRdv(t, p)
         \/ RelWai(t) \/ EnaWaiRdv(t) \/ RestartTsk(t)

PorSpec == PorInit /\ [][PorNext]_por

-----------------------------------------------------------------------------
\* The queues hold exactly the tasks that wait in them, with TA_TPRI in the order
\* of their priorities; who waits for the end of a rendezvous is in none.
PortQueuesExact ==
    \A p \in Ports :
      /\ IsInjective(call_queue[p]) /\ IsInjective(accept_queue[p])
      /\ ToSet(call_queue[p]) = {t \in Tasks : rtcb[t].state = "CAL" /\ rtcb[t].wid = p}
      /\ ToSet(accept_queue[p]) = {t \in Tasks : rtcb[t].state = "ACP" /\ rtcb[t].wid = p}
      /\ porcb[p].exists /\ porcb[p].atr.tpri => PriorityOrdered(call_queue[p], pri)
      /\ ~porcb[p].exists => call_queue[p] = <<>> /\ accept_queue[p] = <<>>

\* No caller waits while an acceptor waits at the same port for its pattern.
NobodyCouldMeet ==
    \A p \in Ports : \A c \in ToSet(call_queue[p]), a \in ToSet(accept_queue[p]) :
      rtcb[c].ptn \cap rtcb[a].ptn = {}

\* A rendezvous has one server: whoever passed it on, or kept a number over the
\* end of an earlier call, has no number with which the caller could be answered.
OneServer ==
    \A c \in Tasks : rtcb[c].state = "RDV" =>
      \A t, u \in Tasks : rtcb[c].rdvno \in holds[t] \cap holds[u] => t = u

\* The reply a caller may be given is never longer than the buffer it brought to
\* the port it called first, through whatever ports the rendezvous was passed.
ReplyFits ==
    \A c \in Tasks : /\ rtcb[c].state = "RDV" => rtcb[c].maxrmsz <= rtcb[c].buf
                     /\ rtcb[c].state = "CAL" => porcb[rtcb[c].wid].maxrmsz <= rtcb[c].buf

\* tk_rpl_rdv may write the reply without looking further: the caller waits for
\* this server alone, and has room for it.
RendezvousExact == OneServer /\ ReplyFits

=============================================================================
