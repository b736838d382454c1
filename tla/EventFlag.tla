----------------------------- MODULE EventFlag -----------------------------
(***************************************************************************)
(* An event flag of the T-Kernel (eventflag.c).  A bit pattern is the set  *)
(* of its bits.  waiptn and wfmode of a task are kept only while it waits. *)
(***************************************************************************)
EXTENDS WaitObject

CONSTANTS Bits, Modes   \* Modes: the wfmode a task may pass

WfMode == [orw : BOOLEAN, clr : BOOLEAN, bitclr : BOOLEAN]
NoWait == [waiptn |-> {}, wfmode |-> [orw |-> FALSE, clr |-> FALSE, bitclr |-> FALSE]]

ASSUME FlagAssumption == Modes \subseteq WfMode

VARIABLES wmul,     \* flgcb->flgatr & TA_WMUL
          flgptn,   \* flgcb->flgptn
          waiflg,   \* tcb->winfo.flg
          given     \* history: who was satisfied in the last step, in order, and
                    \* the pattern it was told

flg  == <<wmul, flgptn, waiflg, given>>

\* eventflag_cond
eventflag_cond(ptn, waiptn, wfmode) ==
    IF wfmode.orw THEN ptn \cap waiptn # {} ELSE waiptn \subseteq ptn

\* What a satisfied wait leaves of the pattern: TWF_BITCLR, TWF_CLR.
clear(ptn, waiptn, wfmode) == IF wfmode.clr THEN {}
                              ELSE IF wfmode.bitclr THEN ptn \ waiptn ELSE ptn

\* Mutant: the pattern is cleared after the loop only.
flg_release_late_clear(k, t) ==
    LET w == waiflg[t]
    IN  IF ~eventflag_cond(k.ptn, w.waiptn, w.wfmode) THEN k
        ELSE [k EXCEPT !.given = Append(@, [task |-> t, ptn |-> k.ptn, want |-> w])]

\* One turn of the loop of tk_set_flg; it breaks off when the pattern is empty,
\* which satisfies nobody.
flg_release(k, t) ==
    LET w == waiflg[t]
    IN  IF ~eventflag_cond(k.ptn, w.waiptn, w.wfmode) THEN k
        ELSE [ptn   |-> clear(k.ptn, w.waiptn, w.wfmode),
              given |-> Append(k.given, [task |-> t, ptn |-> k.ptn, want |-> w])]

\* The waiflg of the tasks that still wait.
Waiting(w) == waiflg' = [t \in Tasks |-> IF state'[t] = "WAIT" THEN w[t] ELSE NoWait]

-----------------------------------------------------------------------------
FlgInit == wmul = FALSE /\ flgptn = {} /\ waiflg = [t \in Tasks |-> NoWait] /\ given = <<>>
\* tk_cre_flg
CreFlg(atr, mul, ptn) == /\ create(atr)
                         /\ wmul' = mul /\ flgptn' = ptn /\ given' = <<>>
                         /\ UNCHANGED waiflg

\* tk_del_flg
DelFlg == wait_delete /\ Waiting(waiflg) /\ given' = <<>> /\ UNCHANGED <<wmul, flgptn>>

\* tk_set_flg
SetFlg(setptn) ==
    /\ objid
    /\ LET k == Loop(wait_queue, [ptn |-> flgptn \cup setptn, given |-> <<>>], flg_release)
       IN  /\ flgptn' = k.ptn
           /\ given' = k.given
           /\ wait_release_ok({k.given[i].task : i \in DOMAIN k.given})
    /\ Waiting(waiflg)
    /\ UNCHANGED <<gcb, waitmask, priority, wmul>>

\* tk_clr_flg
ClrFlg(clrptn) == /\ objid
                  /\ flgptn' = flgptn \cap clrptn
                  /\ given' = <<>>
                  /\ UNCHANGED <<gcb, tasks, wmul, waiflg>>

\* The checks of tk_wai_flg.
wai_allowed(t) == /\ state[t] = "READY" /\ objid
                  /\ wmul \/ isQueEmpty(wait_queue)
                  /\ ~is_diswai(t)

\* tk_wai_flg, with a timeout or without; a poll that fails is an error return.
WaiFlg(t, waiptn, wfmode) ==
    LET want == [waiptn |-> waiptn, wfmode |-> wfmode]
        met  == eventflag_cond(flgptn, waiptn, wfmode)
    IN  /\ waiptn # {} /\ wai_allowed(t)
        /\ \/ /\ met
              /\ flgptn' = clear(flgptn, waiptn, wfmode)
              /\ given' = <<[task |-> t, ptn |-> flgptn, want |-> want]>>
              /\ UNCHANGED <<tasks, waiflg>>
           \/ /\ ~met
              /\ make_wait_with_diswai(t)
              /\ Waiting([waiflg EXCEPT ![t] = want])
              /\ given' = <<>>
              /\ UNCHANGED <<waitmask, priority, flgptn>>
        /\ UNCHANGED <<gcb, wmul>>

\* A call on the task t (WaitObject).
FlgTaskCall(t) == /\ WaitCall(t) \/ TerTsk(t)
                  /\ Waiting(waiflg) /\ given' = <<>> /\ UNCHANGED <<wmul, flgptn>>

FlgNext ==
    \/ \E atr \in Attributes, mul \in BOOLEAN, ptn \in SUBSET Bits : CreFlg(atr, mul, ptn)
    \/ DelFlg
    \/ \E ptn \in SUBSET Bits : SetFlg(ptn) \/ ClrFlg(ptn)
    \/ \E t \in Tasks : FlgTaskCall(t) \/ \E ptn \in SUBSET Bits, mode \in Modes : WaiFlg(t, ptn, mode)

FlgSpec == GcbInit /\ FlgInit /\ [][FlgNext]_<<gcb, tasks, flg>>

-----------------------------------------------------------------------------
FlgTypeOK == /\ flgptn \in SUBSET Bits /\ wmul \in BOOLEAN
             /\ waiflg \in [Tasks -> [waiptn : SUBSET Bits, wfmode : WfMode]]

\* TA_WSGL: at most one task waits.
SingleWait == ~wmul => Len(wait_queue) <= 1

\* No lost wakeup: nobody waits whose condition the pattern meets.
NobodyMet ==
    \A t \in ToSet(wait_queue) : ~eventflag_cond(flgptn, waiflg[t].waiptn, waiflg[t].wfmode)

\* An event is consumed once: a task is told only a pattern that meets its
\* condition, and after one that clears (TWF_CLR, TWF_BITCLR) no task behind it
\* in the queue is told the bits it cleared, nor does the flag keep them.
EachEventOnce ==
    \A i \in DOMAIN given :
       LET w    == given[i].want
           gone == IF w.wfmode.clr THEN Bits ELSE IF w.wfmode.bitclr THEN w.waiptn ELSE {}
       IN  /\ eventflag_cond(given[i].ptn, w.waiptn, w.wfmode)
           /\ gone \cap flgptn = {}
           /\ \A j \in DOMAIN given : i < j => gone \cap given[j].ptn = {}

=============================================================================
