----------------------------- MODULE Subsystem -----------------------------
(***************************************************************************)
(* Extended SVCs, the functions of subsystems and task exceptions          *)
(* (subsystem.c, setup_texhdr of cpu_init.c), and the extended SVC locks   *)
(* that keep the entry and the exit of an extended SVC apart from its      *)
(* break function (klock.c).                                               *)
(*                                                                         *)
(* The tasks interleave at every point outside a critical section.  A task *)
(* is a stack of the handlers it is in (frames) and a place in the call it *)
(* makes (pc); which task runs is left open.                               *)
(***************************************************************************)
EXTENDS Tables, Queue

CONSTANTS SvcTasks,    \* the tasks
          Ssids,       \* the subsystems
          Codes,       \* task exception codes; all but 0 stand for 1 to 31
          MaxFrames,   \* bound: handlers nested in each task
          TexTasks,    \* bound: the tasks that call extended SVCs and define exception
                       \* handlers; the others raise exceptions in them
          TexMasks,    \* what tk_ena_tex and tk_dis_tex leave enabled
          BasePri,     \* bpriority of each task
          BreakCalls   \* where a break function calls extended SVCs: "tail",
                       \* called by svc_ientry; "self", by a tk_ras_tex of its task

ASSUME SubsystemAssumption == /\ MaxFrames \in [SvcTasks -> Nat]
                              /\ TexTasks \subseteq SvcTasks /\ TexMasks \subseteq SUBSET Codes
                              /\ Codes \subseteq Nat
                              /\ BasePri \in [SvcTasks -> Nat]
                              /\ BreakCalls \subseteq {"tail", "self"}
                              /\ NULL \notin Ssids /\ NULL \notin Seq(SvcTasks)

VARIABLES
    ssycb,      \* "undefined" (no_support), or "break", with a break function
    tstat,      \* "DORMANT", "READY", "SUSPEND"
    pc,         \* the step of the call the task makes, [at |-> "run"] if none
    frames,     \* the handlers it runs, the innermost last
    svclocked,  \* tcb->svclocked: the locks it holds, the latest first
    wtskq,      \* the queue of the lock of each task, NULL if it is free
    execssid,   \* [ssid, ran]: ran is BREAK_RAN
    diswai,     \* TTX_SVC of tcb->waitmask
    texhdr,     \* whether a task exception handler is defined
    forgotten,  \* history: what tk_def_tex forgot while extended SVCs had it saved
    texmask, pendtex, exectex, texflg,
    reqdct,     \* request_tex: the handler starts when the task is back in user mode
    pri         \* tcb->priority

lockvars == <<svclocked, wtskq>>
texvars  == <<texhdr, forgotten, texmask, pendtex, exectex, texflg, reqdct>>
svcvars  == <<ssycb, tstat, pc, frames, lockvars, execssid, diswai, texvars, pri>>

Run == [at |-> "run"]
NoSvc == [ssid |-> NULL, ran |-> FALSE]

SvcInit == /\ ssycb = [s \in Ssids |-> "undefined"]
           /\ tstat = [t \in SvcTasks |-> "READY"]
           /\ pc = [t \in SvcTasks |-> Run]
           /\ frames = [t \in SvcTasks |-> <<>>]
           /\ svclocked = [t \in SvcTasks |-> <<>>]
           /\ wtskq = [t \in SvcTasks |-> NULL]
           /\ execssid = [t \in SvcTasks |-> NoSvc]
           /\ diswai = [t \in SvcTasks |-> FALSE]
           /\ texhdr = [t \in SvcTasks |-> FALSE]
           /\ forgotten = [t \in SvcTasks |-> {}]
           /\ texmask = [t \in SvcTasks |-> {}]
           /\ pendtex = [t \in SvcTasks |-> {}]
           /\ exectex = [t \in SvcTasks |-> {}]
           /\ texflg = [t \in SvcTasks |-> {}]
           /\ reqdct = [t \in SvcTasks |-> FALSE]
           /\ pri = BasePri

klockwait(t) == \E l \in SvcTasks : wtskq[l] # NULL /\ Contains(wtskq[l], t)
at(t, p) == tstat[t] = "READY" /\ ~klockwait(t) /\ pc[t].at = p
goto(t, p) == pc' = [pc EXCEPT ![t] = p]
push(t, f) == frames' = [frames EXCEPT ![t] = Append(@, f)]
pop(t) == frames' = [frames EXCEPT ![t] = Front(@)]
in(t, f) == frames[t] # <<>> /\ Last(frames[t]).f = f

-----------------------------------------------------------------------------
\* The locks.

\* ctxtsk->svclocked == loc
latest(t, l) == svclocked[t] # <<>> /\ Head(svclocked[t]) = l

\* LockSVC: the lock is taken, or was handed over, or is waited for.
LockSVC(t, l, next) ==
    \/ /\ latest(t, l)
       /\ goto(t, next) /\ UNCHANGED lockvars
    \/ /\ ~latest(t, l)
       /\ IF wtskq[l] = NULL
            THEN /\ wtskq' = [wtskq EXCEPT ![l] = <<>>]
                 /\ svclocked' = [svclocked EXCEPT ![t] = <<l>> \o @]
                 /\ goto(t, next)
            ELSE /\ wtskq' = [wtskq EXCEPT ![l] = Append(@, t)]
                 /\ UNCHANGED <<svclocked, pc>>

\* The lock goes to its first waiter, or is free.
pass_on(sl, wq, l) ==
    IF wq[l] = <<>> THEN [sl |-> sl, wq |-> [wq EXCEPT ![l] = NULL]]
    ELSE [sl |-> [sl EXCEPT ![Head(wq[l])] = <<l>> \o @],
          wq |-> [wq EXCEPT ![l] = Tail(wq[l])]]

\* UnlockSVC; without a lock it would read through a null svclocked.
UnlockSVC(t) ==
    IF svclocked[t] = <<>> THEN UNCHANGED lockvars
    ELSE LET p == pass_on([svclocked EXCEPT ![t] = Tail(@)], wtskq, Head(svclocked[t]))
         IN  svclocked' = p.sl /\ wtskq' = p.wq

\* AllUnlockSVC and, of a task that waits for a lock, leaving the queue.
AllUnlockSVC(t) ==
    LET left == [l \in SvcTasks |-> IF wtskq[l] = NULL THEN NULL ELSE Without(wtskq[l], {t})]
        p == Loop(svclocked[t], [sl |-> [svclocked EXCEPT ![t] = <<>>], wq |-> left],
                  LAMBDA a, l : pass_on(a.sl, a.wq, l))
    IN  svclocked' = p.sl /\ wtskq' = p.wq

-----------------------------------------------------------------------------
\* Break functions.

\* call_brkhdr(u) by t: the break function of the extended SVC that u is in runs,
\* unless a subsystem function runs in u, or it was called already.
break_due(u) == "SSFN" \notin texflg[u] /\ exectex[u] # {} /\ execssid[u].ssid # NULL /\ ~execssid[u].ran

innermost_svc(u) == SelectLastInSeq(frames[u], LAMBDA f : f.f = "svc")

\* How often the break function was called for this call of the extended SVC.
count_break(fs, u, i) == [fs EXCEPT ![u][i].breaks = @ + 1]

call_brkhdr(t, u, next) ==
    LET called == break_due(u) /\ ssycb[execssid[u].ssid] = "break"
        frame  == [f |-> "brk", of |-> u, next |-> next, save_texflg |-> texflg[t]]
    IN  /\ execssid' = IF break_due(u) THEN [execssid EXCEPT ![u].ran = TRUE] ELSE execssid
        /\ IF called
             THEN /\ frames' = [count_break(frames, u, innermost_svc(u)) EXCEPT ![t] = Append(@, frame)]
                  /\ texflg' = [texflg EXCEPT ![t] = @ \cup {"SSFN"}]
                  /\ pri' = [pri EXCEPT ![t] = IF pri[u] < pri[t] THEN pri[u] ELSE @]
                  /\ goto(t, Run)
             ELSE goto(t, next) /\ UNCHANGED <<frames, texflg, pri>>
        /\ UNCHANGED <<ssycb, tstat, lockvars, diswai, texhdr, forgotten, texmask, pendtex, exectex, reqdct>>

\* The break function returns to call_brkhdr.
BreakReturns(t) ==
    /\ at(t, "run") /\ in(t, "brk")
    /\ pop(t) /\ goto(t, Last(frames[t]).next)
    /\ texflg' = [texflg EXCEPT ![t] = Last(frames[t]).save_texflg]
    /\ pri' = [pri EXCEPT ![t] = BasePri[t]]
    /\ UNCHANGED <<ssycb, tstat, lockvars, execssid, diswai, texhdr, forgotten, texmask, pendtex, exectex, reqdct>>

\* "if ( ctxtsk->exectex != 0 ) call_brkhdr(ctxtsk)"
SelfBreak(t) == at(t, "self_break") /\ call_brkhdr(t, t, Run)

-----------------------------------------------------------------------------
\* Extended SVCs: svc_ientry.

may_call(t) == /\ at(t, "run") /\ Len(frames[t]) < MaxFrames[t]
               /\ in(t, "brk") => /\ Last(frames[t]).of = t
                                  /\ (IF Last(frames[t]).next = Run THEN "tail" ELSE "self") \in BreakCalls

SvcCall(t, s) == /\ may_call(t)
                 /\ goto(t, [at |-> "enter_lock", ssid |-> s])
                 /\ UNCHANGED <<ssycb, tstat, frames, lockvars, execssid, diswai, texvars, pri>>

SvcLock(t) == /\ \/ at(t, "enter_lock") /\ LockSVC(t, t, [pc[t] EXCEPT !.at = "enter_check"])
                 \/ at(t, "exit_lock") /\ LockSVC(t, t, [pc[t] EXCEPT !.at = "exit"])
              /\ UNCHANGED <<ssycb, tstat, frames, execssid, diswai, texvars, pri>>

\* Extended SVCs may be disabled (E_DISWAI).
SvcCheck(t) == /\ at(t, "enter_check")
               /\ IF diswai[t] THEN UnlockSVC(t) /\ goto(t, Run)
                  ELSE goto(t, [pc[t] EXCEPT !.at = "enter"]) /\ UNCHANGED lockvars
               /\ UNCHANGED <<ssycb, tstat, frames, execssid, diswai, texvars, pri>>

SvcEnter(t) ==
    /\ at(t, "enter")
    /\ push(t, [f |-> "svc", ssid |-> pc[t].ssid, breaks |-> 0, save_execssid |-> execssid[t],
                save_waitmask |-> diswai[t], save_exectex |-> exectex[t]])
    /\ execssid' = [execssid EXCEPT ![t] = [ssid |-> pc[t].ssid, ran |-> FALSE]]
    /\ diswai' = [diswai EXCEPT ![t] = FALSE]
    /\ exectex' = [exectex EXCEPT ![t] = IF execssid[t].ran THEN {} ELSE @]
    /\ UnlockSVC(t) /\ goto(t, Run)
    /\ UNCHANGED <<ssycb, tstat, texhdr, forgotten, texmask, pendtex, texflg, reqdct, pri>>

SvcHandlerReturns(t) == /\ at(t, "run") /\ in(t, "svc")
                        /\ goto(t, [at |-> "exit_lock"])
                        /\ UNCHANGED <<ssycb, tstat, frames, lockvars, execssid, diswai, texvars, pri>>

\* Mutant: the exceptions of the outer extended SVC are forgotten.
restored_exectex_lost(t) == exectex[t]
restored_exectex(t) == exectex[t] \cup Last(frames[t]).save_exectex

\* Mutant: the mark that the break function was called is not saved.
restored_execssid_plain(t) == [Last(frames[t]).save_execssid EXCEPT !.ran = FALSE]
restored_execssid(t) == Last(frames[t]).save_execssid

SvcExit(t) ==
    /\ at(t, "exit") /\ pop(t)
    /\ execssid' = [execssid EXCEPT ![t] = restored_execssid(t)]
    /\ diswai' = [diswai EXCEPT ![t] = Last(frames[t]).save_waitmask]
    /\ exectex' = [exectex EXCEPT ![t] = restored_exectex(t)]
    /\ UnlockSVC(t) /\ goto(t, [at |-> "self_break"])
    /\ UNCHANGED <<ssycb, tstat, texhdr, forgotten, texmask, pendtex, texflg, reqdct, pri>>

\* tk_sta_ssy, tk_cln_ssy and tk_evt_ssy: a function of the subsystem runs, task
\* exceptions suspended.
SsfnCall(t, s) == /\ may_call(t)
                  /\ IF ssycb[s] = "undefined"
                       THEN goto(t, [at |-> "self_break"]) /\ UNCHANGED <<frames, texflg>>
                       ELSE /\ push(t, [f |-> "ssfn", save_texflg |-> texflg[t]])
                            /\ texflg' = [texflg EXCEPT ![t] = @ \cup {"SSFN"}]
                            /\ UNCHANGED pc
                  /\ UNCHANGED <<ssycb, tstat, lockvars, execssid, diswai, texhdr, forgotten, texmask,
                                 pendtex, exectex, reqdct, pri>>

SsfnReturns(t) == /\ at(t, "run") /\ in(t, "ssfn") /\ pop(t)
                  /\ texflg' = [texflg EXCEPT ![t] = Last(frames[t]).save_texflg]
                  /\ goto(t, [at |-> "self_break"])
                  /\ UNCHANGED <<ssycb, tstat, lockvars, execssid, diswai, texhdr, forgotten, texmask, pendtex,
                                 exectex, reqdct, pri>>

\* tk_def_ssy.  Bound: while nothing else is under way.
DefSsy(s, d) == /\ \A t \in SvcTasks : pc[t] = Run /\ frames[t] = <<>>
                /\ (d = "undefined") # (ssycb[s] = "undefined")
                /\ ssycb' = [ssycb EXCEPT ![s] = d]
                /\ UNCHANGED <<tstat, pc, frames, lockvars, execssid, diswai, texvars, pri>>

-----------------------------------------------------------------------------
\* Task exceptions.

\* tk_ras_tex by t on u.
RasCall(t, u, c) == /\ may_call(t)
                    /\ goto(t, [at |-> "ras_lock", of |-> u, code |-> c])
                    /\ UNCHANGED <<ssycb, tstat, frames, lockvars, execssid, diswai, texvars, pri>>

RasLock(t) == /\ at(t, "ras_lock")
              /\ LockSVC(t, pc[t].of, [pc[t] EXCEPT !.at = "ras"])
              /\ UNCHANGED <<ssycb, tstat, frames, execssid, diswai, texvars, pri>>

\* Exception 0 may interrupt the handler of another, not the other way round.
startable(u, pend) == 0 \in pend \/ "TEX1" \notin texflg[u]

Ras(t) ==
    LET u == pc[t].of
        pend == pendtex[u] \cup ({pc[t].code} \cap texmask[u])
        heard == texhdr[u] /\ tstat[u] # "DORMANT" /\ "TEX0" \notin texflg[u]
        rastex == heard /\ pend # {} /\ startable(u, pend)
    IN  /\ at(t, "ras")
        /\ pendtex' = IF heard THEN [pendtex EXCEPT ![u] = pend] ELSE pendtex
        /\ exectex' = IF rastex THEN [exectex EXCEPT ![u] = @ \cup pend] ELSE exectex
        /\ reqdct' = IF rastex THEN [reqdct EXCEPT ![u] = TRUE] ELSE reqdct
        /\ goto(t, IF rastex THEN [at |-> "ras_break", of |-> u] ELSE [at |-> "ras_end", of |-> u, next |-> Run])
        /\ UNCHANGED <<ssycb, tstat, frames, lockvars, execssid, diswai, texhdr, forgotten, texmask, texflg, pri>>

RasBreak(t) == /\ at(t, "ras_break")
               /\ call_brkhdr(t, pc[t].of, [at |-> "ras_end", of |-> pc[t].of, next |-> [at |-> "self_break"]])

RasEnd(t) == /\ at(t, "ras_end") /\ UnlockSVC(t) /\ goto(t, pc[t].next)
             /\ UNCHANGED <<ssycb, tstat, frames, execssid, diswai, texvars, pri>>

\* setup_texhdr, on the way back to user mode: the handler of the lowest code.
SetupTexhdr(t) ==
    LET c == lowest(exectex[t])
    IN  /\ at(t, "run") /\ frames[t] = <<>> /\ reqdct[t]
        /\ reqdct' = [reqdct EXCEPT ![t] = FALSE]
        /\ forgotten' = [forgotten EXCEPT ![t] = {}]
        /\ IF exectex[t] = {} THEN UNCHANGED <<exectex, pendtex, texflg>>
           ELSE /\ exectex' = [exectex EXCEPT ![t] = {}]
                /\ pendtex' = [pendtex EXCEPT ![t] = @ \ {c}]
                /\ texflg' = [texflg EXCEPT ![t] = @ \cup {IF c = 0 THEN "TEX0" ELSE "TEX1"}]
        /\ UNCHANGED <<ssycb, tstat, pc, frames, lockvars, execssid, diswai, texhdr, texmask, pri>>

\* tk_end_tex: the handler ends, or goes on with the next exception.
EndTex(t, enatex) ==
    LET next == pendtex[t] \ {0}
        c == lowest(next)
    IN  /\ at(t, "run") /\ frames[t] = <<>> /\ texflg[t] \cap {"TEX0", "TEX1"} = {"TEX1"}
        /\ IF enatex \/ next = {}
             THEN /\ texflg' = [texflg EXCEPT ![t] = @ \ {"TEX1"}]
                  /\ exectex' = [exectex EXCEPT ![t] = @ \cup pendtex[t]]
                  /\ reqdct' = [reqdct EXCEPT ![t] = @ \/ next # {}]
                  /\ UNCHANGED pendtex
             ELSE /\ pendtex' = [pendtex EXCEPT ![t] = @ \ {c}]
                  /\ UNCHANGED <<texflg, exectex, reqdct>>
        /\ UNCHANGED <<ssycb, tstat, pc, frames, lockvars, execssid, diswai, texhdr, forgotten, texmask, pri>>

\* What the extended SVCs that t is in have saved, to bring it back at their end.
saved_exectex(t) == UNION {frames[t][i].save_exectex : i \in {j \in DOMAIN frames[t] : frames[t][j].f = "svc"}}

\* tk_def_tex, of any task at any place: what extended SVCs have saved comes back.
DefTex(t, d) == /\ texhdr' = [texhdr EXCEPT ![t] = d]
                /\ forgotten' = [forgotten EXCEPT ![t] = saved_exectex(t)]
                /\ texmask' = [texmask EXCEPT ![t] = {}]
                /\ pendtex' = [pendtex EXCEPT ![t] = {}]
                /\ exectex' = [exectex EXCEPT ![t] = {}]
                /\ UNCHANGED <<ssycb, tstat, pc, frames, lockvars, execssid, diswai, texflg, reqdct, pri>>

\* tk_ena_tex and tk_dis_tex (set_tex_mask)
SetTexMask(t, mask) ==
    /\ texhdr[t]
    /\ texmask' = [texmask EXCEPT ![t] = mask]
    /\ pendtex' = [pendtex EXCEPT ![t] = @ \cap mask]
    /\ UNCHANGED <<ssycb, tstat, pc, frames, lockvars, execssid, diswai, texhdr, forgotten, exectex, texflg, reqdct, pri>>

-----------------------------------------------------------------------------
\* What other tasks do to t.

\* tk_dis_wai, tk_ena_wai
SetDiswai(t, d) == /\ diswai[t] # d
                   /\ diswai' = [diswai EXCEPT ![t] = d]
                   /\ UNCHANGED <<ssycb, tstat, pc, frames, lockvars, execssid, texvars, pri>>

\* tk_sus_tsk, tk_rsm_tsk: a suspended task leaves the queue of a lock, and
\* resumed it tries again.
\* Bound: only such tasks are suspended.
Suspend(t) == /\ tstat[t] = "READY" /\ klockwait(t)
              /\ tstat' = [tstat EXCEPT ![t] = "SUSPEND"]
              /\ wtskq' = [l \in SvcTasks |-> IF wtskq[l] = NULL THEN NULL
                                              ELSE Without(wtskq[l], {t})]
              /\ UNCHANGED <<ssycb, pc, frames, svclocked, execssid, diswai, texvars, pri>>

Resume(t) == /\ tstat[t] = "SUSPEND"
             /\ tstat' = [tstat EXCEPT ![t] = "READY"]
             /\ UNCHANGED <<ssycb, pc, frames, lockvars, execssid, diswai, texvars, pri>>

\* tk_ter_tsk, tk_ext_tsk: _ter_tsk, make_dormant
Terminate(t) == /\ tstat[t] # "DORMANT"
                /\ AllUnlockSVC(t)
                /\ tstat' = [tstat EXCEPT ![t] = "DORMANT"]
                /\ pc' = [pc EXCEPT ![t] = Run]
                /\ frames' = [frames EXCEPT ![t] = <<>>]
                /\ execssid' = [execssid EXCEPT ![t] = NoSvc]
                /\ diswai' = [diswai EXCEPT ![t] = FALSE]
                /\ texhdr' = [texhdr EXCEPT ![t] = FALSE]
                /\ forgotten' = [forgotten EXCEPT ![t] = {}]
                /\ texmask' = [texmask EXCEPT ![t] = {}]
                /\ pendtex' = [pendtex EXCEPT ![t] = {}]
                /\ exectex' = [exectex EXCEPT ![t] = {}]
                /\ texflg' = [texflg EXCEPT ![t] = {}]
                /\ reqdct' = [reqdct EXCEPT ![t] = FALSE]
                /\ pri' = [pri EXCEPT ![t] = BasePri[t]]
                /\ UNCHANGED ssycb

StartTask(t) == /\ tstat[t] = "DORMANT"
                /\ tstat' = [tstat EXCEPT ![t] = "READY"]
                /\ UNCHANGED <<ssycb, pc, frames, lockvars, execssid, diswai, texvars, pri>>

SvcNext ==
    \/ \E t \in SvcTasks :
         \/ SvcLock(t) \/ SvcCheck(t) \/ SvcEnter(t) \/ SvcHandlerReturns(t) \/ SvcExit(t)
         \/ SelfBreak(t) \/ BreakReturns(t) \/ SsfnReturns(t)
         \/ RasLock(t) \/ Ras(t) \/ RasBreak(t) \/ RasEnd(t) \/ SetupTexhdr(t)
         \/ Suspend(t) \/ Resume(t) \/ Terminate(t) \/ StartTask(t)
         \/ \E u \in TexTasks, c \in Codes : RasCall(t, u, c)
    \/ \E t \in TexTasks :
         \/ \E s \in Ssids : SvcCall(t, s) \/ SsfnCall(t, s)
         \/ \E d \in BOOLEAN : EndTex(t, d) \/ DefTex(t, d) \/ SetDiswai(t, d)
         \/ \E mask \in TexMasks : SetTexMask(t, mask)
    \/ \E s \in Ssids, d \in {"undefined", "break"} : DefSsy(s, d)

-----------------------------------------------------------------------------
SvcTypeOK == /\ ssycb \in [Ssids -> {"undefined", "break"}]
             /\ tstat \in [SvcTasks -> {"DORMANT", "READY", "SUSPEND"}]
             /\ \A t \in SvcTasks :
                  /\ Len(frames[t]) <= MaxFrames[t]
                  /\ svclocked[t] \in Seq(SvcTasks)
                  /\ wtskq[t] # NULL => wtskq[t] \in Seq(SvcTasks)
                  /\ texmask[t] \subseteq Codes /\ exectex[t] \subseteq Codes
                  /\ pendtex[t] \subseteq texmask[t]
                  /\ texflg[t] \subseteq {"TEX0", "TEX1", "SSFN"}

\* The lock that the LockSVC of t is about.
wanted(t) == CASE pc[t].at \in {"enter_lock", "exit_lock"} -> t
               [] pc[t].at = "ras_lock" -> pc[t].of
               [] OTHER -> NULL

\* A lock is busy exactly while one task has it in its list, once, and those that
\* queue for it are the tasks whose LockSVC is about it: through handing over,
\* suspension and termination (LockSVC, UnlockSVC, AllUnlockSVC).
SvcLocksExact ==
    \A l \in SvcTasks :
        LET holders == {t \in SvcTasks : Contains(svclocked[t], l)}
        IN  /\ Cardinality(holders) = IF wtskq[l] = NULL THEN 0 ELSE 1
            /\ \A t \in SvcTasks : IsInjective(svclocked[t])
            /\ wtskq[l] # NULL => /\ IsInjective(wtskq[l]) /\ ToSet(wtskq[l]) \cap holders = {}
                                  /\ \A t \in ToSet(wtskq[l]) : tstat[t] = "READY" /\ wanted(t) = l

\* A break function that tk_ras_tex calls runs under the lock of the task it is
\* about, which meanwhile neither enters nor leaves an extended SVC; and each call
\* of an extended SVC is broken at most once, whatever it calls itself
\* (svc_ientry, call_brkhdr, BREAK_RAN).
BreakExclusive ==
    \A t \in SvcTasks : \A i \in DOMAIN frames[t] :
        LET f == frames[t][i] IN
        /\ f.f = "brk" /\ f.next # Run =>
              /\ Contains(svclocked[t], f.of)
              /\ f.of # t => pc[f.of].at \notin {"enter_check", "enter", "exit"}
        /\ f.f = "svc" => f.breaks <= 1

\* An exception that is pending is never forgotten: either a handler runs, whose
\* end will take it up, or the start of the handler is requested.  And a start
\* without a handler is requested for no exceptions but the ones that tk_def_tex
\* forgot while an extended SVC of the task had them saved, and that svc_ientry
\* brought back at its end (tk_ras_tex, tk_def_tex, tk_end_tex, svc_ientry).
ExceptionsKept ==
    \A t \in SvcTasks : /\ pendtex[t] # {} /\ texflg[t] \cap {"TEX0", "TEX1"} = {} => reqdct[t]
                        /\ ~texhdr[t] => pendtex[t] = {} /\ exectex[t] \subseteq forgotten[t]

=============================================================================
