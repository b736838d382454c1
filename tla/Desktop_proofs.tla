--------------------------- MODULE Desktop_proofs ---------------------------
(***************************************************************************)
(* The desktop, for any number of windows and events and any menu bar, the *)
(* editor, for any sizes, and the input method, for any dictionary.        *)
(***************************************************************************)
EXTENDS MCDesktop, Queue_proofs, FiniteSetTheorems

-----------------------------------------------------------------------------
(* The menu bar.                                                           *)

Bars == [built : BOOLEAN, active_menu : Int, hover_menu : Int, hover_item : Int,
         active_submenu : Int, hover_subitem : Int]

\* The clauses of MenuExact about the bar alone.
BarExact(b) ==
    /\ b.active_menu = NIL => NIL = b.active_submenu /\ NIL = b.hover_item
    /\ b.built /\ b.active_menu # NIL =>
          /\ b.hover_menu = b.active_menu
          /\ b.active_submenu # NIL => Menus[b.active_menu][b.active_submenu] = "submenu"
          /\ b.hover_item # NIL => Menus[b.active_menu][b.hover_item] \in {"command", "submenu"}
    /\ b.hover_subitem # NIL => b.active_submenu # NIL

\* ... and the one about what was chosen.
ChosenExact(b, ch) ==
    ch # NOTHING =>
       /\ Menus[ch[1]][ch[2]] = IF ch[3] = NIL THEN "command" ELSE "submenu"
       /\ b.built => b.active_menu = NIL

BarOK(b) == b \in Bars /\ BarExact(b) /\ (b.built => b.active_menu \in Headers \cup {NIL})

MenuInv == BarOK(bar) /\ ChosenExact(bar, chosen) /\ ed_menu = bar.active_menu

\* The numbers of menus and items.
LEMMA MenuNumbers ==
  /\ Headers \subseteq Nat \ {0} /\ 1 \in Headers
  /\ \A m \in Headers : DOMAIN Menus[m] \subseteq Nat \ {0}
  /\ SubItems \subseteq Nat /\ NIL \in Int /\ NIL \notin Nat
<1>. DEFINE Kind == {"command", "disabled", "separator", "submenu"}
<1>1. Menus \in Seq(Seq(Kind)) /\ SubItems \subseteq Nat
  BY MenuAssumption
<1>2. DOMAIN Menus = 1 .. Len(Menus) /\ Len(Menus) \in Nat \ {0}
  BY <1>1, MenuAssumption, LenProperties, EmptySeq
<1>3. ASSUME NEW m \in Headers  PROVE DOMAIN Menus[m] \subseteq Nat \ {0}
  <2>1. Menus[m] \in Seq(Kind)
    BY <1>1, <1>2, ElementOfSeq DEF Headers
  <2>. QED  BY <2>1, LenProperties
<1>. QED  BY <1>1, <1>2, <1>3 DEF Headers, NIL

\* Closing, opening and clearing leave an exact bar.
LEMMA BarOperations ==
  /\ BarOK(app_menu_init) /\ BarOK(cleared)
  /\ app_menu_init.active_menu = NIL /\ ~cleared.built
  /\ \A b \in Bars : BarOK(app_menu_close(b)) /\ app_menu_close(b).active_menu = NIL
  /\ \A b \in Bars : \A h \in Headers : BarOK(app_menu_open(b, h))
<1>1. NIL \in Int /\ NIL # 1 /\ NIL # 0
  BY DEF NIL
<1>2. BarOK(app_menu_init) /\ app_menu_init.active_menu = NIL
  BY <1>1 DEF BarOK, Bars, BarExact, app_menu_init
<1>3. BarOK(cleared) /\ ~cleared.built
  BY <1>1 DEF BarOK, Bars, BarExact, cleared
<1>4. ASSUME NEW b \in Bars
      PROVE  BarOK(app_menu_close(b)) /\ app_menu_close(b).active_menu = NIL
  BY <1>1 DEF BarOK, Bars, BarExact, app_menu_close
<1>5. ASSUME NEW b \in Bars, NEW h \in Headers
      PROVE  BarOK(app_menu_open(b, h))
  <2>1. h \in Int /\ h # NIL
    BY MenuNumbers
  <2>. DEFINE c == app_menu_close(b)
  <2>2. /\ c \in Bars /\ c.active_submenu = NIL /\ c.hover_item = NIL /\ c.hover_subitem = NIL
    BY <1>1 DEF app_menu_close, Bars
  <2>3. app_menu_open(b, h) = [c EXCEPT !.active_menu = h, !.hover_menu = h]
    BY DEF app_menu_open
  <2>. HIDE DEF c
  <2>4. app_menu_open(b, h) \in Bars /\ app_menu_open(b, h).active_menu = h
    BY <2>1, <2>2, <2>3 DEF Bars
  <2>5. BarExact(app_menu_open(b, h))
    BY <2>1, <2>2, <2>3 DEF BarExact, Bars
  <2>. QED  BY <2>4, <2>5 DEF BarOK
<1>. QED  BY <1>2, <1>3, <1>4, <1>5

\* A state with an exact bar, and nothing chosen.
LEMMA SyncNothing ==
  ASSUME NEW b, BarOK(b), Sync(b), chosen' = NOTHING
  PROVE  MenuInv'
BY DEF MenuInv, Sync, ChosenExact, BarOK, BarExact, Bars

\* Where the mouse is.
LEMMA AtNumbers ==
  ASSUME MenuInv, NEW h, NEW i, NEW j, At(h, i, j),
         h \in Headers \cup {NIL}, j \in SubItems \cup {NIL},
         i = NIL \/ \E m \in Headers : i \in DOMAIN Menus[m]
  PROVE  /\ h \in Int /\ i \in Int /\ j \in Int
         /\ i # NIL \/ j # NIL => bar.built /\ bar.active_menu # NIL
         /\ j # NIL => bar.active_submenu # NIL
<1>1. h \in Int
  BY MenuNumbers
<1>2. i \in Int
  <2>1. CASE i = NIL
    BY <2>1, MenuNumbers
  <2>2. ASSUME NEW m \in Headers, i \in DOMAIN Menus[m]
        PROVE  i \in Int
    BY <2>2, MenuNumbers
  <2>. QED  BY <2>1, <2>2
<1>3. j \in Int
  BY MenuNumbers
<1>4. i # NIL \/ j # NIL => bar.built /\ bar.active_menu # NIL
  BY DEF At, items
<1>5. j # NIL => bar.active_submenu # NIL
  <2>. SUFFICES ASSUME j # NIL  PROVE bar.active_submenu # NIL
    OBVIOUS
  <2>1. bar.active_menu \in Headers /\ bar.active_submenu \in DOMAIN Menus[bar.active_menu]
    BY <1>4 DEF At, items, MenuInv, BarOK
  <2>. QED  BY <2>1, MenuNumbers
<1>. QED  BY <1>1, <1>2, <1>3, <1>4, <1>5

\* The mouse moves.
LEMMA MenuMoveStep ==
  ASSUME MenuInv, NEW h, NEW i, NEW j,
         h \in Headers \cup {NIL}, j \in SubItems \cup {NIL},
         i = NIL \/ \E m \in Headers : i \in DOMAIN Menus[m],
         MenuMove(h, i, j)
  PROVE  MenuInv'
<1>0. At(h, i, j) /\ chosen' = NOTHING
  BY DEF MenuMove
<1>1. /\ h \in Int /\ i \in Int /\ j \in Int
      /\ i # NIL \/ j # NIL => bar.built /\ bar.active_menu # NIL
      /\ j # NIL => bar.active_submenu # NIL
  BY <1>0, AtNumbers
<1>2. BarOK(bar) /\ bar \in Bars
  BY DEF MenuInv, BarOK
<1>3. SUFFICES \E b : BarOK(b) /\ Sync(b)
  BY <1>0, SyncNothing
<1>4. CASE /\ bar.active_menu # NIL /\ h # NIL /\ h # bar.active_menu
           /\ Sync(app_menu_open(bar, h))
  BY <1>2, <1>4, BarOperations
<1>5. CASE bar.active_menu # NIL /\ j # NIL /\ Sync([bar EXCEPT !.hover_subitem = j])
  <2>1. BarOK([bar EXCEPT !.hover_subitem = j])
    BY <1>1, <1>2, <1>5 DEF BarOK, BarExact, Bars
  <2>. QED  BY <2>1, <1>5
<1>6. CASE /\ bar.active_menu # NIL /\ i # NIL
           /\ Sync(CASE item(i) = "submenu" -> [bar EXCEPT !.hover_item = i, !.active_submenu = i]
                    [] item(i) = "command" -> [bar EXCEPT !.hover_item = i, !.active_submenu = NIL,
                                                          !.hover_subitem = NIL]
                    [] OTHER -> [bar EXCEPT !.hover_item = NIL])
  <2>0. NIL \in Int
    BY DEF NIL
  <2>1. item(i) = "submenu" => BarOK([bar EXCEPT !.hover_item = i, !.active_submenu = i])
    BY <1>1, <1>2, <1>6 DEF BarOK, BarExact, Bars, item
  <2>2. item(i) = "command" => BarOK([bar EXCEPT !.hover_item = i, !.active_submenu = NIL,
                                                 !.hover_subitem = NIL])
    BY <1>1, <1>2, <1>6, <2>0 DEF BarOK, BarExact, Bars, item
  <2>3. BarOK([bar EXCEPT !.hover_item = NIL])
    BY <1>2, <1>6, <2>0 DEF BarOK, BarExact, Bars
  <2>4. CASE item(i) = "submenu"
    BY <2>1, <2>4, <1>6
  <2>5. CASE item(i) = "command"
    <3>1. item(i) # "submenu"
      BY <2>5
    <3>. QED  BY <2>2, <2>5, <1>6, <3>1
  <2>6. CASE item(i) # "submenu" /\ item(i) # "command"
    BY <2>3, <2>6, <1>6
  <2>. QED  BY <2>4, <2>5, <2>6
<1>7. CASE Sync(bar)
  BY <1>2, <1>7
<1>8. CASE bar.active_menu = NIL /\ Sync([bar EXCEPT !.hover_menu = h])
  <2>1. BarOK([bar EXCEPT !.hover_menu = h])
    BY <1>1, <1>2, <1>8 DEF BarOK, BarExact, Bars
  <2>. QED  BY <2>1, <1>8
<1>. QED  BY <1>4, <1>5, <1>6, <1>7, <1>8 DEF MenuMove, MoveOpen, MoveClosed

\* A click on a subitem or an item.
LEMMA MenuChooseStep ==
  ASSUME MenuInv, NEW h, NEW i, NEW j,
         h \in Headers \cup {NIL}, j \in SubItems \cup {NIL},
         i = NIL \/ \E m \in Headers : i \in DOMAIN Menus[m],
         At(h, i, j), bar.active_menu # NIL, Choose(i, j)
  PROVE  MenuInv'
<1>1. /\ h \in Int /\ i \in Int /\ j \in Int
      /\ i # NIL \/ j # NIL => bar.built /\ bar.active_menu # NIL
      /\ j # NIL => bar.active_submenu # NIL
  BY AtNumbers
<1>2. BarOK(bar) /\ bar \in Bars
  BY DEF MenuInv, BarOK
<1>3. BarOK(app_menu_close(bar)) /\ app_menu_close(bar).active_menu = NIL
  BY <1>2, BarOperations
<1>4. CASE /\ j # NIL /\ chosen' = <<bar.active_menu, bar.active_submenu, j>>
           /\ Sync(app_menu_close(bar))
  <2>1. Menus[bar.active_menu][bar.active_submenu] = "submenu"
    BY <1>1, <1>2, <1>4 DEF BarOK, BarExact
  <2>2. ChosenExact(bar', chosen')
    BY <1>3, <1>4, <2>1 DEF ChosenExact, Sync
  <2>. QED  BY <1>3, <1>4, <2>2 DEF MenuInv, Sync
<1>5. CASE /\ i # NIL /\ item(i) = "submenu"
           /\ Sync([bar EXCEPT !.active_submenu = i]) /\ chosen' = NOTHING
  <2>1. BarOK([bar EXCEPT !.active_submenu = i])
    BY <1>1, <1>2, <1>5 DEF BarOK, BarExact, Bars, item
  <2>. QED  BY <1>5, <2>1, SyncNothing
<1>6. CASE /\ item(i) = "command" /\ chosen' = <<bar.active_menu, i, NIL>>
           /\ Sync(app_menu_close(bar)) \/ Sync(cleared)
  <2>1. PICK b \in {app_menu_close(bar), cleared} : Sync(b)
    BY <1>6
  <2>2. BarOK(b) /\ (b.built => b.active_menu = NIL)
    BY <1>3, BarOperations
  <2>3. ChosenExact(b, chosen')
    BY <1>6, <2>2 DEF ChosenExact, item
  <2>. QED  BY <2>1, <2>2, <2>3 DEF MenuInv, Sync
<1>. QED  BY <1>4, <1>5, <1>6 DEF Choose

\* A click.
LEMMA MenuClickStep ==
  ASSUME MenuInv, NEW h, NEW i, NEW j,
         h \in Headers \cup {NIL}, j \in SubItems \cup {NIL},
         i = NIL \/ \E m \in Headers : i \in DOMAIN Menus[m],
         MenuClick(h, i, j)
  PROVE  MenuInv'
<1>1. At(h, i, j)
  BY DEF MenuClick
<1>2. BarOK(bar) /\ bar \in Bars
  BY DEF MenuInv, BarOK
<1>3. CASE bar.active_menu # NIL /\ Choose(i, j)
  BY <1>1, <1>3, MenuChooseStep
<1>4. CASE bar.active_menu # NIL /\ ClickBeside(h, i, j) /\ chosen' = NOTHING
  <2>1. BarOK(IF h = NIL \/ h = bar.active_menu THEN app_menu_close(bar) ELSE app_menu_open(bar, h))
    BY <1>2, BarOperations
  <2>. QED  BY <1>4, <2>1, SyncNothing DEF ClickBeside
<1>5. CASE /\ bar.active_menu = NIL
           /\ Sync(IF h # NIL THEN app_menu_open(bar, h) ELSE bar) /\ chosen' = NOTHING
  <2>1. BarOK(IF h # NIL THEN app_menu_open(bar, h) ELSE bar)
    BY <1>2, BarOperations
  <2>. QED  BY <1>5, <2>1, SyncNothing
<1>. QED  BY <1>3, <1>4, <1>5 DEF MenuClick

\* Every step of the menu bar.
LEMMA MenuStep ==
  ASSUME MenuInv, MenuNext
  PROVE  MenuInv'
<1>1. BarOK(bar) /\ bar \in Bars
  BY DEF MenuInv, BarOK
<1>2. ASSUME NEW h \in Headers \cup {NIL}, NEW j \in SubItems \cup {NIL},
             NEW i \in Items \cup {NIL},
             MenuMove(h, i, j) \/ MenuClick(h, i, j)
      PROVE  MenuInv'
  <2>1. CASE i = NIL
    BY <1>2, <2>1, MenuMoveStep, MenuClickStep
  <2>2. CASE i # NIL
    <3>1. i \in Items
      BY <2>2
    <3>2. \E n \in Headers : i \in DOMAIN Menus[n]
      BY <3>1 DEF Items
    <3>. QED  BY <1>2, <3>2, MenuMoveStep, MenuClickStep
  <2>. QED  BY <2>1, <2>2
<1>3. CASE Escape
  BY <1>1, <1>3, BarOperations, SyncNothing DEF Escape
<1>4. CASE OpenMenu
  <2>. DEFINE b == IF bar.built THEN bar ELSE app_menu_init
  <2>1. b \in Bars /\ 1 \in Headers
    BY <1>1, BarOperations, MenuNumbers DEF BarOK
  <2>. HIDE DEF b
  <2>2. BarOK(app_menu_open(b, 1))
    BY <2>1, BarOperations
  <2>. QED  BY <1>4, <2>2, SyncNothing DEF OpenMenu, teditor_open_menu, b
<1>5. CASE NewDocument
  BY <1>5, BarOperations, SyncNothing DEF NewDocument
<1>6. CASE Paint
  BY <1>6, BarOperations, SyncNothing DEF Paint
<1>. QED  BY <1>2, <1>3, <1>4, <1>5, <1>6 DEF MenuNext

\* No step of another part changes the menu bar.
LEMMA MenuFrame ==
  ASSUME MenuInv, UNCHANGED menuvars
  PROVE  MenuInv'
BY DEF MenuInv, menuvars

\* A command is chosen only where one is, the submenu belongs to the open menu,
\* and the editor knows whether a menu is open (app_menu.c, t_editor.c), for any
\* menus.
THEOREM MenusExact == MCSpec => []MenuExact
<1>1. MCInit => MenuInv
  BY BarOperations DEF MCInit, MenuInit, MenuInv, ChosenExact
<1>2. MenuInv /\ [MCNext]_mcvars => MenuInv'
  BY MenuStep, MenuFrame DEF MCNext, mcvars, menuvars
<1>3. MenuInv => MenuExact
  BY DEF MenuInv, BarOK, BarExact, ChosenExact, MenuExact, item
<1>. QED  BY <1>1, <1>2, <1>3, PTL DEF MCSpec

-----------------------------------------------------------------------------
(* The ring of events.                                                     *)

\* The slots lie in the ring, and the tail is where the head and the count say.
RingOK ==
    /\ g_q_head \in 0 .. EVENT_QUEUE_SIZE - 1 /\ g_q_tail \in 0 .. EVENT_QUEUE_SIZE - 1
    /\ g_q_count \in 0 .. EVENT_QUEUE_SIZE
    /\ g_queue \in [0 .. EVENT_QUEUE_SIZE - 1 -> EVT]
    /\ g_q_tail = (g_q_head + g_q_count) % EVENT_QUEUE_SIZE

\* Once around the ring.
Around(a, N) == IF a < N THEN a ELSE a - N

\* A number below 2N, taken modulo N.
LEMMA RingMod ==
  ASSUME NEW N \in Nat \ {0}, NEW a \in 0 .. 2 * N - 1
  PROVE  a % N = Around(a, N)
<1>1. a % N \in 0 .. N - 1 /\ a = N * (a \div N) + (a % N) /\ a \div N \in Int
  OBVIOUS
<1>. DEFINE d == a \div N
            r == a % N
<1>2. d \in Int /\ r \in 0 .. N - 1 /\ a = N * d + r
  BY <1>1
<1>. HIDE DEF d, r
<1>3. d = 0 \/ d = 1
  <2>1. d >= 0
    <3>1. SUFFICES ASSUME d <= -1 PROVE FALSE
      BY <1>2
    <3>2. N * d <= -N
      BY <1>2, <3>1
    <3>. QED  BY <1>2, <3>2
  <2>2. d <= 1
    <3>1. SUFFICES ASSUME d >= 2 PROVE FALSE
      BY <1>2
    <3>2. N * d >= 2 * N
      BY <1>2, <3>1
    <3>. QED  BY <1>2, <3>2
  <2>. QED  BY <1>2, <2>1, <2>2
<1>4. CASE d = 0
  BY <1>2, <1>4 DEF r, Around
<1>5. CASE d = 1
  BY <1>2, <1>5 DEF r, Around
<1>. QED  BY <1>3, <1>4, <1>5

\* The slot i places after h.
LEMMA RingAdd ==
  ASSUME NEW N \in Nat \ {0}, NEW h \in 0 .. N - 1, NEW i \in 0 .. N
  PROVE  (h + i) % N = Around(h + i, N)
<1>1. h + i \in 0 .. 2 * N - 1
  OBVIOUS
<1>. QED  BY <1>1, RingMod, Zenon

\* The events in the queue.
LEMMA ContentsProperties ==
  ASSUME RingOK
  PROVE  /\ Contents \in Seq(EVT) /\ Len(Contents) = g_q_count
         /\ \A i \in 1 .. g_q_count : Contents[i] = g_queue[slot(i - 1)]
<1>1. g_q_count \in Nat
  BY EventAssumption DEF RingOK
<1>2. ASSUME NEW i \in 1 .. g_q_count  PROVE g_queue[slot(i - 1)] \in EVT
  <2>1. slot(i - 1) \in 0 .. EVENT_QUEUE_SIZE - 1
    BY EventAssumption DEF RingOK, slot
  <2>. QED  BY <2>1 DEF RingOK
<1>3. Contents \in [1 .. g_q_count -> EVT]
  BY <1>2 DEF Contents
<1>. QED  BY <1>1, <1>3, IsASeq, LenProperties DEF Contents

\* snd_evt appends.
LEMMA SndStep ==
  ASSUME RingOK, NEW e \in EVT, snd_evt(e)
  PROVE  RingOK' /\ Contents' = Append(Contents, e)
<1>. DEFINE N == EVENT_QUEUE_SIZE
<1>1. /\ N \in Nat \ {0} /\ g_q_head \in 0 .. N - 1 /\ g_q_tail \in 0 .. N - 1 /\ g_q_count \in 0 .. N - 1
      /\ g_queue \in [0 .. N - 1 -> EVT] /\ g_q_tail = (g_q_head + g_q_count) % N
  BY EventAssumption DEF RingOK, snd_evt, full
<1>2. /\ g_queue' = [g_queue EXCEPT ![g_q_tail] = e] /\ g_q_tail' = (g_q_tail + 1) % N
      /\ g_q_count' = g_q_count + 1 /\ g_q_head' = g_q_head
  BY DEF snd_evt
<1>. HIDE DEF N
<1>3. g_q_tail = Around(g_q_head + g_q_count, N)
  <2>1. g_q_count \in 0 .. N
    BY <1>1
  <2>. QED  BY <1>1, <2>1, RingAdd, Zenon
<1>4. ASSUME NEW i \in 0 .. g_q_count
      PROVE  (g_q_head + i) % N = Around(g_q_head + i, N)
  <2>1. i \in 0 .. N
    BY <1>1
  <2>. QED  BY <1>1, <2>1, RingAdd, Zenon
<1>5. (g_q_tail + 1) % N = Around(g_q_tail + 1, N)
  <2>1. 1 \in 0 .. N
    BY <1>1
  <2>. QED  BY <1>1, <2>1, RingAdd, Zenon
<1>6. (g_q_head + (g_q_count + 1)) % N = Around(g_q_head + (g_q_count + 1), N)
  <2>1. g_q_count + 1 \in 0 .. N
    BY <1>1
  <2>. QED  BY <1>1, <2>1, RingAdd, Zenon
<1>7. g_q_tail' = (g_q_head' + g_q_count') % N
  <2>1. Around(g_q_tail + 1, N) = Around(g_q_head + (g_q_count + 1), N)
    BY <1>1, <1>3 DEF Around
  <2>. QED  BY <1>2, <1>5, <1>6, <2>1
<1>8. RingOK'
  <2>1. g_q_tail' \in 0 .. N - 1
    BY <1>1, <1>2, <1>5 DEF Around
  <2>2. g_queue' \in [0 .. N - 1 -> EVT]
    BY <1>1, <1>2
  <2>. QED  BY <1>1, <1>2, <1>7, <2>1, <2>2 DEF RingOK, N
<1>9. Contents' = Append(Contents, e)
  <2>1. /\ Contents \in Seq(EVT) /\ Len(Contents) = g_q_count
        /\ \A i \in 1 .. g_q_count : Contents[i] = g_queue[slot(i - 1)]
    BY ContentsProperties
  <2>2. Contents' = [i \in 1 .. g_q_count' |-> g_queue'[(g_q_head + (i - 1)) % N]]
    BY <1>2 DEF Contents, slot, N
  <2>. DEFINE A == Append(Contents, e)
  <2>3. /\ A \in Seq(EVT) /\ Len(A) = g_q_count + 1 /\ A[g_q_count + 1] = e
        /\ \A i \in 1 .. g_q_count : A[i] = Contents[i]
    BY <2>1, AppendProperties
  <2>. HIDE DEF A
  <2>4. A = [i \in 1 .. g_q_count + 1 |-> A[i]]
    BY <2>3, LenProperties
  <2>5. ASSUME NEW i \in 1 .. g_q_count + 1
        PROVE  g_queue'[(g_q_head + (i - 1)) % N] = A[i]
    <3>1. (g_q_head + (i - 1)) % N = Around(g_q_head + (i - 1), N)
      <4>1. i - 1 \in 0 .. g_q_count
        BY <1>1
      <4>. QED  BY <1>4, <4>1, Zenon
    <3>2. CASE i = g_q_count + 1
      <4>1. (g_q_head + (i - 1)) % N = g_q_tail
        BY <1>1, <1>3, <3>1, <3>2 DEF Around
      <4>. QED  BY <1>1, <1>2, <2>3, <3>2, <4>1
    <3>3. CASE i \in 1 .. g_q_count
      <4>1. (g_q_head + (i - 1)) % N # g_q_tail /\ (g_q_head + (i - 1)) % N \in 0 .. N - 1
        BY <1>1, <1>3, <3>1, <3>3 DEF Around
      <4>2. Contents[i] = g_queue[(g_q_head + (i - 1)) % N]
        BY <2>1, <3>3 DEF slot, N
      <4>. QED  BY <1>1, <1>2, <2>3, <3>3, <4>1, <4>2
    <3>. QED  BY <1>1, <3>2, <3>3
  <2>. QED  BY <1>2, <2>2, <2>4, <2>5 DEF A
<1>. QED  BY <1>8, <1>9

\* get_evt takes the first.
LEMMA GetStep ==
  ASSUME RingOK, get_evt
  PROVE  /\ RingOK' /\ Contents # <<>> /\ Contents' = Tail(Contents)
         /\ Contents[1] = g_queue[g_q_head]
<1>. DEFINE N == EVENT_QUEUE_SIZE
<1>1. /\ N \in Nat \ {0} /\ g_q_head \in 0 .. N - 1 /\ g_q_tail \in 0 .. N - 1 /\ g_q_count \in 1 .. N
      /\ g_queue \in [0 .. N - 1 -> EVT] /\ g_q_tail = (g_q_head + g_q_count) % N
  BY EventAssumption DEF RingOK, get_evt
<1>2. /\ g_q_head' = (g_q_head + 1) % N /\ g_q_count' = g_q_count - 1
      /\ g_queue' = g_queue /\ g_q_tail' = g_q_tail
  BY DEF get_evt
<1>3. /\ Contents \in Seq(EVT) /\ Len(Contents) = g_q_count
      /\ \A i \in 1 .. g_q_count : Contents[i] = g_queue[(g_q_head + (i - 1)) % N]
  BY ContentsProperties DEF slot
<1>. HIDE DEF N
<1>4. ASSUME NEW i \in 0 .. g_q_count
      PROVE  (g_q_head + i) % N = Around(g_q_head + i, N)
  <2>1. i \in 0 .. N
    BY <1>1
  <2>. QED  BY <1>1, <2>1, RingAdd, Zenon
<1>. DEFINE h == g_q_head'
<1>5. h = Around(g_q_head + 1, N)
  <2>1. 1 \in 0 .. g_q_count
    BY <1>1
  <2>. QED  BY <1>2, <1>4, <2>1
<1>6. h \in 0 .. N - 1
  BY <1>1, <1>5 DEF Around
<1>. HIDE DEF h
<1>7. ASSUME NEW i \in 0 .. g_q_count - 1
      PROVE  (h + i) % N = (g_q_head + (i + 1)) % N
  <2>1. (h + i) % N = Around(h + i, N)
    <3>1. i \in 0 .. N
      BY <1>1
    <3>. QED  BY <1>1, <1>6, <3>1, RingAdd, Zenon
  <2>2. (g_q_head + (i + 1)) % N = Around(g_q_head + (i + 1), N)
    <3>1. i + 1 \in 0 .. g_q_count
      BY <1>1
    <3>. QED  BY <1>4, <3>1, Zenon
  <2>3. Around(h + i, N) = Around(g_q_head + (i + 1), N)
    BY <1>1, <1>5 DEF Around
  <2>. QED  BY <2>1, <2>2, <2>3
<1>8. RingOK'
  <2>1. (h + (g_q_count - 1)) % N = (g_q_head + ((g_q_count - 1) + 1)) % N
    <3>1. g_q_count - 1 \in 0 .. g_q_count - 1
      BY <1>1
    <3>. QED  BY <1>7, <3>1
  <2>2. (g_q_count - 1) + 1 = g_q_count /\ g_q_count - 1 \in 0 .. N
    BY <1>1
  <2>. QED  BY <1>1, <1>2, <1>6, <2>1, <2>2 DEF RingOK, N, h
<1>9. Contents' = [i \in 1 .. g_q_count - 1 |-> g_queue[(h + (i - 1)) % N]]
  BY <1>2 DEF Contents, slot, N, h
<1>10. /\ Contents # <<>> /\ Tail(Contents) \in Seq(EVT) /\ Len(Tail(Contents)) = g_q_count - 1
       /\ \A i \in 1 .. g_q_count - 1 : Tail(Contents)[i] = Contents[i + 1]
  <2>1. Contents # <<>>
    BY <1>1, <1>3, EmptySeq
  <2>. QED  BY <1>3, <2>1, HeadTailProperties
<1>11. Contents' = Tail(Contents)
  <2>. DEFINE A == Tail(Contents)
  <2>1. /\ A \in Seq(EVT) /\ Len(A) = g_q_count - 1
        /\ \A i \in 1 .. g_q_count - 1 : A[i] = Contents[i + 1]
    BY <1>10
  <2>. HIDE DEF A
  <2>2. A = [i \in 1 .. g_q_count - 1 |-> A[i]]
    BY <2>1, LenProperties
  <2>3. ASSUME NEW i \in 1 .. g_q_count - 1
        PROVE  g_queue[(h + (i - 1)) % N] = A[i]
    <3>1. i - 1 \in 0 .. g_q_count - 1 /\ i + 1 \in 1 .. g_q_count /\ (i - 1) + 1 = (i + 1) - 1
      BY <1>1
    <3>2. (h + (i - 1)) % N = (g_q_head + ((i - 1) + 1)) % N
      BY <1>7, <3>1
    <3>3. A[i] = g_queue[(g_q_head + ((i + 1) - 1)) % N]
      BY <1>3, <2>1, <3>1
    <3>. QED  BY <3>1, <3>2, <3>3
  <2>. QED  BY <1>9, <2>2, <2>3 DEF A
<1>12. Contents[1] = g_queue[g_q_head]
  <2>1. 1 \in 1 .. g_q_count /\ g_q_head + (1 - 1) = g_q_head /\ g_q_head \in 0 .. 2 * N - 1 /\ g_q_head < N
    BY <1>1
  <2>2. g_q_head % N = g_q_head
    BY <1>1, <2>1, RingMod DEF Around
  <2>. QED  BY <1>3, <2>1, <2>2
<1>. QED  BY <1>8, <1>10, <1>11, <1>12

\* clr_evt leaves the others, from slot 0 on.
LEMMA ClrStep ==
  ASSUME RingOK, NEW mask, clr_evt(mask)
  PROVE  RingOK' /\ Contents' = Without(Contents, mask)
<1>. DEFINE N == EVENT_QUEUE_SIZE
            K == Without(Contents, mask)
<1>1. /\ N \in Nat \ {0} /\ g_q_count \in 0 .. N /\ g_queue \in [0 .. N - 1 -> EVT]
  BY EventAssumption DEF RingOK
<1>2. Contents \in Seq(EVT) /\ Len(Contents) = g_q_count
  BY ContentsProperties
<1>3. /\ g_queue' = [i \in DOMAIN g_queue |-> IF i < Len(K) THEN K[i + 1] ELSE g_queue[i]]
      /\ g_q_head' = 0 /\ g_q_tail' = Len(K) % N /\ g_q_count' = Len(K)
  BY DEF clr_evt, new_tail
<1>4. K \in Seq(EVT) /\ Len(K) <= g_q_count /\ Len(K) \in Nat
  BY <1>2, WithoutProperties, LenProperties
<1>. HIDE DEF N, K
<1>5. \A i \in 1 .. Len(K) : K[i] \in EVT
  BY <1>4, ElementOfSeq
<1>6. \A i \in 0 .. N - 1 : g_queue'[i] = IF i < Len(K) THEN K[i + 1] ELSE g_queue[i]
  BY <1>1, <1>3
<1>7. g_queue' \in [0 .. N - 1 -> EVT]
  <2>1. ASSUME NEW i \in 0 .. N - 1  PROVE g_queue'[i] \in EVT
    <3>1. CASE i < Len(K)
      <4>1. i + 1 \in 1 .. Len(K)
        BY <1>1, <1>4, <3>1
      <4>. QED  BY <1>5, <1>6, <3>1, <4>1
    <3>2. CASE ~(i < Len(K))
      BY <1>1, <1>6, <3>2
    <3>. QED  BY <3>1, <3>2
  <2>. QED  BY <1>1, <1>3, <2>1
<1>8. RingOK'
  <2>1. Len(K) % N \in 0 .. N - 1
    BY <1>1, <1>4
  <2>2. 0 + Len(K) = Len(K) /\ Len(K) \in 0 .. N /\ 0 \in 0 .. N - 1
    BY <1>1, <1>4
  <2>. QED  BY <1>3, <1>7, <2>1, <2>2 DEF RingOK, N
<1>9. Contents' = [i \in 1 .. Len(K) |-> g_queue'[(0 + (i - 1)) % N]]
  BY <1>3 DEF Contents, slot, N
<1>10. ASSUME NEW i \in 1 .. Len(K)  PROVE g_queue'[(0 + (i - 1)) % N] = K[i]
  <2>1. 0 + (i - 1) \in 0 .. 2 * N - 1 /\ 0 + (i - 1) < N /\ (0 + (i - 1)) + 1 = i /\ 0 + (i - 1) < Len(K)
    BY <1>1, <1>4
  <2>2. (0 + (i - 1)) % N = Around(0 + (i - 1), N)
    BY <1>1, <2>1, RingMod, Zenon
  <2>3. 0 + (i - 1) \in 0 .. N - 1
    BY <1>1, <2>1
  <2>. QED  BY <1>6, <2>1, <2>2, <2>3 DEF Around
<1>11. K = [i \in 1 .. Len(K) |-> K[i]]
  BY <1>4, LenProperties
<1>12. Contents' = K
  BY <1>9, <1>10, <1>11
<1>. QED  BY <1>8, <1>12 DEF K

\* init_evt_sys leaves an empty ring.
LEMMA RingInit ==
  ASSUME init_evt_sys
  PROVE  RingOK /\ Contents = <<>>
<1>1. (CHOOSE e \in EVT : TRUE) \in EVT
  BY EventAssumption
<1>2. g_queue \in [0 .. EVENT_QUEUE_SIZE - 1 -> EVT]
  BY <1>1 DEF init_evt_sys
<1>3. EVENT_QUEUE_SIZE \in Nat \ {0} /\ g_q_head = 0 /\ g_q_tail = 0 /\ g_q_count = 0
  BY EventAssumption DEF init_evt_sys
<1>4. (0 + 0) % EVENT_QUEUE_SIZE = 0
  <2>1. 0 \in 0 .. 2 * EVENT_QUEUE_SIZE - 1 /\ 0 < EVENT_QUEUE_SIZE /\ 0 + 0 = 0
    BY <1>3
  <2>. QED  BY <1>3, <2>1, RingMod DEF Around
<1>5. RingOK
  BY <1>2, <1>3, <1>4 DEF RingOK
<1>6. Contents \in Seq(EVT) /\ Len(Contents) = 0
  BY <1>3, <1>5, ContentsProperties
<1>. QED  BY <1>5, <1>6, EmptySeq

-----------------------------------------------------------------------------
(* The mouse buttons, as the events in the queue report them.              *)

\* What an event says of the number of buttons that are down.
change(e) == IF e = "BUT_DOWN" THEN 1 ELSE IF e = "BUT_UP" THEN -1 ELSE 0

\* f is the number of buttons down before the first event of q and after each.
Levels(q, f) == /\ f \in [0 .. Len(q) -> Nat]
                /\ \A i \in 1 .. Len(q) : f[i] = f[i - 1] + change(q[i])

\* ... from a buttons on to b.
Leads(q, a, b) == \E f : Levels(q, f) /\ f[0] = a /\ f[Len(q)] = b

\* No event, no change.
LEMMA LeadsEmpty ==
  ASSUME NEW a \in Nat
  PROVE  Leads(<<>>, a, a)
<1>. DEFINE f == [i \in 0 .. 0 |-> a]
<1>1. Levels(<<>>, f) /\ f[0] = a /\ Len(<<>>) = 0
  BY DEF Levels
<1>. QED  BY <1>1 DEF Leads

\* One more event.
LEMMA LeadsAppend ==
  ASSUME NEW S, NEW q \in Seq(S), NEW e \in S, NEW a, NEW b, Leads(q, a, b),
         b + change(e) \in Nat
  PROVE  Leads(Append(q, e), a, b + change(e))
<1>. DEFINE r == Append(q, e)
            L == Len(q)
<1>1. PICK f : Levels(q, f) /\ f[0] = a /\ f[L] = b
  BY DEF Leads
<1>2. L \in Nat /\ Len(r) = L + 1 /\ r[L + 1] = e /\ \A i \in 1 .. L : r[i] = q[i]
  BY AppendProperties, LenProperties
<1>3. f \in [0 .. L -> Nat] /\ \A i \in 1 .. L : f[i] = f[i - 1] + change(q[i])
  BY <1>1 DEF Levels
<1>. HIDE DEF r, L
<1>. DEFINE g == [i \in 0 .. L + 1 |-> IF i = L + 1 THEN b + change(e) ELSE f[i]]
<1>4. g \in [0 .. L + 1 -> Nat]
  <2>1. ASSUME NEW i \in 0 .. L + 1  PROVE g[i] \in Nat
    <3>1. i # L + 1 => i \in 0 .. L
      BY <1>2
    <3>. QED  BY <1>3, <3>1
  <2>. QED  BY <2>1
<1>5. g[L + 1] = b + change(e) /\ g[0] = a /\ \A i \in 0 .. L : g[i] = f[i]
  <2>1. /\ L + 1 \in 0 .. L + 1 /\ 0 \in 0 .. L + 1 /\ 0 # L + 1
        /\ \A i \in 0 .. L : i \in 0 .. L + 1 /\ i # L + 1
    BY <1>2
  <2>. QED  BY <1>1, <2>1
<1>. HIDE DEF g
<1>6. ASSUME NEW i \in 1 .. L + 1  PROVE g[i] = g[i - 1] + change(r[i])
  <2>1. CASE i = L + 1
    <3>1. i - 1 = L /\ L \in 0 .. L
      BY <1>2, <2>1
    <3>. QED  BY <1>1, <1>2, <1>5, <2>1, <3>1
  <2>2. CASE i # L + 1
    <3>1. i \in 1 .. L /\ i \in 0 .. L /\ i - 1 \in 0 .. L
      BY <1>2, <2>2
    <3>. QED  BY <1>2, <1>3, <1>5, <3>1
  <2>. QED  BY <2>1, <2>2
<1>7. Levels(r, g)
  BY <1>2, <1>4, <1>6 DEF Levels
<1>. QED  BY <1>2, <1>5, <1>7 DEF Leads, r

\* One event fewer.
LEMMA LeadsTail ==
  ASSUME NEW S, NEW q \in Seq(S), q # <<>>, NEW a, NEW b, Leads(q, a, b)
  PROVE  a \in Nat /\ Leads(Tail(q), a + change(q[1]), b)
<1>. DEFINE r == Tail(q)
            L == Len(q)
<1>1. PICK f : Levels(q, f) /\ f[0] = a /\ f[L] = b
  BY DEF Leads
<1>2. L \in Nat /\ L >= 1
  BY LenProperties, EmptySeq
<1>3. Len(r) = L - 1 /\ \A i \in 1 .. L - 1 : r[i] = q[i + 1]
  BY HeadTailProperties
<1>4. f \in [0 .. L -> Nat] /\ \A i \in 1 .. L : f[i] = f[i - 1] + change(q[i])
  BY <1>1 DEF Levels
<1>. HIDE DEF r, L
<1>. DEFINE g == [i \in 0 .. L - 1 |-> f[i + 1]]
<1>5. g \in [0 .. L - 1 -> Nat]
  <2>1. ASSUME NEW i \in 0 .. L - 1  PROVE f[i + 1] \in Nat
    <3>1. i + 1 \in 0 .. L
      BY <1>2
    <3>. QED  BY <1>4, <3>1
  <2>. QED  BY <2>1
<1>6. ASSUME NEW i \in 1 .. L - 1  PROVE g[i] = g[i - 1] + change(r[i])
  <2>1. /\ i \in 0 .. L - 1 /\ i - 1 \in 0 .. L - 1 /\ i + 1 \in 1 .. L
        /\ (i - 1) + 1 = i /\ (i + 1) - 1 = i
    BY <1>2
  <2>2. g[i] = f[i + 1] /\ g[i - 1] = f[i]
    BY <2>1
  <2>3. f[i + 1] = f[i] + change(q[i + 1])
    BY <1>4, <2>1
  <2>. QED  BY <1>3, <2>2, <2>3
<1>7. g[0] = a + change(q[1]) /\ g[L - 1] = b /\ a \in Nat
  <2>1. 0 \in 0 .. L - 1 /\ L - 1 \in 0 .. L - 1 /\ 1 \in 1 .. L /\ 0 + 1 = 1 /\ (L - 1) + 1 = L /\ 0 \in 0 .. L
    BY <1>2
  <2>2. g[0] = f[1] /\ g[L - 1] = f[L] /\ f[1] = f[1 - 1] + change(q[1]) /\ 1 - 1 = 0
    BY <1>4, <2>1
  <2>. QED  BY <1>1, <1>4, <2>1, <2>2
<1>. HIDE DEF g
<1>8. Levels(r, g)
  BY <1>3, <1>5, <1>6 DEF Levels
<1>. QED  BY <1>3, <1>7, <1>8 DEF Leads, r

\* Without events that change nothing.
LEMMA LeadsWithout ==
  ASSUME NEW T, NEW q \in Seq(T), NEW S, NEW a, NEW b, Leads(q, a, b),
         \A i \in 1 .. Len(q) : q[i] \in S => change(q[i]) = 0
  PROVE  Leads(Without(q, S), a, b)
<1>1. PICK g \in [0 .. Len(q) -> Seq(T)] : Remaining(q, S, g) /\ Without(q, S) = g[Len(q)]
  BY WithoutSteps
<1>2. Len(q) \in Nat /\ \A n \in 1 .. Len(q) : q[n] \in T
  BY LenProperties, ElementOfSeq
<1>3. PICK f : Levels(q, f) /\ f[0] = a /\ f[Len(q)] = b
  BY DEF Leads
<1>4. f \in [0 .. Len(q) -> Nat] /\ \A i \in 1 .. Len(q) : f[i] = f[i - 1] + change(q[i])
  BY <1>3 DEF Levels
<1>. DEFINE P == {n \in Nat : n <= Len(q) => Leads(g[n], a, f[n])}
<1>5. 0 \in P
  <2>1. g[0] = <<>> /\ f[0] \in Nat
    BY <1>1, <1>2, <1>4 DEF Remaining
  <2>. QED  BY <1>3, <2>1, LeadsEmpty
<1>6. ASSUME NEW n \in Nat, n \in P  PROVE n + 1 \in P
  <2>. SUFFICES ASSUME n + 1 <= Len(q)  PROVE Leads(g[n + 1], a, f[n + 1])
    OBVIOUS
  <2>1. /\ n <= Len(q) /\ n \in 0 .. Len(q) /\ n + 1 \in 1 .. Len(q) /\ n + 1 \in 0 .. Len(q)
        /\ (n + 1) - 1 = n
    BY <1>2
  <2>2. Leads(g[n], a, f[n])
    BY <1>6, <2>1
  <2>3. g[n + 1] = IF q[n + 1] \in S THEN g[n] ELSE Append(g[n], q[n + 1])
    BY <1>1, <2>1 DEF Remaining
  <2>4. f[n + 1] = f[n] + change(q[n + 1]) /\ f[n] \in Nat /\ f[n + 1] \in Nat
    BY <1>4, <2>1
  <2>5. CASE q[n + 1] \in S
    BY <2>1, <2>2, <2>3, <2>4, <2>5
  <2>6. CASE q[n + 1] \notin S
    <3>1. g[n] \in Seq(T) /\ q[n + 1] \in T
      BY <1>1, <1>2, <2>1
    <3>2. Leads(Append(g[n], q[n + 1]), a, f[n] + change(q[n + 1]))
      BY <2>2, <2>4, <3>1, LeadsAppend
    <3>. QED  BY <2>3, <2>4, <2>6, <3>2
  <2>. QED  BY <2>5, <2>6
<1>. HIDE DEF P
<1>7. Nat \subseteq P
  BY <1>5, <1>6, SetInduction
<1>. QED  BY <1>1, <1>2, <1>3, <1>7 DEF P

\* The buttons that the window manager believes to be down: a gesture goes on
\* only while there are some, and the queue has the events that lead to those
\* that are down.
GesturesOK ==
    /\ pressed \in Nat
    /\ ~lost => \E a \in Nat : /\ Leads(Contents, a, pressed)
                               /\ (drag = NULL /\ slide = NULL /\ resize = NULL) \/ a > 0

\* A driver reports a button or something else.
LEMMA GesturesDriver ==
  ASSUME RingOK, GesturesOK, NEW e \in EVT, Driver(e)
  PROVE  GesturesOK'
<1>1. /\ pressed' \in Nat /\ pressed' = pressed + change(e)
  BY DEF Driver, Input, change, GesturesOK
<1>2. UNCHANGED <<drag, slide, resize>>
  BY DEF Driver, gestures
<1>3. CASE full
  <2>1. UNCHANGED queue /\ lost' = (lost \/ e \in Buttons)
    BY <1>3 DEF Driver
  <2>2. Contents' = Contents
    BY <2>1 DEF Contents, slot, queue
  <2>3. ~lost' => ~lost /\ change(e) = 0
    BY <2>1 DEF Buttons, change
  <2>. QED  BY <1>1, <1>2, <2>2, <2>3 DEF GesturesOK
<1>4. CASE ~full
  <2>1. snd_evt(e) /\ lost' = lost
    BY <1>4 DEF Driver
  <2>2. Contents' = Append(Contents, e) /\ Contents \in Seq(EVT)
    BY <2>1, SndStep, ContentsProperties
  <2>. SUFFICES ASSUME ~lost
                PROVE  \E a \in Nat : /\ Leads(Contents', a, pressed')
                                      /\ (drag = NULL /\ slide = NULL /\ resize = NULL) \/ a > 0
    BY <1>1, <1>2, <2>1 DEF GesturesOK
  <2>3. PICK a \in Nat : /\ Leads(Contents, a, pressed)
                         /\ (drag = NULL /\ slide = NULL /\ resize = NULL) \/ a > 0
    BY DEF GesturesOK
  <2>4. Leads(Append(Contents, e), a, pressed + change(e))
    BY <1>1, <2>2, <2>3, LeadsAppend
  <2>. QED  BY <1>1, <2>2, <2>3, <2>4
<1>. QED  BY <1>3, <1>4

\* An application clears events.
LEMMA GesturesClrEvt ==
  ASSUME RingOK, GesturesOK, NEW mask, ClrEvt(mask)
  PROVE  GesturesOK'
<1>1. /\ clr_evt(mask) /\ UNCHANGED <<drag, slide, resize, pressed>>
      /\ lost' = (lost \/ \E i \in 1..g_q_count : Contents[i] \in mask \cap Buttons)
  BY DEF ClrEvt, gestures
<1>2. Contents' = Without(Contents, mask) /\ Contents \in Seq(EVT) /\ Len(Contents) = g_q_count
  BY <1>1, ClrStep, ContentsProperties
<1>. SUFFICES ASSUME ~lost'
              PROVE  \E a \in Nat : /\ Leads(Contents', a, pressed)
                                    /\ (drag = NULL /\ slide = NULL /\ resize = NULL) \/ a > 0
  BY <1>1 DEF GesturesOK
<1>3. PICK a \in Nat : /\ Leads(Contents, a, pressed)
                       /\ (drag = NULL /\ slide = NULL /\ resize = NULL) \/ a > 0
  BY <1>1 DEF GesturesOK
<1>4. \A i \in 1 .. Len(Contents) : Contents[i] \in mask => change(Contents[i]) = 0
  BY <1>1, <1>2 DEF Buttons, change
<1>5. Leads(Without(Contents, mask), a, pressed)
  BY <1>2, <1>3, <1>4, LeadsWithout
<1>. QED  BY <1>2, <1>3, <1>5

\* The desktop handles an event: only a press begins a gesture, and the first
\* release ends them all.
LEMMA GesturesProcess ==
  ASSUME RingOK, GesturesOK, Process
  PROVE  GesturesOK'
<1>. DEFINE e == g_queue[g_q_head]
            Idle == drag = NULL /\ slide = NULL /\ resize = NULL
<1>1. get_evt /\ UNCHANGED <<pressed, lost>>
  BY DEF Process
<1>2. Contents' = Tail(Contents) /\ Contents # <<>> /\ Contents[1] = e /\ Contents \in Seq(EVT)
  BY <1>1, GetStep, ContentsProperties
<1>3. \/ e = "BUT_DOWN"
      \/ e = "BUT_UP" /\ Idle'
      \/ e \notin Buttons /\ UNCHANGED <<drag, slide, resize>>
  BY DEF Process, Buttons, ButUp, end_gestures, MouseMove, KeyDown, Menu, OpnWnd, SelectWnd,
         HideAll, CycleFocus, gestures
<1>. HIDE DEF e
<1>. SUFFICES ASSUME ~lost
              PROVE  \E a \in Nat : Leads(Contents', a, pressed) /\ (Idle' \/ a > 0)
  BY <1>1 DEF GesturesOK
<1>4. PICK a \in Nat : Leads(Contents, a, pressed) /\ (Idle \/ a > 0)
  BY DEF GesturesOK
<1>5. Leads(Contents', a + change(e), pressed)
  BY <1>2, <1>4, LeadsTail
<1>6. a + change(e) \in Nat
  <2>1. PICK f : Levels(Contents', f) /\ f[0] = a + change(e)
    BY <1>5 DEF Leads
  <2>2. Len(Contents') \in Nat
    BY <1>2, HeadTailProperties, LenProperties
  <2>. QED  BY <2>1, <2>2 DEF Levels
<1>7. Idle' \/ a + change(e) > 0
  BY <1>3, <1>4 DEF change, Buttons
<1>. QED  BY <1>5, <1>6, <1>7

\* An empty queue leads nowhere.
LEMMA GesturesEnd ==
  ASSUME RingOK, GesturesOK
  PROVE  NoStuckGesture
<1>. SUFFICES ASSUME pressed = 0, g_q_count = 0, ~lost
              PROVE  drag = NULL /\ slide = NULL /\ resize = NULL
  BY DEF NoStuckGesture
<1>1. PICK a \in Nat : /\ Leads(Contents, a, pressed)
                       /\ (drag = NULL /\ slide = NULL /\ resize = NULL) \/ a > 0
  BY DEF GesturesOK
<1>2. Len(Contents) = 0
  BY ContentsProperties
<1>3. a = 0
  BY <1>1, <1>2 DEF Leads
<1>. QED  BY <1>1, <1>3

-----------------------------------------------------------------------------
(* The z-stack: the linked windows are a sequence without repetitions.     *)

Pointers == WND \cup {NULL}

Wnds == [head : Pointers,
         mem  : [WND -> [open : BOOLEAN, next : Pointers, prev : Pointers,
                         focused : BOOLEAN, visible : BOOLEAN]]]

\* The pointers link s, in both directions.
Chain(mem, s) ==
    /\ s \in Seq(WND) /\ IsInjective(s)
    /\ \A i \in 1 .. Len(s) : /\ mem[s[i]].next = IF i = Len(s) THEN NULL ELSE s[i + 1]
                              /\ mem[s[i]].prev = IF i = 1 THEN NULL ELSE s[i - 1]

First(s) == IF s = <<>> THEN NULL ELSE s[1]

\* The windows of k are those of s, and the first of them has the focus.
Stack(k, s) ==
    /\ k \in Wnds /\ Chain(k.mem, s) /\ k.head = First(s)
    /\ open(k) = ToSet(s)
    /\ \A w \in open(k) : k.mem[w].focused <=> w = k.head

Stacked(k) == \E s : Stack(k, s)

\* Everything but the pointers of the list.
SameWindows(k, f) ==
    \A w \in WND : /\ f.mem[w].open = k.mem[w].open /\ f.mem[w].focused = k.mem[w].focused
                   /\ f.mem[w].visible = k.mem[w].visible

\* f is k with another next field of a window, or of none.
NextIs(k, w, v, f) ==
    /\ f \in Wnds /\ f.head = k.head
    /\ \A u \in WND : /\ f.mem[u].next = IF u = w THEN v ELSE k.mem[u].next
                    /\ f.mem[u].prev = k.mem[u].prev
                    /\ f.mem[u].open = k.mem[u].open
                    /\ f.mem[u].focused = k.mem[u].focused
                    /\ f.mem[u].visible = k.mem[u].visible

\* set_next does so.
LEMMA SetNext ==
  ASSUME NEW k \in Wnds, NEW w \in Pointers, NEW v \in Pointers
  PROVE  NextIs(k, w, v, set_next(k, w, v))
<1>1. CASE w = NULL
  BY <1>1, WindowAssumption DEF set_next, NextIs
<1>2. CASE w \in WND
  <2>1. set_next(k, w, v) = [k EXCEPT !.mem[w].next = v]
    BY <1>2, WindowAssumption DEF set_next
  <2>. QED  BY <1>2, <2>1 DEF NextIs, Wnds, Pointers
<1>. QED  BY <1>1, <1>2 DEF Pointers

\* ... with another prev field.
PrevIs(k, w, v, f) ==
    /\ f \in Wnds /\ f.head = k.head
    /\ \A u \in WND : /\ f.mem[u].prev = IF u = w THEN v ELSE k.mem[u].prev
                    /\ f.mem[u].next = k.mem[u].next
                    /\ f.mem[u].open = k.mem[u].open
                    /\ f.mem[u].focused = k.mem[u].focused
                    /\ f.mem[u].visible = k.mem[u].visible

\* set_prev does so.
LEMMA SetPrev ==
  ASSUME NEW k \in Wnds, NEW w \in Pointers, NEW v \in Pointers
  PROVE  PrevIs(k, w, v, set_prev(k, w, v))
<1>1. CASE w = NULL
  BY <1>1, WindowAssumption DEF set_prev, PrevIs
<1>2. CASE w \in WND
  <2>1. set_prev(k, w, v) = [k EXCEPT !.mem[w].prev = v]
    BY <1>2, WindowAssumption DEF set_prev
  <2>. QED  BY <1>2, <2>1 DEF PrevIs, Wnds, Pointers
<1>. QED  BY <1>1, <1>2 DEF Pointers

\* ... with another focus.
FocusedIs(k, w, v, f) ==
    /\ f \in Wnds /\ f.head = k.head
    /\ \A u \in WND : /\ f.mem[u].focused = IF u = w THEN v ELSE k.mem[u].focused
                    /\ f.mem[u].next = k.mem[u].next
                    /\ f.mem[u].prev = k.mem[u].prev
                    /\ f.mem[u].open = k.mem[u].open
                    /\ f.mem[u].visible = k.mem[u].visible

\* set_focused does so.
LEMMA SetFocused ==
  ASSUME NEW k \in Wnds, NEW w \in Pointers, NEW v \in BOOLEAN
  PROVE  FocusedIs(k, w, v, set_focused(k, w, v))
<1>1. CASE w = NULL
  BY <1>1, WindowAssumption DEF set_focused, FocusedIs
<1>2. CASE w \in WND
  <2>1. set_focused(k, w, v) = [k EXCEPT !.mem[w].focused = v]
    BY <1>2, WindowAssumption DEF set_focused
  <2>. QED  BY <1>2, <2>1 DEF FocusedIs, Wnds, Pointers
<1>. QED  BY <1>1, <1>2 DEF Pointers

\* The members of a sequence of windows.
LEMMA ChainMembers ==
  ASSUME NEW mem, NEW s, Chain(mem, s)
  PROVE  /\ Len(s) \in Nat
         /\ \A i \in 1 .. Len(s) : s[i] \in WND /\ s[i] # NULL
         /\ \A i, j \in 1 .. Len(s) : s[i] = s[j] => i = j
         /\ \A w : w \in ToSet(s) <=> \E i \in 1 .. Len(s) : s[i] = w
         /\ s = <<>> <=> Len(s) = 0
<1>1. s \in Seq(WND) /\ IsInjective(s)
  BY DEF Chain
<1>2. Len(s) \in Nat /\ \A i \in 1 .. Len(s) : s[i] \in WND
  BY <1>1, LenProperties, ElementOfSeq
<1>3. \A i, j \in 1 .. Len(s) : s[i] = s[j] => i = j
  BY <1>1, InjectivePositions
<1>4. \A w : w \in ToSet(s) <=> \E i \in 1 .. Len(s) : s[i] = w
  BY <1>1, MemberPosition
<1>5. s = <<>> <=> Len(s) = 0
  BY <1>1, EmptySeq
<1>. QED  BY <1>2, <1>3, <1>4, <1>5, WindowAssumption

\* Taking the window at position i out of the list.
LEMMA UnlinkChain ==
  ASSUME NEW k \in Wnds, NEW s, Chain(k.mem, s), NEW i \in 1 .. Len(s)
  PROVE  /\ unlink(k, s[i]) \in Wnds /\ unlink(k, s[i]).head = k.head
         /\ SameWindows(k, unlink(k, s[i]))
         /\ Chain(unlink(k, s[i]).mem, RemoveAt(s, i))
<1>. DEFINE w == s[i]
            L == Len(s)
            p == k.mem[w].prev
            n == k.mem[w].next
            k1 == set_next(k, p, n)
            k2 == set_prev(k1, n, p)
            r == RemoveAt(s, i)
<1>1. /\ L \in Nat /\ \A j \in 1 .. L : s[j] \in WND /\ s[j] # NULL
      /\ \A j, m \in 1 .. L : s[j] = s[m] => j = m
  BY ChainMembers
<1>2. \A j \in 1 .. L : /\ k.mem[s[j]].next = IF j = L THEN NULL ELSE s[j + 1]
                        /\ k.mem[s[j]].prev = IF j = 1 THEN NULL ELSE s[j - 1]
  BY DEF Chain
<1>3. p = (IF i = 1 THEN NULL ELSE s[i - 1]) /\ n = (IF i = L THEN NULL ELSE s[i + 1])
  BY <1>2
<1>4. w \in WND /\ p \in Pointers /\ n \in Pointers
  <2>1. i # 1 => i - 1 \in 1 .. L
    BY <1>1
  <2>2. i # L => i + 1 \in 1 .. L
    BY <1>1
  <2>. QED  BY <1>1, <1>3, <2>1, <2>2 DEF Pointers
<1>5. /\ r \in Seq(WND) /\ Len(r) = L - 1
      /\ \A j \in 1 .. L - 1 : r[j] = IF j < i THEN s[j] ELSE s[j + 1]
  BY RemoveAtProperties DEF Chain
<1>. HIDE DEF p, n, r, L, w
<1>6. NextIs(k, p, n, k1)
  BY <1>4, SetNext
<1>. HIDE DEF k1
<1>7. PrevIs(k1, n, p, k2)
  <2>1. k1 \in Wnds
    BY <1>6 DEF NextIs
  <2>. QED  BY <1>4, <2>1, SetPrev
<1>. HIDE DEF k2
<1>8. /\ k2 \in Wnds /\ k2.head = k.head /\ SameWindows(k, k2)
      /\ \A u \in WND : /\ k2.mem[u].next = IF u = p THEN n ELSE k.mem[u].next
                        /\ k2.mem[u].prev = IF u = n THEN p ELSE k.mem[u].prev
  BY <1>6, <1>7 DEF SameWindows, NextIs, PrevIs
<1>9. unlink(k, w) = k2
  BY DEF unlink, k1, k2, p, n
<1>10. \A j \in 1 .. L - 1 : /\ j < i => j \in 1 .. L /\ r[j] = s[j]
                             /\ ~(j < i) => j + 1 \in 1 .. L /\ r[j] = s[j + 1] /\ j + 1 # i
  BY <1>1, <1>5 DEF L
<1>11. IsInjective(r)
  <2>. SUFFICES ASSUME NEW j \in 1 .. L - 1, NEW m \in 1 .. L - 1, r[j] = r[m]
                PROVE  j = m
    BY <1>5, InjectivePositions
  <2>1. CASE j < i /\ m < i
    BY <1>1, <1>10, <2>1
  <2>2. CASE j < i /\ ~(m < i)
    <3>1. s[j] = s[m + 1] /\ j \in 1 .. L /\ m + 1 \in 1 .. L
      BY <1>10, <2>2
    <3>2. j = m + 1
      BY <1>1, <3>1
    <3>. QED  BY <1>1, <2>2, <3>2
  <2>3. CASE ~(j < i) /\ m < i
    <3>1. s[j + 1] = s[m] /\ j + 1 \in 1 .. L /\ m \in 1 .. L
      BY <1>10, <2>3
    <3>2. j + 1 = m
      BY <1>1, <3>1
    <3>. QED  BY <1>1, <2>3, <3>2
  <2>4. CASE ~(j < i) /\ ~(m < i)
    <3>1. s[j + 1] = s[m + 1] /\ j + 1 \in 1 .. L /\ m + 1 \in 1 .. L
      BY <1>10, <2>4
    <3>2. j + 1 = m + 1
      BY <1>1, <3>1
    <3>. QED  BY <1>1, <3>2
  <2>. QED  BY <2>1, <2>2, <2>3, <2>4
<1>12. i \in 1 .. L
  BY DEF L
<1>13. ASSUME NEW j \in 1 .. L - 1
       PROVE  k2.mem[r[j]].next = IF j = L - 1 THEN NULL ELSE r[j + 1]
  <2>1. CASE j < i - 1
    <3>1. j \in 1 .. L /\ j + 1 \in 1 .. L - 1 /\ j + 1 < i /\ j # L /\ j # L - 1 /\ i # 1
          /\ i - 1 \in 1 .. L /\ j # i - 1 /\ j < i
      BY <1>1, <1>12, <2>1
    <3>2. r[j] = s[j] /\ r[j + 1] = s[j + 1]
      BY <1>10, <3>1
    <3>3. s[j] # p
      BY <1>1, <1>3, <3>1
    <3>4. s[j] \in WND /\ k.mem[s[j]].next = s[j + 1]
      BY <1>1, <1>2, <3>1
    <3>. QED  BY <1>8, <3>1, <3>2, <3>3, <3>4
  <2>2. CASE j = i - 1
    <3>1. j \in 1 .. L /\ j < i /\ i # 1 /\ (j = L - 1 <=> i = L)
          /\ (j # L - 1 => j + 1 \in 1 .. L - 1 /\ ~(j + 1 < i) /\ (j + 1) + 1 = i + 1)
      BY <1>1, <1>12, <2>2
    <3>2. r[j] = s[j] /\ s[j] = p /\ s[j] \in WND
      BY <1>1, <1>3, <1>10, <2>2, <3>1
    <3>3. j # L - 1 => r[j + 1] = s[i + 1]
      BY <1>10, <3>1
    <3>. QED  BY <1>3, <1>8, <3>1, <3>2, <3>3
  <2>3. CASE ~(j < i)
    <3>1. j + 1 \in 1 .. L /\ (j = L - 1 <=> j + 1 = L)
          /\ (j # L - 1 => j + 1 \in 1 .. L - 1 /\ ~(j + 1 < i))
          /\ (i # 1 => i - 1 \in 1 .. L /\ i - 1 # j + 1)
      BY <1>1, <1>12, <2>3
    <3>2. r[j] = s[j + 1] /\ s[j + 1] \in WND /\ s[j + 1] # p
      BY <1>1, <1>3, <1>10, <2>3, <3>1
    <3>3. j # L - 1 => r[j + 1] = s[(j + 1) + 1]
      BY <1>10, <3>1
    <3>4. k.mem[s[j + 1]].next = IF j + 1 = L THEN NULL ELSE s[(j + 1) + 1]
      BY <1>2, <3>1
    <3>. QED  BY <1>8, <3>1, <3>2, <3>3, <3>4
  <2>. QED  BY <1>1, <1>12, <2>1, <2>2, <2>3
<1>14. ASSUME NEW j \in 1 .. L - 1
       PROVE  k2.mem[r[j]].prev = IF j = 1 THEN NULL ELSE r[j - 1]
  <2>1. CASE j < i
    <3>1. j \in 1 .. L /\ (j # 1 => j - 1 \in 1 .. L - 1 /\ j - 1 < i)
          /\ (i # L => i + 1 \in 1 .. L /\ i + 1 # j)
      BY <1>1, <1>12, <2>1
    <3>2. r[j] = s[j] /\ s[j] \in WND /\ s[j] # n
      BY <1>1, <1>3, <1>10, <2>1, <3>1
    <3>3. j # 1 => r[j - 1] = s[j - 1]
      BY <1>10, <3>1
    <3>. QED  BY <1>2, <1>8, <3>1, <3>2, <3>3
  <2>2. CASE j = i
    <3>1. i # L /\ i + 1 \in 1 .. L /\ (j = 1 <=> i = 1)
          /\ (j # 1 => j - 1 \in 1 .. L - 1 /\ j - 1 < i /\ j - 1 = i - 1) /\ ~(j < i)
      BY <1>1, <1>12, <2>2
    <3>2. r[j] = s[i + 1] /\ s[i + 1] \in WND /\ s[i + 1] = n
      BY <1>1, <1>3, <1>10, <2>2, <3>1
    <3>3. j # 1 => r[j - 1] = s[i - 1]
      BY <1>10, <3>1
    <3>. QED  BY <1>3, <1>8, <3>1, <3>2, <3>3
  <2>3. CASE j > i
    <3>1. j + 1 \in 1 .. L /\ j # 1 /\ j + 1 # 1 /\ j - 1 \in 1 .. L - 1 /\ ~(j - 1 < i)
          /\ (j - 1) + 1 = j /\ (j + 1) - 1 = j /\ ~(j < i) /\ (i # L => i + 1 \in 1 .. L /\ i + 1 # j + 1)
      BY <1>1, <1>12, <2>3
    <3>2. r[j] = s[j + 1] /\ s[j + 1] \in WND /\ s[j + 1] # n
      BY <1>1, <1>3, <1>10, <3>1
    <3>3. r[j - 1] = s[j]
      BY <1>10, <3>1
    <3>4. k.mem[s[j + 1]].prev = s[j]
      BY <1>2, <3>1
    <3>. QED  BY <1>8, <3>1, <3>2, <3>3, <3>4
  <2>. QED  BY <1>1, <1>12, <2>1, <2>2, <2>3
<1>15. Chain(k2.mem, r)
  BY <1>5, <1>11, <1>13, <1>14 DEF Chain
<1>. QED  BY <1>8, <1>9, <1>15 DEF r, w

\* f is k with w in front of the windows s, and r are these.
Pushed(k, s, w, f, r) ==
    /\ f \in Wnds /\ Chain(f.mem, r) /\ f.head = First(r) /\ f.head = w
    /\ open(f) = open(k) \cup {w} /\ ToSet(r) = ToSet(s) \cup {w}
    /\ \A u \in ToSet(r) : f.mem[u].focused <=> u = w

\* push puts a window in front.
LEMMA PushStack ==
  ASSUME NEW k \in Wnds, NEW s, Chain(k.mem, s), k.head = First(s),
         NEW w \in WND, w \notin ToSet(s), NEW visible \in BOOLEAN,
         \A u \in ToSet(s) : k.mem[u].focused <=> u = k.head
  PROVE  Pushed(k, s, w, push(k, w, visible), <<w>> \o s)
<1>. DEFINE h == k.head
            f1 == set_focused(k, h, FALSE)
            k1 == set_prev(f1, h, w)
            r == <<w>> \o s
            new == [open |-> TRUE, next |-> h, prev |-> NULL, focused |-> TRUE, visible |-> visible]
            k2 == push(k, w, visible)
            L == Len(s)
<1>1. /\ L \in Nat /\ \A j \in 1 .. L : s[j] \in WND /\ s[j] # NULL
      /\ \A j, m \in 1 .. L : s[j] = s[m] => j = m
      /\ \A x : x \in ToSet(s) <=> \E i \in 1 .. L : s[i] = x
      /\ s = <<>> <=> L = 0
  BY ChainMembers
<1>2. s \in Seq(WND) /\ IsInjective(s)
      /\ \A j \in 1 .. L : /\ k.mem[s[j]].next = IF j = L THEN NULL ELSE s[j + 1]
                           /\ k.mem[s[j]].prev = IF j = 1 THEN NULL ELSE s[j - 1]
  BY DEF Chain
<1>3. h \in Pointers /\ h = (IF L = 0 THEN NULL ELSE s[1]) /\ w # h
  <2>1. h = (IF L = 0 THEN NULL ELSE s[1])
    BY <1>1 DEF First
  <2>2. L # 0 => 1 \in 1 .. L
    BY <1>1
  <2>. QED  BY <1>1, <2>1, <2>2, WindowAssumption DEF Pointers
<1>. HIDE DEF h
<1>4. FocusedIs(k, h, FALSE, f1)
  <2>1. FALSE \in BOOLEAN
    OBVIOUS
  <2>. QED  BY <1>3, <2>1, SetFocused
<1>. HIDE DEF f1
<1>5. PrevIs(f1, h, w, k1)
  <2>1. f1 \in Wnds /\ w \in Pointers
    BY <1>4 DEF FocusedIs, Pointers
  <2>. QED  BY <1>3, <2>1, SetPrev
<1>. HIDE DEF k1
<1>6. k2 = [head |-> w, mem |-> [k1.mem EXCEPT ![w] = new]]
  BY DEF push, k1, f1, h
<1>. HIDE DEF k2
<1>7. new \in [open : BOOLEAN, next : Pointers, prev : Pointers, focused : BOOLEAN, visible : BOOLEAN]
      /\ new.open = TRUE /\ new.next = h /\ new.prev = NULL /\ new.focused = TRUE
  BY <1>3 DEF Pointers
<1>. HIDE DEF new
<1>8. /\ k2 \in Wnds /\ k2.head = w
      /\ k2.mem[w] = new /\ \A u \in WND : u # w => k2.mem[u] = k1.mem[u]
  <2>1. k1 \in Wnds
    BY <1>5 DEF PrevIs
  <2>. QED  BY <1>6, <1>7, <2>1 DEF Wnds, Pointers
<1>9. ASSUME NEW u \in WND, u # w
      PROVE  /\ k2.mem[u].focused = IF u = h THEN FALSE ELSE k.mem[u].focused
             /\ k2.mem[u].open = k.mem[u].open
             /\ k2.mem[u].next = k.mem[u].next
             /\ k2.mem[u].prev = IF u = h THEN w ELSE k.mem[u].prev
  <2>1. /\ f1.mem[u].focused = (IF u = h THEN FALSE ELSE k.mem[u].focused)
        /\ f1.mem[u].open = k.mem[u].open
        /\ f1.mem[u].next = k.mem[u].next /\ f1.mem[u].prev = k.mem[u].prev
    BY <1>4 DEF FocusedIs
  <2>2. /\ k1.mem[u].focused = f1.mem[u].focused /\ k1.mem[u].open = f1.mem[u].open
        /\ k1.mem[u].next = f1.mem[u].next
        /\ k1.mem[u].prev = (IF u = h THEN w ELSE f1.mem[u].prev)
    BY <1>5 DEF PrevIs
  <2>3. k2.mem[u] = k1.mem[u]
    BY <1>8, <1>9
  <2>. QED  BY <2>1, <2>2, <2>3, Zenon
<1>10. /\ r \in Seq(WND) /\ r # <<>> /\ ToSet(r) = ToSet(s) \cup {w} /\ IsInjective(r)
       /\ Len(r) = L + 1 /\ r[1] = w /\ \A i \in 1 .. L : r[i + 1] = s[i]
  <2>1. /\ r \in Seq(WND) /\ r # <<>> /\ ToSet(r) = ToSet(s) \cup {w} /\ IsInjective(r)
    BY <1>2, QueInsertTopProperties DEF QueInsertTop
  <2>2. <<w>> \in Seq(WND) /\ Len(<<w>>) = 1 /\ <<w>>[1] = w
    OBVIOUS
  <2>3. Len(r) = 1 + L /\ \A i \in 1 .. 1 + L : r[i] = IF i <= 1 THEN <<w>>[i] ELSE s[i - 1]
    BY <1>2, <2>2, ConcatProperties
  <2>4. \A i \in 1 .. L : i + 1 \in 1 .. 1 + L /\ ~(i + 1 <= 1) /\ (i + 1) - 1 = i
    BY <1>1
  <2>5. 1 \in 1 .. 1 + L
    BY <1>1
  <2>6. \A i \in 1 .. L : r[i + 1] = s[i]
    BY <2>3, <2>4
  <2>7. r[1] = w
    BY <2>2, <2>3, <2>5
  <2>. QED  BY <1>1, <2>1, <2>3, <2>6, <2>7
<1>. HIDE DEF r
<1>11. ASSUME NEW i \in 1 .. L + 1
       PROVE  /\ k2.mem[r[i]].next = IF i = L + 1 THEN NULL ELSE r[i + 1]
              /\ k2.mem[r[i]].prev = IF i = 1 THEN NULL ELSE r[i - 1]
  <2>1. CASE i = 1
    <3>1. L # 0 => r[2] = s[1]
      <4>1. L # 0 => 1 \in 1 .. L /\ 1 + 1 = 2
        BY <1>1
      <4>. QED  BY <1>10, <4>1
    <3>2. (i = L + 1 <=> L = 0) /\ i + 1 = 2
      BY <1>1, <2>1
    <3>. QED  BY <1>3, <1>7, <1>8, <1>10, <2>1, <3>1, <3>2
  <2>2. CASE i # 1
    <3>. DEFINE j == i - 1
    <3>1. /\ j \in 1 .. L /\ i = j + 1 /\ (i = L + 1 <=> j = L) /\ L # 0
          /\ (j # L => j + 1 \in 1 .. L) /\ (j # 1 => j - 1 \in 1 .. L /\ (j - 1) + 1 = j) /\ 1 \in 1 .. L
      BY <1>1, <2>2
    <3>. HIDE DEF j
    <3>2. r[i] = s[j] /\ s[j] \in WND /\ s[j] # w
      BY <1>1, <1>10, <3>1
    <3>3. j # L => r[i + 1] = s[j + 1]
      BY <1>10, <3>1
    <3>4. r[i - 1] = IF j = 1 THEN w ELSE s[j - 1]
      <4>1. i - 1 = j
        BY <3>1
      <4>2. j # 1 => r[j] = s[j - 1]
        BY <1>10, <3>1
      <4>. QED  BY <1>10, <4>1, <4>2
    <3>5. s[j] = h <=> j = 1
      BY <1>1, <1>3, <3>1
    <3>6. k2.mem[s[j]].next = (IF j = L THEN NULL ELSE s[j + 1])
          /\ k2.mem[s[j]].prev = (IF j = 1 THEN w ELSE s[j - 1])
      <4>. DEFINE u == s[j]
      <4>1. u \in WND /\ u # w
        BY <3>2
      <4>2. /\ k.mem[u].next = (IF j = L THEN NULL ELSE s[j + 1])
            /\ k.mem[u].prev = (IF j = 1 THEN NULL ELSE s[j - 1])
        BY <1>2, <3>1
      <4>3. u = h <=> j = 1
        BY <3>5
      <4>. HIDE DEF u
      <4>4. k2.mem[u].next = k.mem[u].next /\ k2.mem[u].prev = (IF u = h THEN w ELSE k.mem[u].prev)
        BY <1>9, <4>1
      <4>5. k2.mem[u].next = (IF j = L THEN NULL ELSE s[j + 1])
            /\ k2.mem[u].prev = (IF j = 1 THEN w ELSE s[j - 1])
        BY <4>2, <4>3, <4>4
      <4>. QED  BY <4>5 DEF u
    <3>. QED  BY <2>2, <3>1, <3>2, <3>3, <3>4, <3>6
  <2>. QED  BY <2>1, <2>2
<1>12. Chain(k2.mem, r)
  BY <1>10, <1>11 DEF Chain
<1>13. k2.head = First(r)
  BY <1>8, <1>10 DEF First
<1>14. open(k2) = open(k) \cup {w}
  <2>1. k2.mem[w].open
    BY <1>7, <1>8
  <2>2. \A u \in WND : u # w => (k2.mem[u].open <=> k.mem[u].open)
    BY <1>9
  <2>. QED  BY <2>1, <2>2 DEF open
<1>15. ASSUME NEW u \in ToSet(r)  PROVE k2.mem[u].focused <=> u = w
  <2>1. CASE u = w
    BY <1>7, <1>8, <2>1
  <2>2. CASE u # w
    <3>1. u \in ToSet(s) /\ u \in WND
      BY <1>1, <1>10, <2>2
    <3>2. k.mem[u].focused <=> u = h
      BY <3>1 DEF h
    <3>. QED  BY <1>9, <2>2, <3>1, <3>2
  <2>. QED  BY <2>1, <2>2
<1>. QED  BY <1>8, <1>10, <1>12, <1>13, <1>14, <1>15 DEF k2, r, Pushed

\* Opening a window.
LEMMA OpnStacked ==
  ASSUME NEW k, Stacked(k), NEW w \in WND \ open(k)
  PROVE  Stacked(opn_wnd(k, w))
<1>1. PICK s : Stack(k, s)
  BY DEF Stacked
<1>2. /\ k \in Wnds /\ Chain(k.mem, s) /\ k.head = First(s) /\ w \notin ToSet(s)
      /\ \A u \in ToSet(s) : k.mem[u].focused <=> u = k.head
      /\ open(k) = ToSet(s)
  BY <1>1 DEF Stack
<1>. DEFINE f == push(k, w, TRUE)
            r == <<w>> \o s
<1>3. Pushed(k, s, w, f, r)
  <2>1. TRUE \in BOOLEAN
    OBVIOUS
  <2>. QED  BY <1>2, <2>1, PushStack
<1>. HIDE DEF f, r
<1>4. Stack(f, r)
  BY <1>2, <1>3 DEF Stack, Pushed
<1>. QED  BY <1>4 DEF Stacked, opn_wnd, f

\* f is k without w in the list, and r are the windows that are left of s.
Unlinked(k, s, w, f, r) ==
    /\ f \in Wnds /\ f.head = k.head /\ SameWindows(k, f)
    /\ Chain(f.mem, r) /\ ToSet(r) = ToSet(s) \ {w}
    /\ First(r) = IF First(s) = w THEN k.mem[w].next ELSE First(s)

\* unlink takes a window out, wherever it is.
LEMMA UnlinkStack ==
  ASSUME NEW k \in Wnds, NEW s, Chain(k.mem, s), NEW w \in ToSet(s)
  PROVE  Unlinked(k, s, w, unlink(k, w), QueRemove(s, w))
<1>. DEFINE L == Len(s)
            r == QueRemove(s, w)
            i == PositionOf(s, w)
<1>1. /\ L \in Nat /\ \A j \in 1 .. L : s[j] \in WND /\ s[j] # NULL
      /\ \A j, m \in 1 .. L : s[j] = s[m] => j = m
      /\ \A x : x \in ToSet(s) <=> \E j \in 1 .. L : s[j] = x
      /\ s = <<>> <=> L = 0
  BY ChainMembers
<1>2. s \in Seq(WND) /\ IsInjective(s)
  BY DEF Chain
<1>3. i \in 1 .. L /\ s[i] = w
  <2>1. \E j \in 1 .. L : s[j] = w
    BY <1>1
  <2>. QED  BY <2>1 DEF PositionOf
<1>4. r = RemoveAt(s, i)
  BY <1>3 DEF QueRemove
<1>5. ToSet(r) = ToSet(s) \ {w} /\ r \in Seq(WND)
  BY <1>2, QueRemoveProperties
<1>6. /\ unlink(k, w) \in Wnds /\ unlink(k, w).head = k.head
      /\ SameWindows(k, unlink(k, w)) /\ Chain(unlink(k, w).mem, r)
  <2>. HIDE DEF i
  <2>. QED  BY <1>3, <1>4, UnlinkChain
<1>7. /\ Len(r) = L - 1
      /\ \A j \in 1 .. L - 1 : r[j] = IF j < i THEN s[j] ELSE s[j + 1]
  <2>. HIDE DEF i
  <2>. QED  BY <1>2, <1>3, <1>4, RemoveAtProperties
<1>8. r = <<>> <=> L - 1 = 0
  BY <1>5, <1>7, EmptySeq
<1>. HIDE DEF r, i
<1>9. First(r) = IF First(s) = w THEN k.mem[w].next ELSE First(s)
  <2>1. CASE i = 1
    <3>1. First(s) = w
      BY <1>1, <1>3, <2>1 DEF First
    <3>2. k.mem[w].next = IF L = 1 THEN NULL ELSE s[2]
      <4>1. k.mem[s[i]].next = IF i = L THEN NULL ELSE s[i + 1]
        BY <1>3 DEF Chain
      <4>. QED  BY <1>3, <2>1, <4>1
    <3>3. ~(1 < i) /\ (L # 1 => 1 \in 1 .. L - 1)
      <4>1. L \in Nat /\ 1 \in 1 .. L
        BY <1>1, <1>3, <2>1
      <4>2. L # 1 => 1 \in 1 .. L - 1
        BY <4>1
      <4>. QED  BY <2>1, <4>2
    <3>4. First(r) = IF L = 1 THEN NULL ELSE s[2]
      BY <1>1, <1>7, <1>8, <3>3 DEF First
    <3>. QED  BY <3>1, <3>2, <3>4
  <2>2. CASE i # 1
    <3>1. 1 \in 1 .. L /\ 1 \in 1 .. L - 1 /\ 1 < i /\ L # 0 /\ L - 1 # 0
      BY <1>1, <1>3, <2>2
    <3>2. First(s) = s[1] /\ s[1] # w
      BY <1>1, <1>3, <2>2, <3>1 DEF First
    <3>3. First(r) = s[1]
      BY <1>7, <1>8, <3>1 DEF First
    <3>. QED  BY <3>2, <3>3
  <2>. QED  BY <2>1, <2>2
<1>. QED  BY <1>5, <1>6, <1>9 DEF Unlinked, r

\* Raising a window.
LEMMA TopStacked ==
  ASSUME NEW k, Stacked(k), NEW w \in WND
  PROVE  Stacked(top_wnd(k, w)) /\ open(top_wnd(k, w)) = open(k)
<1>1. PICK s : Stack(k, s)
  BY DEF Stacked
<1>2. CASE k.head = w \/ w \notin open(k)
  BY <1>2 DEF top_wnd
<1>3. CASE k.head # w /\ w \in open(k)
  <2>. DEFINE k1 == unlink(k, w)
              r == QueRemove(s, w)
              v == k.mem[w].visible
              f == push(k1, w, v)
              t == <<w>> \o r
  <2>1. /\ k \in Wnds /\ Chain(k.mem, s) /\ k.head = First(s) /\ w \in ToSet(s)
        /\ \A u \in ToSet(s) : k.mem[u].focused <=> u = k.head
        /\ open(k) = ToSet(s)
    BY <1>1, <1>3 DEF Stack
  <2>2. Unlinked(k, s, w, k1, r)
    BY <2>1, UnlinkStack
  <2>3. top_wnd(k, w) = f
    BY <1>3 DEF top_wnd
  <2>4. v \in BOOLEAN
    BY <2>1 DEF Wnds
  <2>. HIDE DEF k1, r, v
  <2>5. ToSet(r) \subseteq WND
    <3>1. Chain(k1.mem, r)
      BY <2>2 DEF Unlinked
    <3>. QED  BY <3>1, ChainMembers
  <2>6. /\ k1 \in Wnds /\ Chain(k1.mem, r) /\ k1.head = First(r) /\ w \notin ToSet(r)
    BY <1>3, <2>1, <2>2 DEF Unlinked
  <2>7. \A u \in ToSet(r) : k1.mem[u].focused <=> u = k1.head
    BY <2>1, <2>2, <2>5 DEF Unlinked, SameWindows
  <2>8. Pushed(k1, r, w, f, t)
    BY <2>4, <2>6, <2>7, PushStack
  <2>. HIDE DEF f, t
  <2>9. open(k1) = open(k)
    BY <2>2 DEF Unlinked, SameWindows, open
  <2>10. open(f) = open(k) /\ ToSet(t) = open(k)
    BY <2>1, <2>2, <2>8, <2>9 DEF Pushed, Unlinked
  <2>11. Stack(f, t)
    BY <2>8, <2>10 DEF Stack, Pushed
  <2>. QED  BY <2>3, <2>10, <2>11 DEF Stacked
<1>. QED  BY <1>2, <1>3

\* The chain depends on nothing but the pointers of its members.
LEMMA ChainSame ==
  ASSUME NEW mem, NEW f, NEW s, Chain(mem, s),
         \A u \in ToSet(s) : f[u].next = mem[u].next /\ f[u].prev = mem[u].prev
  PROVE  Chain(f, s)
<1>1. \A i \in 1 .. Len(s) : s[i] \in ToSet(s)
  BY ChainMembers
<1>. QED  BY <1>1 DEF Chain

\* Closing a window: the one behind it gets the focus if it had it.
LEMMA ClsStacked ==
  ASSUME NEW k, Stacked(k), NEW w \in open(k)
  PROVE  Stacked(cls_wnd(k, w))
<1>1. PICK s : Stack(k, s)
  BY DEF Stacked
<1>. DEFINE k1 == unlink(k, w)
            r == QueRemove(s, w)
            h == IF k1.head = w THEN k.mem[w].next ELSE k1.head
            k2 == set_focused(k1, h, TRUE)
            f == [head |-> h, mem |-> [k2.mem EXCEPT ![w] = Free]]
<1>2. /\ k \in Wnds /\ Chain(k.mem, s) /\ k.head = First(s) /\ w \in ToSet(s) /\ w \in WND
      /\ \A u \in ToSet(s) : k.mem[u].focused <=> u = k.head
      /\ open(k) = ToSet(s)
  BY <1>1 DEF Stack, open
<1>3. cls_wnd(k, w) = f
  BY DEF cls_wnd
<1>4. Unlinked(k, s, w, k1, r)
  BY <1>2, UnlinkStack
<1>. HIDE DEF k1, r
<1>5. h = First(r) /\ h \in Pointers
  <2>1. h = First(r)
    BY <1>2, <1>4 DEF Unlinked
  <2>2. k1.head \in Pointers /\ k.mem[w].next \in Pointers
    BY <1>2, <1>4 DEF Unlinked, Wnds
  <2>. QED  BY <2>1, <2>2
<1>. HIDE DEF h
<1>6. FocusedIs(k1, h, TRUE, k2)
  <2>1. TRUE \in BOOLEAN /\ k1 \in Wnds
    BY <1>4 DEF Unlinked
  <2>. QED  BY <1>5, <2>1, SetFocused
<1>. HIDE DEF k2
<1>7. f \in Wnds
  <2>1. Free \in [open : BOOLEAN, next : Pointers, prev : Pointers, focused : BOOLEAN, visible : BOOLEAN]
    BY DEF Free, Pointers
  <2>2. k2 \in Wnds
    BY <1>6 DEF FocusedIs
  <2>. QED  BY <1>5, <2>1, <2>2 DEF Wnds
<1>8. f.head = h /\ f.mem[w] = Free /\ \A u \in WND : u # w => f.mem[u] = k2.mem[u]
  <2>1. k2 \in Wnds
    BY <1>6 DEF FocusedIs
  <2>. QED  BY <1>2, <2>1 DEF Wnds
<1>. HIDE DEF f
<1>9. Chain(k1.mem, r) /\ ToSet(r) = ToSet(s) \ {w} /\ ToSet(r) \subseteq WND
  <2>1. Chain(k1.mem, r) /\ ToSet(r) = ToSet(s) \ {w}
    BY <1>4 DEF Unlinked
  <2>. QED  BY <2>1, ChainMembers
<1>10. Chain(f.mem, r)
  <2>1. ASSUME NEW u \in ToSet(r)
        PROVE  f.mem[u].next = k1.mem[u].next /\ f.mem[u].prev = k1.mem[u].prev
    <3>1. u \in WND /\ f.mem[u] = k2.mem[u]
      BY <1>8, <1>9
    <3>2. k2.mem[u].next = k1.mem[u].next /\ k2.mem[u].prev = k1.mem[u].prev
      BY <1>6, <3>1 DEF FocusedIs
    <3>. QED  BY <3>1, <3>2
  <2>. QED  BY <1>9, <2>1, ChainSame
<1>11. open(f) = ToSet(r)
  <2>1. ~f.mem[w].open
    BY <1>8 DEF Free
  <2>2. ASSUME NEW u \in WND, u # w  PROVE f.mem[u].open = k.mem[u].open
    <3>1. f.mem[u] = k2.mem[u]
      BY <1>8, <2>2
    <3>2. k2.mem[u].open = k1.mem[u].open
      BY <1>6 DEF FocusedIs
    <3>3. k1.mem[u].open = k.mem[u].open
      BY <1>4 DEF Unlinked, SameWindows
    <3>. QED  BY <3>1, <3>2, <3>3
  <2>3. open(f) = open(k) \ {w}
    BY <2>1, <2>2 DEF open
  <2>. QED  BY <1>2, <1>9, <2>3
<1>12. ASSUME NEW u \in ToSet(r)  PROVE f.mem[u].focused <=> u = f.head
  <2>1. u \in WND /\ u # w /\ u \in ToSet(s) /\ f.mem[u] = k2.mem[u]
    BY <1>8, <1>9
  <2>2. k2.mem[u].focused = IF u = h THEN TRUE ELSE k1.mem[u].focused
    BY <1>6, <2>1 DEF FocusedIs
  <2>3. k1.mem[u].focused = k.mem[u].focused
    BY <1>4, <2>1 DEF Unlinked, SameWindows
  <2>4. k.mem[u].focused <=> u = k.head
    BY <1>2, <2>1
  <2>5. u = k.head => u = h
    BY <1>2, <1>4, <1>5, <2>1 DEF Unlinked
  <2>. QED  BY <1>8, <2>1, <2>2, <2>3, <2>4, <2>5
<1>13. Stack(f, r)
  BY <1>5, <1>7, <1>8, <1>10, <1>11, <1>12 DEF Stack
<1>. QED  BY <1>3, <1>13 DEF Stacked

\* A window is shown or hidden.
LEMMA VisibleStacked ==
  ASSUME NEW k, Stacked(k), NEW f, f \in Wnds, f.head = k.head,
         \A u \in WND : /\ f.mem[u].open = k.mem[u].open /\ f.mem[u].focused = k.mem[u].focused
                        /\ f.mem[u].next = k.mem[u].next /\ f.mem[u].prev = k.mem[u].prev
  PROVE  Stacked(f) /\ open(f) = open(k)
<1>1. PICK s : Stack(k, s)
  BY DEF Stacked
<1>2. Chain(k.mem, s) /\ ToSet(s) \subseteq WND
  BY <1>1, ChainMembers DEF Stack
<1>3. Chain(f.mem, s)
  <2>1. \A u \in ToSet(s) : f.mem[u].next = k.mem[u].next /\ f.mem[u].prev = k.mem[u].prev
    BY <1>2
  <2>. QED  BY <1>2, <2>1, ChainSame
<1>4. open(f) = open(k)
  BY DEF open
<1>5. Stack(f, s)
  BY <1>1, <1>3, <1>4 DEF Stack, open
<1>. QED  BY <1>4, <1>5 DEF Stacked

\* The handler of a window.
LEMMA HandlerStacked ==
  ASSUME NEW k, Stacked(k), NEW w \in open(k), NEW f \in handler(k, w)
  PROVE  Stacked(f)
<1>1. CASE f = k
  BY <1>1
<1>2. CASE f = cls_wnd(k, w)
  BY <1>2, ClsStacked
<1>3. CASE \E n \in WND \ open(k) : f = opn_wnd(k, n)
  BY <1>3, OpnStacked
<1>. QED  BY <1>1, <1>2, <1>3 DEF handler

\* The window in front is open.
LEMMA HeadOpen ==
  ASSUME NEW k, Stacked(k), k.head # NULL
  PROVE  k.head \in open(k)
<1>1. PICK s : Stack(k, s)
  BY DEF Stacked
<1>2. Chain(k.mem, s) /\ k.head = First(s) /\ open(k) = ToSet(s)
  BY <1>1 DEF Stack
<1>3. s # <<>> /\ k.head = s[1]
  BY <1>2 DEF First
<1>4. 1 \in 1 .. Len(s)
  BY <1>2, <1>3, ChainMembers
<1>. QED  BY <1>2, <1>3, <1>4, ChainMembers

\* An event for the top window.
LEMMA ToTopStacked ==
  ASSUME NEW k, Stacked(k), NEW f \in to_top(k)
  PROVE  Stacked(f)
BY HandlerStacked, HeadOpen DEF to_top

\* The menu.
LEMMA MenuStacked ==
  ASSUME Stacked(wnd), Menu
  PROVE  Stacked(wnd')
<1>0. wnd \in Wnds
  BY DEF Stacked, Stack
<1>1. CASE OpnWnd
  BY <1>1, OpnStacked DEF OpnWnd
<1>2. CASE SelectWnd
  <2>1. PICK w \in open(wnd) : wnd' = top_wnd(wnd, w)
    BY <1>2 DEF SelectWnd
  <2>2. w \in WND
    BY DEF open
  <2>. QED  BY <2>1, <2>2, TopStacked
<1>3. CASE HideAll
  <2>1. wnd' = [wnd EXCEPT !.mem = [w \in WND |-> [wnd.mem[w] EXCEPT !.visible = FALSE]]]
    BY <1>3 DEF HideAll
  <2>. DEFINE m == [w \in WND |-> [wnd.mem[w] EXCEPT !.visible = FALSE]]
  <2>2. ASSUME NEW u \in WND
        PROVE  /\ m[u] \in [open : BOOLEAN, next : Pointers, prev : Pointers,
                            focused : BOOLEAN, visible : BOOLEAN]
               /\ m[u].open = wnd.mem[u].open /\ m[u].focused = wnd.mem[u].focused
               /\ m[u].next = wnd.mem[u].next /\ m[u].prev = wnd.mem[u].prev
    BY <1>0 DEF Wnds
  <2>3. m \in [WND -> [open : BOOLEAN, next : Pointers, prev : Pointers,
                       focused : BOOLEAN, visible : BOOLEAN]]
    BY <2>2
  <2>4. wnd' = [wnd EXCEPT !.mem = m]
    BY <2>1
  <2>. HIDE DEF m
  <2>5. wnd' \in Wnds /\ wnd'.head = wnd.head /\ wnd'.mem = m
    BY <1>0, <2>3, <2>4 DEF Wnds
  <2>. QED  BY <2>2, <2>5, VisibleStacked
<1>4. CASE CycleFocus
  <2>1. PICK w \in open(wnd) : wnd' = top_wnd([wnd EXCEPT !.mem[w].visible = TRUE], w)
    BY <1>4 DEF CycleFocus
  <2>2. w \in WND
    BY DEF open
  <2>. DEFINE f == [wnd EXCEPT !.mem[w].visible = TRUE]
  <2>3. /\ f \in Wnds /\ f.head = wnd.head
        /\ \A u \in WND : /\ f.mem[u].open = wnd.mem[u].open /\ f.mem[u].focused = wnd.mem[u].focused
                          /\ f.mem[u].next = wnd.mem[u].next /\ f.mem[u].prev = wnd.mem[u].prev
    BY <1>0, <2>2 DEF Wnds
  <2>. HIDE DEF f
  <2>4. Stacked(f)
    BY <2>3, VisibleStacked
  <2>. QED  BY <2>1, <2>2, <2>4, TopStacked DEF f
<1>. QED  BY <1>1, <1>2, <1>3, <1>4 DEF Menu

\* The gestures are about windows.
GestureTypes == {drag, slide, resize} \subseteq WND \cup {NULL}

\* Every event leaves an exact stack.
LEMMA ProcessStacked ==
  ASSUME Stacked(wnd), GestureTypes, Process
  PROVE  Stacked(wnd') /\ GestureTypes'
<1>. DEFINE Same == UNCHANGED gestures
<1>1. CASE Menu
  <2>1. Stacked(wnd')
    BY <1>1, MenuStacked
  <2>2. UNCHANGED gestures
    BY <1>1 DEF Menu, OpnWnd, SelectWnd, HideAll, CycleFocus
  <2>. QED  BY <2>1, <2>2 DEF GestureTypes, gestures
<1>2. CASE ButDownMiss
  BY <1>2 DEF ButDownMiss, GestureTypes, gestures
<1>3. ASSUME NEW w \in WND, ButDown(w)  PROVE Stacked(wnd') /\ GestureTypes'
  <2>. DEFINE k == top_wnd(wnd, w)
  <2>1. Stacked(k) /\ w \in open(k)
    BY <1>3, TopStacked DEF ButDown
  <2>. HIDE DEF k
  <2>2. wnd' = k \/ wnd' = cls_wnd(k, w) \/ wnd' \in handler(k, w)
    BY <1>3 DEF ButDown, k
  <2>3. Stacked(wnd')
    BY <2>1, <2>2, ClsStacked, HandlerStacked
  <2>4. GestureTypes'
    BY <1>3 DEF ButDown, GestureTypes, gestures
  <2>. QED  BY <2>3, <2>4
<1>4. CASE ButUp
  <2>1. GestureTypes'
    BY <1>4 DEF ButUp, end_gestures, GestureTypes
  <2>. QED  BY <1>4, <2>1, ToTopStacked DEF ButUp
<1>5. CASE MouseMove
  <2>1. GestureTypes'
    BY <1>5 DEF MouseMove, GestureTypes, gestures
  <2>. QED  BY <1>5, <2>1, ToTopStacked DEF MouseMove
<1>6. CASE KeyDown
  <2>1. GestureTypes'
    BY <1>6 DEF KeyDown, GestureTypes, gestures
  <2>. QED  BY <1>6, <2>1, ToTopStacked DEF KeyDown
<1>. QED  BY <1>1, <1>2, <1>3, <1>4, <1>5, <1>6 DEF Process

\* A sequence without repetitions has as many members as it is long.
LEMMA ChainLength ==
  ASSUME NEW mem, NEW s, Chain(mem, s)
  PROVE  Cardinality(ToSet(s)) = Len(s) /\ Len(s) <= Cardinality(WND) /\ Cardinality(WND) \in Nat
<1>1. /\ Len(s) \in Nat /\ \A i \in 1 .. Len(s) : s[i] \in WND
      /\ \A i, j \in 1 .. Len(s) : s[i] = s[j] => i = j
      /\ \A w : w \in ToSet(s) <=> \E i \in 1 .. Len(s) : s[i] = w
  BY ChainMembers
<1>2. s \in [1 .. Len(s) -> WND]
  BY LenProperties DEF Chain
<1>3. s \in Surjection(1 .. Len(s), ToSet(s)) /\ s \in Injection(1 .. Len(s), ToSet(s))
  <2>1. s \in [1 .. Len(s) -> ToSet(s)]
    BY <1>1, <1>2
  <2>. QED  BY <1>1, <2>1 DEF Surjection, Injection, IsInjective
<1>4. IsFiniteSet(1 .. Len(s)) /\ Cardinality(1 .. Len(s)) = Len(s)
  <2>1. 1 \in Int /\ Len(s) \in Int
    BY <1>1
  <2>2. /\ IsFiniteSet(1 .. Len(s))
        /\ Cardinality(1 .. Len(s)) = IF 1 > Len(s) THEN 0 ELSE Len(s) - 1 + 1
    BY <2>1, FS_Interval, Zenon
  <2>3. (IF 1 > Len(s) THEN 0 ELSE Len(s) - 1 + 1) = Len(s)
    BY <1>1
  <2>. QED  BY <2>2, <2>3
<1>5. Cardinality(ToSet(s)) = Len(s)
  BY <1>3, <1>4, FS_Surjection
<1>6. ToSet(s) \in SUBSET WND
  BY <1>1
<1>. QED  BY <1>5, <1>6, WindowAssumption, FS_Subset, FS_CardinalityType

\* Following next from the head.
Walk(g) ==
    g = [n \in 0 .. Cardinality(WND) |->
            IF n = 0 THEN wnd.head ELSE IF g[n - 1] = NULL THEN NULL ELSE wnd.mem[g[n - 1]].next]

\* A walk along the stack meets its windows in turn.
LEMMA WalkExists ==
  ASSUME NEW s, Stack(wnd, s)
  PROVE  /\ \E g : Walk(g)
         /\ \A g : Walk(g) => \A n \in 0 .. Cardinality(WND) :
                                 g[n] = IF n < Len(s) THEN s[n + 1] ELSE NULL
<1>. DEFINE N == Cardinality(WND)
            L == Len(s)
            h == [n \in 0 .. N |-> IF n < L THEN s[n + 1] ELSE NULL]
<1>1. Chain(wnd.mem, s) /\ wnd.head = First(s)
  BY DEF Stack
<1>2. /\ L \in Nat /\ \A i \in 1 .. L : s[i] # NULL
      /\ s = <<>> <=> L = 0
  BY <1>1, ChainMembers
<1>3. N \in Nat
  BY <1>1, ChainLength
<1>4. \A i \in 1 .. L : wnd.mem[s[i]].next = IF i = L THEN NULL ELSE s[i + 1]
  BY <1>1 DEF Chain
<1>. HIDE DEF N, L
<1>5. wnd.head = IF 0 < L THEN s[0 + 1] ELSE NULL
  <2>1. 0 + 1 = 1 /\ (0 < L <=> L # 0)
    BY <1>2
  <2>. QED  BY <1>1, <1>2, <2>1 DEF First
\* One step of the walk.
<1>6. ASSUME NEW n \in 1 .. N, NEW v, v = IF n - 1 < L THEN s[(n - 1) + 1] ELSE NULL
      PROVE  (IF v = NULL THEN NULL ELSE wnd.mem[v].next) = IF n < L THEN s[n + 1] ELSE NULL
  <2>1. CASE n - 1 < L
    <3>1. n \in 1 .. L /\ (n - 1) + 1 = n /\ (n < L <=> n # L)
      BY <1>2, <1>3, <2>1
    <3>2. v = s[n] /\ v # NULL
      BY <1>2, <1>6, <2>1, <3>1
    <3>. QED  BY <1>4, <3>1, <3>2
  <2>2. CASE ~(n - 1 < L)
    <3>1. ~(n < L)
      BY <1>2, <1>3, <2>2
    <3>. QED  BY <1>6, <2>2, <3>1
  <2>. QED  BY <2>1, <2>2
<1>7. Walk(h)
  <2>. DEFINE w == [n \in 0 .. N |-> IF n = 0 THEN wnd.head
                                     ELSE IF h[n - 1] = NULL THEN NULL ELSE wnd.mem[h[n - 1]].next]
  <2>1. ASSUME NEW n \in 0 .. N  PROVE h[n] = w[n]
    <3>1. CASE n = 0
      BY <1>5, <3>1
    <3>2. CASE n # 0
      <4>1. n \in 1 .. N /\ n - 1 \in 0 .. N
        BY <1>3, <3>2
      <4>2. h[n - 1] = IF n - 1 < L THEN s[(n - 1) + 1] ELSE NULL
        BY <4>1
      <4>3. h[n] = IF n < L THEN s[n + 1] ELSE NULL
        OBVIOUS
      <4>4. w[n] = IF h[n - 1] = NULL THEN NULL ELSE wnd.mem[h[n - 1]].next
        BY <3>2
      <4>. HIDE DEF h, w
      <4>. QED  BY <1>6, <4>1, <4>2, <4>3, <4>4
    <3>. QED  BY <3>1, <3>2
  <2>2. h = w
    BY <2>1
  <2>. QED  BY <2>2 DEF Walk, N
<1>8. ASSUME NEW g, Walk(g), NEW n \in 0 .. N
      PROVE  g[n] = IF n < L THEN s[n + 1] ELSE NULL
  <2>1. g = [i \in 0 .. N |-> IF i = 0 THEN wnd.head
                              ELSE IF g[i - 1] = NULL THEN NULL ELSE wnd.mem[g[i - 1]].next]
    BY <1>8 DEF Walk, N
  <2>2. g[0] = wnd.head
    <3>1. 0 \in 0 .. N
      BY <1>3
    <3>. QED  BY <2>1, <3>1
  <2>3. ASSUME NEW i \in 1 .. N
        PROVE  g[i] = IF g[i - 1] = NULL THEN NULL ELSE wnd.mem[g[i - 1]].next
    <3>1. i \in 0 .. N /\ i # 0
      BY <1>3
    <3>. QED  BY <2>1, <3>1
  <2>. DEFINE P == {i \in Nat : i <= N => g[i] = IF i < L THEN s[i + 1] ELSE NULL}
  <2>4. 0 \in P
    BY <1>5, <2>2
  <2>5. ASSUME NEW i \in Nat, i \in P  PROVE i + 1 \in P
    <3>. SUFFICES ASSUME i + 1 <= N
                  PROVE  g[i + 1] = IF i + 1 < L THEN s[(i + 1) + 1] ELSE NULL
      OBVIOUS
    <3>1. i + 1 \in 1 .. N /\ (i + 1) - 1 = i /\ i <= N
      BY <1>3
    <3>2. g[(i + 1) - 1] = IF (i + 1) - 1 < L THEN s[((i + 1) - 1) + 1] ELSE NULL
      BY <2>5, <3>1
    <3>. QED  BY <1>6, <2>3, <3>1, <3>2
  <2>. HIDE DEF P
  <2>6. Nat \subseteq P
    BY <2>4, <2>5, SetInduction
  <2>7. n \in Nat /\ n <= N
    BY <1>3
  <2>. QED  BY <2>6, <2>7 DEF P
<1>. QED  BY <1>7, <1>8 DEF N, L

\* The walk that ZStackExact follows.
LEMMA StackExact ==
  ASSUME Stacked(wnd)
  PROVE  WindowsExact
<1>1. PICK s : Stack(wnd, s)
  BY DEF Stacked
<1>. DEFINE N == Cardinality(WND)
            L == Len(s)
            walk == CHOOSE walk : walk = [n \in 0 .. N |->
                       IF n = 0 THEN wnd.head
                       ELSE IF walk[n - 1] = NULL THEN NULL ELSE wnd.mem[walk[n - 1]].next]
<1>2. Chain(wnd.mem, s) /\ wnd.head = First(s) /\ open(wnd) = ToSet(s)
      /\ \A w \in open(wnd) : wnd.mem[w].focused <=> w = wnd.head
  BY <1>1 DEF Stack
<1>3. /\ L \in Nat /\ \A i \in 1 .. L : s[i] # NULL
      /\ \A i, j \in 1 .. L : s[i] = s[j] => i = j
      /\ \A w : w \in ToSet(s) <=> \E i \in 1 .. L : s[i] = w
      /\ s = <<>> <=> L = 0
  BY <1>2, ChainMembers
<1>4. Cardinality(open(wnd)) = L /\ L <= N /\ N \in Nat
  BY <1>2, ChainLength
<1>5. \A i \in 1 .. L : /\ wnd.mem[s[i]].next = IF i = L THEN NULL ELSE s[i + 1]
                        /\ wnd.mem[s[i]].prev = IF i = 1 THEN NULL ELSE s[i - 1]
  BY <1>2 DEF Chain
<1>6. Walk(walk)
  <2>1. \E g : Walk(g)
    BY <1>1, WalkExists
  <2>2. \E g : g = [n \in 0 .. N |->
                       IF n = 0 THEN wnd.head
                       ELSE IF g[n - 1] = NULL THEN NULL ELSE wnd.mem[g[n - 1]].next]
    BY <2>1 DEF Walk
  <2>3. walk = [n \in 0 .. N |->
                   IF n = 0 THEN wnd.head
                   ELSE IF walk[n - 1] = NULL THEN NULL ELSE wnd.mem[walk[n - 1]].next]
    BY <2>2, Zenon
  <2>. HIDE DEF walk
  <2>. QED  BY <2>3 DEF Walk
<1>7. ZStackExact <=> /\ {walk[n] : n \in DOMAIN walk} = open(wnd) \cup {NULL}
                      /\ walk[Cardinality(open(wnd))] = NULL
                      /\ \A w \in open(wnd) :
                            /\ wnd.mem[w].prev = NULL <=> w = wnd.head
                            /\ wnd.mem[w].next # NULL => wnd.mem[wnd.mem[w].next].prev = w
  BY Zenon DEF ZStackExact, N
<1>. HIDE DEF walk, L, N
<1>8. DOMAIN walk = 0 .. N
  BY <1>6 DEF Walk, N
<1>9. \A n \in 0 .. N : walk[n] = IF n < L THEN s[n + 1] ELSE NULL
  BY <1>1, <1>6, WalkExists DEF L, N
<1>10. {walk[n] : n \in DOMAIN walk} = open(wnd) \cup {NULL}
  <2>1. ASSUME NEW n \in 0 .. N  PROVE walk[n] \in open(wnd) \cup {NULL}
    <3>1. n < L => n + 1 \in 1 .. L
      BY <1>3, <1>4
    <3>. QED  BY <1>2, <1>3, <1>9, <3>1
  <2>2. ASSUME NEW w \in open(wnd)  PROVE \E n \in 0 .. N : walk[n] = w
    <3>1. PICK i \in 1 .. L : s[i] = w
      BY <1>2, <1>3
    <3>2. i - 1 \in 0 .. N /\ i - 1 < L /\ (i - 1) + 1 = i
      BY <1>3, <1>4
    <3>3. walk[i - 1] = s[(i - 1) + 1]
      BY <1>9, <3>2
    <3>. QED  BY <3>1, <3>2, <3>3
  <2>3. \E n \in 0 .. N : walk[n] = NULL
    <3>1. N \in 0 .. N /\ ~(N < L)
      BY <1>3, <1>4
    <3>. QED  BY <1>9, <3>1
  <2>. QED  BY <1>8, <2>1, <2>2, <2>3
<1>11. walk[Cardinality(open(wnd))] = NULL
  <2>1. L \in 0 .. N /\ ~(L < L)
    BY <1>3, <1>4
  <2>. QED  BY <1>4, <1>9, <2>1
<1>12. ASSUME NEW w \in open(wnd)
       PROVE  /\ wnd.mem[w].prev = NULL <=> w = wnd.head
              /\ wnd.mem[w].next # NULL => wnd.mem[wnd.mem[w].next].prev = w
  <2>1. PICK i \in 1 .. L : s[i] = w
    BY <1>2, <1>3
  <2>2. 1 \in 1 .. L /\ wnd.head = s[1]
    <3>1. L # 0 /\ 1 \in 1 .. L
      BY <1>3
    <3>. QED  BY <1>2, <1>3, <3>1 DEF First
  <2>3. wnd.mem[w].prev = NULL <=> w = wnd.head
    <3>1. i # 1 => i - 1 \in 1 .. L
      BY <1>3
    <3>2. w = wnd.head <=> i = 1
      BY <1>3, <2>1, <2>2
    <3>. QED  BY <1>3, <1>5, <2>1, <3>1, <3>2
  <2>4. wnd.mem[w].next # NULL => wnd.mem[wnd.mem[w].next].prev = w
    <3>. SUFFICES ASSUME wnd.mem[w].next # NULL  PROVE wnd.mem[wnd.mem[w].next].prev = w
      OBVIOUS
    <3>1. i # L /\ wnd.mem[w].next = s[i + 1]
      BY <1>5, <2>1
    <3>2. i + 1 \in 1 .. L /\ i + 1 # 1 /\ (i + 1) - 1 = i
      BY <1>3, <3>1
    <3>3. wnd.mem[s[i + 1]].prev = s[(i + 1) - 1]
      BY <1>5, <3>2
    <3>. QED  BY <2>1, <3>1, <3>2, <3>3
  <2>. QED  BY <2>3, <2>4
<1>. QED  BY <1>2, <1>7, <1>10, <1>11, <1>12 DEF WindowsExact, FocusExact

-----------------------------------------------------------------------------
(* The desktop: its inductive invariant, the properties, the refinement.   *)

DeskInv == RingOK /\ GesturesOK /\ Stacked(wnd) /\ GestureTypes

\* The desktop starts with an empty ring, no window and no gesture.
LEMMA DeskInit ==
  ASSUME Init
  PROVE  DeskInv
<1>1. RingOK /\ Contents = <<>>
  BY RingInit DEF Init
<1>2. pressed = 0 /\ drag = NULL /\ slide = NULL /\ resize = NULL
      /\ wnd = [head |-> NULL, mem |-> [w \in WND |-> Free]]
  BY DEF Init, init_wnd_mgr
<1>3. GesturesOK
  <2>1. Leads(Contents, 0, pressed)
    BY <1>1, <1>2, LeadsEmpty
  <2>. QED  BY <1>2, <2>1 DEF GesturesOK
<1>4. Stack(wnd, <<>>)
  <2>1. wnd \in Wnds
    BY <1>2 DEF Wnds, Pointers, Free
  <2>2. Chain(wnd.mem, <<>>)
    <3>1. Len(<<>>) = 0 /\ <<>> \in Seq(WND) /\ IsInjective(<<>>) /\ 1 .. 0 = {}
      BY DEF IsInjective
    <3>. QED  BY <3>1 DEF Chain
  <2>3. open(wnd) = {} /\ ToSet(<<>>) = {}
    BY <1>2 DEF open, Free, ToSet
  <2>. QED  BY <1>2, <2>1, <2>2, <2>3 DEF Stack, First
<1>. QED  BY <1>1, <1>2, <1>3, <1>4 DEF DeskInv, Stacked, GestureTypes

\* Every step of the desktop keeps it.
LEMMA DeskStep ==
  ASSUME DeskInv, Next
  PROVE  DeskInv'
<1>. USE DEF DeskInv
<1>1. ASSUME NEW e \in EVT, Driver(e)  PROVE DeskInv'
  <2>1. RingOK'
    <3>1. CASE full
      BY <1>1, <3>1 DEF Driver, RingOK, queue
    <3>2. CASE ~full
      BY <1>1, <3>2, SndStep DEF Driver
    <3>. QED  BY <3>1, <3>2
  <2>2. GesturesOK'
    BY <1>1, GesturesDriver
  <2>3. UNCHANGED <<wnd, gestures>>
    BY <1>1 DEF Driver
  <2>. QED  BY <2>1, <2>2, <2>3 DEF GestureTypes, gestures
<1>2. ASSUME NEW mask \in SUBSET EVT, ClrEvt(mask)  PROVE DeskInv'
  <2>1. RingOK' /\ UNCHANGED <<wnd, gestures>>
    BY <1>2, ClrStep DEF ClrEvt
  <2>2. GesturesOK'
    BY <1>2, GesturesClrEvt
  <2>. QED  BY <2>1, <2>2 DEF GestureTypes, gestures
<1>3. CASE Process
  <2>1. RingOK'
    BY <1>3, GetStep DEF Process
  <2>2. GesturesOK'
    BY <1>3, GesturesProcess
  <2>3. Stacked(wnd') /\ GestureTypes'
    BY <1>3, ProcessStacked
  <2>. QED  BY <2>1, <2>2, <2>3
<1>. QED  BY <1>1, <1>2, <1>3 DEF Next

\* A step of another part changes nothing here.
LEMMA DeskFrame ==
  ASSUME DeskInv, UNCHANGED vars
  PROVE  DeskInv' /\ Contents' = Contents
<1>1. UNCHANGED <<g_queue, g_q_head, g_q_tail, g_q_count, wnd, drag, slide, resize, pressed, lost>>
  BY DEF vars, queue, gestures
<1>2. Contents' = Contents
  BY <1>1 DEF Contents, slot
<1>. QED  BY <1>1, <1>2 DEF DeskInv, RingOK, GesturesOK, GestureTypes

\* The inductive invariant of the desktop (event.c, wnd.c, workbench.c), for any
\* windows, event types, size of the queue and number of buttons.
THEOREM DesktopInvariant == MCSpec => []DeskInv
<1>1. MCInit => DeskInv
  BY DeskInit DEF MCInit
<1>2. DeskInv /\ [MCNext]_mcvars => DeskInv'
  BY DeskStep, DeskFrame DEF MCNext, mcvars
<1>. QED  BY <1>1, <1>2, PTL DEF MCSpec

\* The ring stays inside the queue's memory and every window pointer is a window
\* or NULL (event.c, wnd.c).
THEOREM TypesCorrect == MCSpec => []TypeOK
<1>1. DeskInv => TypeOK
  <2>. SUFFICES ASSUME DeskInv  PROVE TypeOK
    OBVIOUS
  <2>1. wnd \in Wnds /\ RingOK /\ GestureTypes
    BY DEF DeskInv, Stacked, Stack
  <2>2. wnd.head \in WND \cup {NULL}
        /\ \A w \in WND : {wnd.mem[w].next, wnd.mem[w].prev} \subseteq WND \cup {NULL}
    BY <2>1 DEF Wnds, Pointers
  <2>3. /\ DOMAIN g_queue = 0 .. EVENT_QUEUE_SIZE - 1 /\ g_q_head \in DOMAIN g_queue
        /\ g_q_tail \in DOMAIN g_queue /\ g_q_count \in 0..EVENT_QUEUE_SIZE
        /\ g_queue \in [0 .. EVENT_QUEUE_SIZE - 1 -> EVT]
    BY <2>1 DEF RingOK
  <2>. QED  BY <2>1, <2>2, <2>3 DEF TypeOK, GestureTypes
<1>. QED  BY <1>1, DesktopInvariant, PTL

\* The z-order is one list, linked both ways, of exactly the open windows, and
\* its first is the one that has the focus (wnd.c), for any number of windows.
THEOREM StackingExact == MCSpec => []WindowsExact
<1>1. DeskInv => WindowsExact
  BY StackExact DEF DeskInv
<1>. QED  BY <1>1, DesktopInvariant, PTL

\* No drag, slide or resize outlives the release of the buttons unless a button
\* event was lost (workbench.c, wnd.c), for any number of buttons.
THEOREM GesturesTerminate == MCSpec => []NoStuckGesture
<1>1. DeskInv => NoStuckGesture
  BY GesturesEnd DEF DeskInv
<1>. QED  BY <1>1, DesktopInvariant, PTL

\* A driver's event is put, unless the queue refuses it.
LEMMA DriverPuts ==
  ASSUME DeskInv, NEW e \in EVT, Driver(e), ~full
  PROVE  Fifo!Put(e)
<1>1. RingOK /\ Contents \in Seq(EVT) /\ Len(Contents) = g_q_count
  BY ContentsProperties DEF DeskInv
<1>2. Contents' = Append(Contents, e)
  BY <1>1, SndStep DEF Driver
<1>3. Len(Contents) < EVENT_QUEUE_SIZE
  BY <1>1, EventAssumption DEF full, RingOK
<1>. QED  BY <1>2, <1>3 DEF Fifo!Put

\* A step of the desktop is a step of the bounded queue.
LEMMA FifoStep ==
  ASSUME DeskInv, Next
  PROVE  Fifo!Next \/ UNCHANGED Contents
<1>1. RingOK /\ Contents \in Seq(EVT) /\ Len(Contents) = g_q_count
  BY ContentsProperties DEF DeskInv
<1>2. ASSUME NEW e \in EVT, Driver(e)  PROVE Fifo!Put(e) \/ UNCHANGED Contents
  <2>1. CASE full
    BY <1>2, <2>1 DEF Driver, Contents, slot, queue
  <2>2. CASE ~full
    BY <1>2, <2>2, DriverPuts
  <2>. QED  BY <2>1, <2>2
<1>3. ASSUME NEW mask \in SUBSET EVT, ClrEvt(mask)  PROVE Fifo!Clear(mask)
  <2>1. Contents' = Without(Contents, mask)
    BY <1>1, <1>3, ClrStep DEF ClrEvt
  <2>. QED  BY <2>1 DEF Fifo!Clear, Fifo!Without, Without
<1>4. ASSUME Process  PROVE Fifo!Get
  <2>1. get_evt
    BY <1>4 DEF Process
  <2>2. Contents # <<>> /\ Contents' = Tail(Contents)
    BY <1>1, <2>1, GetStep
  <2>. QED  BY <2>2 DEF Fifo!Get
<1>. QED  BY <1>2, <1>3, <1>4 DEF Next, Fifo!Next

\* snd_evt, get_evt and clr_evt implement the bounded first-in first-out queue
\* of EventFifo, and no driver's event is put as another (event.c), for any size.
THEOREM RingImplementsFifo == MCSpec => FifoSpec
<1>1. MCInit => Fifo!Init
  BY RingInit DEF MCInit, Init, Fifo!Init
<1>2. DeskInv /\ [MCNext]_mcvars => [Fifo!Next]_Contents
  BY FifoStep, DeskFrame DEF MCNext, mcvars
<1>3. DeskInv /\ [MCNext]_mcvars => [\A e \in EVT : Driver(e) => full \/ Fifo!Put(e)]_vars
  <2>. SUFFICES ASSUME DeskInv, [MCNext]_mcvars
                PROVE  (\A e \in EVT : Driver(e) => full \/ Fifo!Put(e)) \/ UNCHANGED vars
    OBVIOUS
  <2>1. \A e \in EVT : Driver(e) => full \/ Fifo!Put(e)
    BY DriverPuts
  <2>. QED  BY <2>1
<1>. QED  BY <1>1, <1>2, <1>3, DesktopInvariant, PTL DEF MCSpec, FifoSpec, Fifo!Spec

-----------------------------------------------------------------------------
(* The editor: where the caret is and how long the lines are.              *)

Byte  == Chars \cup {NUL, NL}
Texts == Seq(Byte)
Docs  == [lines : Seq(Texts), row : Nat, col : Nat, sel : Nat \X Nat]

\* Column c of row r is in the text.
Inside(ls, r, c) == r \in 1..Len(ls) /\ c \in 0..Len(ls[r])

\* The text fits into its array.
Fits(ls) == /\ ls \in Seq(Texts) /\ Len(ls) \in 1..TEDITOR_MAX_LINES
            /\ \A i \in 1..Len(ls) : Len(ls[i]) <= MaxLen

DocOK(k) == /\ k \in Docs /\ Fits(k.lines) /\ Inside(k.lines, k.row, k.col)
            /\ k.sel # NOSEL => Inside(k.lines, k.sel[1], k.sel[2])

EditorInv == DocOK(ed) /\ g_clipboard \in Texts

\* Every change of a text or of the lines puts t between a part in front and a
\* part behind.
Splice(s, n, t, m) == upto(s, n) \o t \o after(s, m)

\* What is in it.
LEMMA Spliced ==
  ASSUME NEW S, NEW s \in Seq(S), NEW n \in 0..Len(s), NEW m \in 0..Len(s), NEW t \in Seq(S)
  PROVE  LET w == Splice(s, n, t, m) IN
         /\ w \in Seq(S) /\ Len(w) = n + Len(t) + (Len(s) - m)
         /\ \A i \in 1..n + Len(t) + (Len(s) - m) :
               w[i] = IF i <= n THEN s[i] ELSE IF i <= n + Len(t) THEN t[i - n] ELSE s[i - n - Len(t) + m]
<1>. DEFINE w == Splice(s, n, t, m)
<1>. DEFINE a == upto(s, n)
            b == after(s, m)
<1>0. Len(s) \in Nat /\ Len(t) \in Nat /\ \A i \in 1..Len(s) : s[i] \in S
  BY LenProperties, ElementOfSeq
<1>1. a \in Seq(S) /\ Len(a) = n /\ \A i \in 1..n : a[i] = s[i]
  <2>1. \A i \in 1..n : s[i] \in S
    BY <1>0
  <2>. QED  BY ONLY <1>0, <2>1, SubSeqProperties, n \in 0..Len(s) DEF upto
<1>2. b \in Seq(S) /\ Len(b) = Len(s) - m /\ \A i \in 1..Len(s) - m : b[i] = s[i + m]
  <2>1. \A i \in m + 1..Len(s) : s[i] \in S
    BY <1>0
  <2>2. PICK c : c = after(s, m)
    OBVIOUS
  <2>3. c \in Seq(S) /\ Len(c) = (IF m + 1 <= Len(s) THEN Len(s) - (m + 1) + 1 ELSE 0)
        /\ \A i \in 1..Len(s) - (m + 1) + 1 : c[i] = s[m + 1 + i - 1]
    BY ONLY <1>0, <2>1, <2>2, SubSeqProperties, m \in 0..Len(s) DEF after
  <2>. QED  BY <1>0, <2>2, <2>3
<1>. HIDE DEF a, b
<1>3. PICK u : u = a \o t
  OBVIOUS
<1>x. w = u \o b
  BY <1>3 DEF a, b, w, Splice
<1>. HIDE DEF w
<1>z. PICK l : l = Len(t)
  OBVIOUS
<1>4. u \in Seq(S) /\ Len(u) = n + l /\ \A i \in 1..n + l : u[i] = IF i <= n THEN s[i] ELSE t[i - n]
  <2>1. /\ u \in Seq(S) /\ Len(u) = Len(a) + Len(t)
        /\ \A i \in 1..Len(a) + Len(t) : u[i] = IF i <= Len(a) THEN a[i] ELSE t[i - Len(a)]
    BY ONLY <1>1, <1>3, t \in Seq(S), ConcatProperties
  <2>2. ASSUME NEW i \in 1..n + l  PROVE u[i] = IF i <= n THEN s[i] ELSE t[i - n]
    BY <1>1, <1>z, <2>1, <2>2
  <2>. QED  BY <1>1, <1>z, <2>1, <2>2
<1>6. w \in Seq(S) /\ Len(w) = n + l + (Len(s) - m)
      /\ \A i \in 1..n + l + (Len(s) - m) : w[i] = IF i <= n + l THEN u[i] ELSE b[i - (n + l)]
  <2>1. /\ w \in Seq(S) /\ Len(w) = Len(u) + Len(b)
        /\ \A i \in 1..Len(u) + Len(b) : w[i] = IF i <= Len(u) THEN u[i] ELSE b[i - Len(u)]
    BY ONLY <1>2, <1>4, <1>x, ConcatProperties
  <2>. QED  BY <1>2, <1>4, <2>1
<1>7. n \in Nat /\ l \in Nat /\ m \in Nat /\ n <= Len(s) /\ m <= Len(s) /\ Len(s) \in Nat
  BY <1>0, <1>z
<1>8. ASSUME NEW i \in 1..n + l + (Len(s) - m)
      PROVE  w[i] = IF i <= n THEN s[i] ELSE IF i <= n + l THEN t[i - n] ELSE s[i - n - l + m]
  <2>1. CASE i <= n + l
    <3>1. i \in 1..n + l
      BY <1>7, <2>1
    <3>. QED  BY <1>4, <1>6, <2>1, <3>1
  <2>2. CASE ~(i <= n + l)
    <3>1. i - (n + l) \in 1..Len(s) - m /\ (i - (n + l)) + m = i - n - l + m /\ ~(i <= n)
      BY <1>7, <2>2
    <3>2. b[i - (n + l)] = s[i - n - l + m]
      BY <1>2, <3>1
    <3>. QED  BY <1>6, <2>2, <3>1, <3>2
  <2>. QED  BY <2>1, <2>2
<1>. QED  BY <1>6, <1>8, <1>z DEF w

\* The sizes of the editor's arrays.
LEMMA EditorSizes ==
  /\ MaxLen \in Nat \ {0} /\ TEDITOR_MAX_LINES \in Nat \ {0, 1}
  /\ Chars \subseteq Byte /\ NUL \in Byte /\ NL \in Byte
BY EditorAssumption DEF MaxLen, Byte

\* A text of characters is a text.
LEMMA CharsAreText ==
  ASSUME NEW s \in Seq(Chars)
  PROVE  s \in Texts
<1>1. Len(s) \in Nat /\ s \in [1..Len(s) -> Chars]
  BY LenProperties
<1>2. s \in [1..Len(s) -> Byte]
  BY <1>1, EditorSizes
<1>. QED  BY <1>1, <1>2 DEF Texts

\* The front of a text.
LEMMA UptoProperties ==
  ASSUME NEW S, NEW s \in Seq(S), NEW n \in 0..Len(s)
  PROVE  /\ upto(s, n) \in Seq(S) /\ Len(upto(s, n)) = n
         /\ \A i \in 1..n : upto(s, n)[i] = s[i]
<1>0. Len(s) \in Nat /\ \A i \in 1..Len(s) : s[i] \in S
  BY LenProperties, ElementOfSeq
<1>1. \A i \in 1..n : s[i] \in S
  BY <1>0
<1>. QED  BY ONLY <1>0, <1>1, SubSeqProperties, n \in 0..Len(s) DEF upto

\* What is behind it.
LEMMA AfterProperties ==
  ASSUME NEW S, NEW s \in Seq(S), NEW n \in 0..Len(s)
  PROVE  after(s, n) \in Seq(S) /\ Len(after(s, n)) = Len(s) - n
<1>0. Len(s) \in Nat /\ \A i \in 1..Len(s) : s[i] \in S
  BY LenProperties, ElementOfSeq
<1>1. \A i \in n + 1..Len(s) : s[i] \in S
  BY <1>0
<1>2. PICK c : c = after(s, n)
  OBVIOUS
<1>3. c \in Seq(S) /\ Len(c) = (IF n + 1 <= Len(s) THEN Len(s) - (n + 1) + 1 ELSE 0)
  BY ONLY <1>0, <1>1, <1>2, SubSeqProperties, n \in 0..Len(s) DEF after
<1>. QED  BY <1>0, <1>2, <1>3

\* The smaller of two numbers.
LEMMA MinPair ==
  ASSUME NEW a \in Nat, NEW b \in Nat
  PROVE  Min({a, b}) = IF a <= b THEN a ELSE b
<1>1. {a, b} \in SUBSET Nat /\ {a, b} # {}
  OBVIOUS
<1>2. Min({a, b}) \in {a, b} /\ \A j \in {a, b} : Min({a, b}) <= j
  BY <1>1, MinPosition
<1>. QED  BY <1>2

\* What is cut off at the end of a line.
LEMMA AtMostProperties ==
  ASSUME NEW s \in Texts
  PROVE  /\ at_most(s) \in Texts
         /\ Len(at_most(s)) = IF Len(s) <= MaxLen THEN Len(s) ELSE MaxLen
<1>1. Len(s) \in Nat /\ s \in Seq(Byte)
  BY LenProperties DEF Texts
<1>2. Min({Len(s), MaxLen}) = IF Len(s) <= MaxLen THEN Len(s) ELSE MaxLen
  BY <1>1, EditorSizes, MinPair
<1>3. Min({Len(s), MaxLen}) \in 0..Len(s)
  BY <1>1, <1>2, EditorSizes
<1>. QED  BY <1>1, <1>2, <1>3, UptoProperties DEF at_most, Texts

\* What a text that fits has.
LEMMA FitsProperties ==
  ASSUME NEW ls, Fits(ls)
  PROVE  /\ ls \in Seq(Texts) /\ Len(ls) \in Nat \ {0} /\ Len(ls) <= TEDITOR_MAX_LINES
         /\ ls \in [1..Len(ls) -> Texts]
         /\ \A i \in 1..Len(ls) : ls[i] \in Texts /\ Len(ls[i]) \in 0..MaxLen
<1>1. ls \in Seq(Texts) /\ Len(ls) \in 1..TEDITOR_MAX_LINES /\ \A i \in 1..Len(ls) : Len(ls[i]) <= MaxLen
  BY DEF Fits
<1>2. Len(ls) \in Nat /\ ls \in [1..Len(ls) -> Texts]
  BY <1>1, LenProperties
<1>3. ASSUME NEW i \in 1..Len(ls)  PROVE ls[i] \in Texts /\ Len(ls[i]) \in 0..MaxLen
  <2>1. ls[i] \in Texts
    BY <1>2
  <2>2. Len(ls[i]) \in Nat
    BY <2>1, LenProperties DEF Texts
  <2>. QED  BY <1>1, <2>1, <2>2, EditorSizes
<1>. QED  BY <1>1, <1>2, <1>3

Replace(ls, r, s) == [ls EXCEPT ![r] = s]

\* One line replaced by another.
LEMMA ReplacedLine ==
  ASSUME NEW ls, Fits(ls), NEW r \in 1..Len(ls), NEW s \in Texts, Len(s) <= MaxLen
  PROVE  LET w == Replace(ls, r, s)
         IN  /\ Fits(w) /\ Len(w) = Len(ls) /\ w[r] = s
             /\ \A i \in 1..Len(ls) : i # r => w[i] = ls[i]
<1>. DEFINE w == Replace(ls, r, s)
<1>1. /\ ls \in Seq(Texts) /\ Len(ls) \in Nat \ {0} /\ Len(ls) <= TEDITOR_MAX_LINES
      /\ ls \in [1..Len(ls) -> Texts] /\ \A i \in 1..Len(ls) : Len(ls[i]) <= MaxLen
  BY FitsProperties, EditorSizes
<1>x. w = [ls EXCEPT ![r] = s]
  BY DEF Replace
<1>. HIDE DEF w
<1>2. w \in [1..Len(ls) -> Texts]
  BY <1>1, <1>x
<1>3. w \in Seq(Texts) /\ Len(w) = Len(ls)
  <2>1. w \in Seq(Texts)
    BY <1>1, <1>2, IsASeq
  <2>2. DOMAIN w = 1..Len(w) /\ Len(w) \in Nat
    BY <2>1, LenProperties
  <2>. QED  BY <1>1, <1>2, <2>1, <2>2
<1>4. w[r] = s /\ \A i \in 1..Len(ls) : i # r => w[i] = ls[i]
  BY <1>1, <1>x
<1>5. \A i \in 1..Len(w) : Len(w[i]) <= MaxLen
  BY <1>1, <1>3, <1>4
<1>6. Len(w) \in 1..TEDITOR_MAX_LINES
  BY <1>1, <1>3, EditorSizes
<1>7. Fits(w)
  BY <1>3, <1>5, <1>6 DEF Fits
<1>. QED  BY <1>3, <1>4, <1>7 DEF w

\* Some lines replaced by those of t.
LEMMA SplicedLines ==
  ASSUME NEW ls, Fits(ls), NEW n \in 0..Len(ls), NEW m \in 0..Len(ls), NEW t \in Seq(Texts), t # <<>>,
         \A i \in 1..Len(t) : Len(t[i]) <= MaxLen, n + Len(t) + (Len(ls) - m) <= TEDITOR_MAX_LINES
  PROVE  LET w == Splice(ls, n, t, m)
         IN  /\ Fits(w) /\ Len(w) = n + Len(t) + (Len(ls) - m)
             /\ \A i \in 1..Len(t) : \A j : j = n + i => j \in 1..Len(w) /\ w[j] = t[i]
<1>0. ls \in Seq(Texts) /\ Len(ls) \in Nat /\ TEDITOR_MAX_LINES \in Nat
      /\ \A i \in 1..Len(ls) : Len(ls[i]) <= MaxLen
  BY FitsProperties, EditorSizes
<1>1. Len(t) \in Nat \ {0}
  BY LenProperties, EmptySeq
<1>. DEFINE w == Splice(ls, n, t, m)
<1>2. /\ w \in Seq(Texts) /\ Len(w) = n + Len(t) + (Len(ls) - m)
      /\ \A i \in 1..n + Len(t) + (Len(ls) - m) :
            w[i] = IF i <= n THEN ls[i] ELSE IF i <= n + Len(t) THEN t[i - n] ELSE ls[i - n - Len(t) + m]
  BY <1>0, Spliced
<1>. HIDE DEF w
<1>3. PICK l \in Nat \ {0}, z \in Nat : l = Len(t) /\ z = Len(ls)
  BY <1>0, <1>1
<1>4. n \in 0..z /\ m \in 0..z /\ Len(w) = n + l + (z - m)
  BY <1>2, <1>3
<1>5. ASSUME NEW i \in 1..Len(w)  PROVE Len(w[i]) <= MaxLen
  <2>1. CASE i <= n
    <3>1. i \in 1..z
      BY <1>4, <2>1
    <3>. QED  BY <1>0, <1>2, <1>3, <2>1, <3>1
  <2>2. CASE ~(i <= n) /\ i <= n + l
    <3>1. i - n \in 1..l
      BY <1>4, <2>2
    <3>. QED  BY <1>2, <1>3, <2>2, <3>1
  <2>3. CASE ~(i <= n) /\ ~(i <= n + l)
    <3>1. i - n - l + m \in 1..z
      BY <1>4, <2>3
    <3>. QED  BY <1>0, <1>2, <1>3, <2>3, <3>1
  <2>. QED  BY <2>1, <2>2, <2>3
<1>6. ASSUME NEW i \in 1..Len(t), NEW j, j = n + i  PROVE j \in 1..Len(w) /\ w[j] = t[i]
  <2>1. j \in 1..n + l + (z - m) /\ ~(j <= n) /\ j <= n + l /\ j - n = i
    BY <1>3, <1>4, <1>6
  <2>. QED  BY <1>2, <1>3, <2>1
<1>7. Len(w) \in 1..TEDITOR_MAX_LINES
  BY <1>0, <1>3, <1>4
<1>. QED  BY <1>2, <1>5, <1>6, <1>7 DEF Fits, w

-----------------------------------------------------------------------------
(* What each operation of the editor leaves.                               *)

\* A document is in order when its parts are.
LEMMA DocParts ==
  ASSUME NEW ls, NEW r, NEW c, NEW s
  PROVE  DocOK([lines |-> ls, row |-> r, col |-> c, sel |-> s])
         <=> /\ Fits(ls) /\ Inside(ls, r, c) /\ s \in Nat \X Nat
             /\ s # NOSEL => Inside(ls, s[1], s[2])
<1>. DEFINE k == [lines |-> ls, row |-> r, col |-> c, sel |-> s]
<1>1. k.lines = ls /\ k.row = r /\ k.col = c /\ k.sel = s
  OBVIOUS
<1>2. Fits(ls) /\ Inside(ls, r, c) => r \in Nat /\ c \in Nat /\ ls \in Seq(Texts)
  BY FitsProperties, EditorSizes DEF Inside
<1>3. ls \in Seq(Texts) /\ r \in Nat /\ c \in Nat /\ s \in Nat \X Nat <=> k \in Docs
  BY DEF Docs
<1>. HIDE DEF k
<1>. QED  BY <1>1, <1>2, <1>3 DEF DocOK, k

\* The parts of a document in order.
LEMMA DocFacts ==
  ASSUME NEW k, DocOK(k)
  PROVE  /\ k = [lines |-> k.lines, row |-> k.row, col |-> k.col, sel |-> k.sel]
         /\ Fits(k.lines) /\ Inside(k.lines, k.row, k.col) /\ k.sel \in Nat \X Nat
         /\ k.sel # NOSEL => Inside(k.lines, k.sel[1], k.sel[2])
         /\ k.row \in Nat \ {0} /\ k.row <= Len(k.lines) /\ k.col \in Nat /\ k.col <= Len(here(k))
         /\ here(k) \in Texts /\ Len(here(k)) \in 0..MaxLen
<1>1. k \in Docs /\ Fits(k.lines) /\ Inside(k.lines, k.row, k.col)
      /\ (k.sel # NOSEL => Inside(k.lines, k.sel[1], k.sel[2]))
  BY DEF DocOK
<1>2. k = [lines |-> k.lines, row |-> k.row, col |-> k.col, sel |-> k.sel] /\ k.sel \in Nat \X Nat
  BY <1>1 DEF Docs
<1>3. k.row \in 1..Len(k.lines) /\ k.col \in 0..Len(here(k))
  BY <1>1 DEF Inside, here
<1>4. /\ Len(k.lines) \in Nat /\ here(k) \in Texts /\ Len(here(k)) \in 0..MaxLen
  BY <1>1, <1>3, FitsProperties DEF here
<1>. QED  BY <1>1, <1>2, <1>3, <1>4

Has(f, ls, r, c, s) == f \in Docs /\ f.lines = ls /\ f.row = r /\ f.col = c /\ f.sel = s

\* It is in order when what it has is.
LEMMA Ordered ==
  ASSUME NEW f, NEW ls, NEW r, NEW c, NEW s, Has(f, ls, r, c, s), Fits(ls), Inside(ls, r, c),
         s # NOSEL => Inside(ls, s[1], s[2])
  PROVE  DocOK(f) /\ f.sel = s
BY DEF Has, DocOK

\* The first end of a selection is not behind the last.
LEMMA EndsInOrder ==
  ASSUME NEW k, DocOK(k), k.sel # NOSEL
  PROVE  /\ Inside(k.lines, first(k)[1], first(k)[2]) /\ Inside(k.lines, last(k)[1], last(k)[2])
         /\ first(k)[1] <= last(k)[1]
<1>1. /\ Inside(k.lines, k.row, k.col) /\ Inside(k.lines, k.sel[1], k.sel[2])
      /\ k.row \in Nat /\ k.sel[1] \in Nat
  BY DocFacts
<1>2. <<k.row, k.col>>[1] = k.row /\ <<k.row, k.col>>[2] = k.col
  OBVIOUS
<1>3. CASE before(<<k.row, k.col>>, k.sel)
  <2>1. k.row <= k.sel[1]
    BY <1>1, <1>2, <1>3 DEF before
  <2>. QED  BY <1>1, <1>2, <1>3, <2>1 DEF first, last
<1>4. CASE ~before(<<k.row, k.col>>, k.sel)
  <2>1. k.sel[1] <= k.row
    BY <1>1, <1>2, <1>4 DEF before
  <2>. QED  BY <1>1, <1>2, <1>4, <2>1 DEF first, last
<1>. QED  BY <1>3, <1>4

\* NOSEL is a place, though none of the text.
LEMMA NoSelection == NOSEL \in Nat \X Nat
BY DEF NOSEL

\* Cutting leaves the caret where the selection began.
LEMMA Deletes ==
  ASSUME NEW k, DocOK(k)
  PROVE  LET f == teditor_delete_selection(k)
         IN  DocOK(f) /\ f.sel = NOSEL
<1>1. CASE k.sel = NOSEL
  BY <1>1 DEF teditor_delete_selection
<1>2. CASE k.sel # NOSEL
  <2>1. PICK a, b : a = first(k) /\ b = last(k)
    OBVIOUS
  <2>2. Inside(k.lines, a[1], a[2]) /\ Inside(k.lines, b[1], b[2]) /\ a[1] <= b[1]
    BY <1>2, <2>1, EndsInOrder
  <2>3. PICK ls, r, c, r2, c2 : ls = k.lines /\ r = a[1] /\ c = a[2] /\ r2 = b[1] /\ c2 = b[2]
    OBVIOUS
  <2>4. Fits(ls) /\ r \in 1..Len(ls) /\ r2 \in 1..Len(ls) /\ c \in 0..Len(ls[r]) /\ c2 \in 0..Len(ls[r2]) /\ r <= r2
    BY <2>2, <2>3, DocFacts DEF Inside
  <2>5. Len(ls) \in Nat \ {0} /\ Len(ls) <= TEDITOR_MAX_LINES /\ ls[r] \in Texts /\ ls[r2] \in Texts
        /\ Len(ls[r]) \in 0..MaxLen
    BY <2>4, FitsProperties
  <2>6. PICK x : x = upto(ls[r], c) \o after(ls[r2], c2)
    OBVIOUS
  <2>7. x \in Texts /\ Len(x) \in Nat /\ Len(x) >= c
    <3>1. upto(ls[r], c) \in Seq(Byte) /\ Len(upto(ls[r], c)) = c
      BY <2>4, <2>5, UptoProperties DEF Texts
    <3>2. after(ls[r2], c2) \in Seq(Byte) /\ Len(after(ls[r2], c2)) \in Nat
      BY <2>4, <2>5, AfterProperties, LenProperties DEF Texts
    <3>3. x \in Seq(Byte) /\ Len(x) = c + Len(after(ls[r2], c2))
      BY ONLY <2>6, <3>1, <3>2, ConcatProperties
    <3>. QED  BY <2>4, <3>2, <3>3 DEF Texts
  <2>8. PICK y : y = at_most(x)
    OBVIOUS
  <2>9. y \in Texts /\ Len(y) <= MaxLen /\ Len(y) \in Nat /\ c <= Len(y)
    BY <2>4, <2>5, <2>7, <2>8, AtMostProperties, EditorSizes
  <2>10. <<y>> \in Seq(Texts) /\ Len(<<y>>) = 1 /\ <<y>> # <<>> /\ <<y>>[1] = y
    BY <2>9
  <2>11. PICK t : t = <<y>>
    OBVIOUS
  <2>n. PICK n : n = r - 1
    OBVIOUS
  <2>12. PICK w : w = Splice(ls, n, t, r2)
    OBVIOUS
  <2>13. n \in 0..Len(ls) /\ r2 \in 0..Len(ls) /\ n + 1 + (Len(ls) - r2) <= TEDITOR_MAX_LINES
         /\ 1 \in 1..1 /\ r = n + 1
    BY <2>4, <2>5, <2>n, EditorSizes
  <2>14. Fits(w) /\ r \in 1..Len(w) /\ w[r] = y
    <3>1. t \in Seq(Texts) /\ Len(t) = 1 /\ t # <<>> /\ t[1] = y
      BY <2>10, <2>11
    <3>2. \A i \in 1..Len(t) : Len(t[i]) <= MaxLen
      BY <2>9, <3>1
    <3>4. /\ n + Len(t) + (Len(ls) - r2) <= TEDITOR_MAX_LINES /\ Fits(ls) /\ n \in 0..Len(ls) /\ r2 \in 0..Len(ls)
          /\ t \in Seq(Texts) /\ t # <<>>
      BY <2>4, <2>13, <3>1
    <3>3. Fits(w) /\ \A i \in 1..Len(t) : \A j : j = n + i => j \in 1..Len(w) /\ w[j] = t[i]
      BY ONLY <3>4, <2>12, <3>2, SplicedLines
    <3>. QED  BY <2>13, <3>1, <3>3
  <2>15. Inside(w, r, c)
    BY <2>4, <2>9, <2>14 DEF Inside
  <2>16. teditor_delete_selection(k) = [lines |-> w, row |-> r, col |-> c, sel |-> NOSEL]
    BY <1>2, <2>1, <2>3, <2>6, <2>8, <2>11, <2>12, <2>n DEF teditor_delete_selection, Splice
  <2>. QED  BY <2>14, <2>15, <2>16, DocParts, NoSelection
<1>. QED  BY <1>1, <1>2

\* Text put in at the caret.
LEMMA PutIn ==
  ASSUME NEW k, DocOK(k), k.sel = NOSEL, NEW s \in Texts, Len(here(k)) + Len(s) <= MaxLen
  PROVE  LET f == [k EXCEPT !.lines = put(@, k.row, k.col, s), !.col = @ + Len(s)]
         IN  DocOK(f) /\ f.sel = NOSEL
<1>1. PICK ls, r, c : ls = k.lines /\ r = k.row /\ c = k.col
  OBVIOUS
<1>2. /\ k = [lines |-> ls, row |-> r, col |-> c, sel |-> NOSEL] /\ Fits(ls)
      /\ r \in Nat \ {0} /\ r <= Len(ls) /\ c \in Nat /\ c <= Len(ls[r])
      /\ ls[r] \in Texts /\ Len(ls[r]) \in 0..MaxLen
  BY <1>1, DocFacts DEF here
<1>3. r \in 1..Len(ls) /\ Len(s) \in Nat /\ c \in 0..Len(ls[r])
  BY <1>2, FitsProperties, LenProperties DEF Texts
<1>4. PICK u : u = ls[r]
  OBVIOUS
<1>x. PICK x : x = Splice(u, c, s, c)
  OBVIOUS
<1>5. x \in Texts /\ Len(x) = Len(ls[r]) + Len(s)
  <2>1. u \in Seq(Byte) /\ s \in Seq(Byte) /\ c \in 0..Len(u)
    BY <1>2, <1>3, <1>4 DEF Texts
  <2>2. x \in Seq(Byte) /\ Len(x) = c + Len(s) + (Len(u) - c)
    BY ONLY <1>x, <2>1, Spliced
  <2>3. Len(u) \in Nat /\ c \in Nat /\ Len(s) \in Nat
    BY <1>2, <1>3, <2>1, LenProperties
  <2>4. Len(x) = Len(u) + Len(s)
    BY ONLY <2>2, <2>3
  <2>. QED  BY <1>4, <2>2, <2>4 DEF Texts
<1>6. PICK w : w = Replace(ls, r, x)
  OBVIOUS
<1>7. Fits(w) /\ Len(w) = Len(ls) /\ w[r] = x
  <2>1. Len(x) <= MaxLen
    BY <1>1, <1>5 DEF here
  <2>. QED  BY <1>2, <1>3, <1>5, <1>6, <2>1, ReplacedLine
<1>8. Inside(w, r, c + Len(s))
  BY <1>2, <1>3, <1>5, <1>7 DEF Inside
<1>9. Has([k EXCEPT !.lines = put(@, k.row, k.col, s), !.col = @ + Len(s)], w, r, c + Len(s), NOSEL)
  <2>1. put(ls, r, c, s) = w
    BY <1>4, <1>x, <1>6 DEF put, Splice, Replace
  <2>2. put(k.lines, k.row, k.col, s) = w /\ k.col + Len(s) = c + Len(s)
    BY <1>1, <2>1
  <2>3. k \in Docs
    BY DEF DocOK
  <2>4. w \in Seq(Texts) /\ c + Len(s) \in Nat
    BY <1>2, <1>3, <1>7, FitsProperties
  <2>5. Has([k EXCEPT !.lines = w, !.col = c + Len(s)], w, k.row, c + Len(s), k.sel)
    BY <2>3, <2>4 DEF Has, Docs
  <2>. QED  BY <1>1, <2>2, <2>5
<1>. QED  BY <1>7, <1>8, <1>9, Ordered

\* insert_here
LEMMA InsertsHere ==
  ASSUME NEW k, DocOK(k), k.sel = NOSEL, NEW s \in Texts
  PROVE  DocOK(insert_here(k, s)) /\ insert_here(k, s).sel = NOSEL
<1>1. Len(here(k)) + Len(s) < MaxLen => Len(here(k)) + Len(s) <= MaxLen
  BY DocFacts, LenProperties, EditorSizes DEF Texts
<1>. QED  BY <1>1, PutIn DEF insert_here

\* teditor_insert_char
LEMMA InsertsChar ==
  ASSUME NEW k, DocOK(k), NEW ch \in Chars
  PROVE  DocOK(teditor_insert_char(k, ch))
<1>1. PICK f : f = teditor_delete_selection(k)
  OBVIOUS
<1>2. DocOK(f) /\ f.sel = NOSEL
  BY <1>1, Deletes
<1>3. <<ch>> \in Texts /\ Len(<<ch>>) = 1
  BY EditorSizes DEF Texts
<1>4. CASE Len(here(f)) < MaxLen
  <2>1. PICK s : s = <<ch>>
    OBVIOUS
  <2>2. Len(here(f)) + Len(s) <= MaxLen
    BY <1>2, <1>3, <1>4, <2>1, DocFacts, EditorSizes
  <2>3. DocOK([f EXCEPT !.lines = put(@, f.row, f.col, s), !.col = @ + Len(s)])
    BY <1>2, <1>3, <2>1, <2>2, PutIn
  <2>. QED  BY <1>1, <1>3, <1>4, <2>1, <2>3 DEF teditor_insert_char
<1>5. CASE ~(Len(here(f)) < MaxLen)
  BY <1>1, <1>2, <1>5 DEF teditor_insert_char
<1>. QED  BY <1>4, <1>5

\* break_here
LEMMA BreaksHere ==
  ASSUME NEW k, DocOK(k), k.sel = NOSEL
  PROVE  DocOK(break_here(k)) /\ break_here(k).sel = NOSEL
<1>1. CASE ~(Len(k.lines) < TEDITOR_MAX_LINES - 1)
  BY <1>1 DEF break_here
<1>2. CASE Len(k.lines) < TEDITOR_MAX_LINES - 1
  <2>1. PICK ls, r, c : ls = k.lines /\ r = k.row /\ c = k.col
    OBVIOUS
  <2>2. /\ k = [lines |-> ls, row |-> r, col |-> c, sel |-> NOSEL] /\ Fits(ls)
        /\ r \in Nat \ {0} /\ r <= Len(ls) /\ c \in Nat /\ c <= Len(ls[r])
        /\ ls[r] \in Texts /\ Len(ls[r]) \in 0..MaxLen
    BY <2>1, DocFacts DEF here
  <2>3. r \in 1..Len(ls) /\ Len(ls) \in Nat /\ Len(ls) < TEDITOR_MAX_LINES - 1 /\ c \in 0..Len(ls[r])
    BY <1>2, <2>1, <2>2, FitsProperties
  <2>4. PICK x, y : x = upto(ls[r], c) /\ y = after(ls[r], c)
    OBVIOUS
  <2>5. x \in Texts /\ y \in Texts /\ Len(x) <= MaxLen /\ Len(y) <= MaxLen /\ Len(y) \in Nat
    <3>1. x \in Seq(Byte) /\ Len(x) = c /\ y \in Seq(Byte) /\ Len(y) = Len(ls[r]) - c
      BY <2>2, <2>3, <2>4, UptoProperties, AfterProperties DEF Texts
    <3>. QED  BY <2>2, <2>3, <3>1, EditorSizes DEF Texts
  <2>6. PICK t : t = <<x, y>>
    OBVIOUS
  <2>7. t \in Seq(Texts) /\ Len(t) = 2 /\ t # <<>> /\ t[1] = x /\ t[2] = y
    BY <2>5, <2>6
  <2>n. PICK n : n = r - 1
    OBVIOUS
  <2>8. PICK w : w = Splice(ls, n, t, r)
    OBVIOUS
  <2>9. n \in 0..Len(ls) /\ r \in 0..Len(ls) /\ n + 2 + (Len(ls) - r) <= TEDITOR_MAX_LINES
        /\ 2 \in 1..2 /\ r + 1 = n + 2
    BY <2>2, <2>3, <2>n, EditorSizes
  <2>10. \A i \in 1..Len(t) : Len(t[i]) <= MaxLen
    BY <2>5, <2>7
  <2>11. Fits(w) /\ r + 1 \in 1..Len(w) /\ w[r + 1] = y
    <3>2. /\ n + Len(t) + (Len(ls) - r) <= TEDITOR_MAX_LINES /\ Fits(ls) /\ n \in 0..Len(ls) /\ r \in 0..Len(ls)
          /\ t \in Seq(Texts) /\ t # <<>>
      BY <2>2, <2>7, <2>9
    <3>1. Fits(w) /\ \A i \in 1..Len(t) : \A j : j = n + i => j \in 1..Len(w) /\ w[j] = t[i]
      BY ONLY <3>2, <2>8, <2>10, SplicedLines
    <3>. QED  BY <2>7, <2>9, <3>1
  <2>12. Inside(w, r + 1, 0)
    BY <2>5, <2>11 DEF Inside
  <2>13. break_here(k) = [lines |-> w, row |-> r + 1, col |-> 0, sel |-> NOSEL]
    BY <1>2, <2>1, <2>2, <2>4, <2>6, <2>8, <2>n DEF break_here, break, Splice
  <2>. QED  BY <2>11, <2>12, <2>13, DocParts, NoSelection
<1>. QED  BY <1>1, <1>2

\* One byte of a line taken out.
LEMMA TakesOut ==
  ASSUME NEW ls, Fits(ls), NEW r \in 1..Len(ls), NEW c \in 1..Len(ls[r])
  PROVE  LET w == Replace(ls, r, RemoveAt(ls[r], c))
         IN  Fits(w) /\ Len(w) = Len(ls) /\ Len(w[r]) = Len(ls[r]) - 1
             /\ w \in Seq(Texts)
<1>1. PICK u : u = ls[r]
  OBVIOUS
<1>2. PICK x : x = RemoveAt(u, c)
  OBVIOUS
<1>3. u \in Seq(Byte) /\ Len(u) \in 0..MaxLen /\ c \in 1..Len(u)
  BY <1>1, FitsProperties DEF Texts
<1>4. x \in Seq(Byte) /\ Len(x) = Len(u) - 1
  BY ONLY <1>2, <1>3, RemoveAtProperties
<1>5. x \in Texts /\ Len(x) <= MaxLen
  BY <1>3, <1>4, EditorSizes DEF Texts
<1>6. PICK w : w = Replace(ls, r, x)
  OBVIOUS
<1>7. Fits(w) /\ Len(w) = Len(ls) /\ w[r] = x
  BY <1>5, <1>6, ReplacedLine
<1>8. w \in Seq(Texts)
  BY <1>7, FitsProperties
<1>. QED  BY <1>1, <1>2, <1>4, <1>6, <1>7, <1>8

\* Two lines joined.
LEMMA Joins ==
  ASSUME NEW ls, Fits(ls), NEW r \in 1..Len(ls), r + 1 \in 1..Len(ls), Len(ls[r]) + Len(ls[r + 1]) < MaxLen
  PROVE  LET w == join(ls, r)
         IN  Fits(w) /\ r \in 1..Len(w) /\ Len(w[r]) >= Len(ls[r]) /\ w \in Seq(Texts) /\ Len(w) \in Nat
<1>1. PICK u, v : u = ls[r] /\ v = ls[r + 1]
  OBVIOUS
<1>2. PICK x : x = u \o v
  OBVIOUS
<1>3. u \in Seq(Byte) /\ v \in Seq(Byte) /\ Len(u) \in Nat /\ Len(v) \in Nat
  <2>1. ls[r] \in Texts /\ ls[r + 1] \in Texts
    BY FitsProperties
  <2>. QED  BY <1>1, <2>1, LenProperties DEF Texts
<1>4. x \in Seq(Byte) /\ Len(x) = Len(u) + Len(v)
  BY ONLY <1>2, <1>3, ConcatProperties
<1>5. x \in Texts /\ Len(x) <= MaxLen /\ Len(x) >= Len(u)
  <2>1. Len(u) + Len(v) < MaxLen /\ MaxLen \in Nat
    BY <1>1, EditorSizes
  <2>2. Len(x) <= MaxLen /\ Len(x) >= Len(u)
    BY ONLY <1>3, <1>4, <2>1
  <2>. QED  BY <1>4, <2>2 DEF Texts
<1>6. PICK t : t = <<x>>
  OBVIOUS
<1>7. t \in Seq(Texts) /\ Len(t) = 1 /\ t # <<>> /\ t[1] = x
  BY <1>5, <1>6
<1>8. PICK n, m : n = r - 1 /\ m = r + 1
  OBVIOUS
<1>9. PICK w : w = Splice(ls, n, t, m)
  OBVIOUS
<1>10. Len(ls) \in Nat /\ Len(ls) <= TEDITOR_MAX_LINES
  BY FitsProperties
<1>11. \A i \in 1..Len(t) : Len(t[i]) <= MaxLen
  BY <1>5, <1>7
<1>12. /\ n + Len(t) + (Len(ls) - m) <= TEDITOR_MAX_LINES /\ Fits(ls) /\ n \in 0..Len(ls) /\ m \in 0..Len(ls)
       /\ t \in Seq(Texts) /\ t # <<>>
  BY <1>7, <1>8, <1>10, EditorSizes
<1>13. Fits(w) /\ \A i \in 1..Len(t) : \A j : j = n + i => j \in 1..Len(w) /\ w[j] = t[i]
  BY ONLY <1>9, <1>11, <1>12, SplicedLines
<1>14. 1 \in 1..Len(t) /\ r = n + 1
  BY <1>7, <1>8
<1>15. r \in 1..Len(w) /\ w[r] = x
  BY <1>7, <1>13, <1>14
<1>16. w = join(ls, r)
  BY <1>1, <1>2, <1>6, <1>8, <1>9 DEF join, Splice
<1>17. w \in Seq(Texts) /\ Len(w) \in Nat
  BY <1>13, FitsProperties
<1>. QED  BY <1>1, <1>5, <1>13, <1>15, <1>16, <1>17

\* teditor_backspace
LEMMA Backspaces ==
  ASSUME NEW k, DocOK(k)
  PROVE  DocOK(teditor_backspace(k))
<1>1. CASE k.sel # NOSEL
  BY <1>1, Deletes DEF teditor_backspace
<1>. SUFFICES ASSUME k.sel = NOSEL  PROVE DocOK(teditor_backspace(k))
  BY <1>1
<1>2. k \in Docs /\ Fits(k.lines) /\ k.row \in 1..Len(k.lines) /\ k.col \in 0..Len(k.lines[k.row])
      /\ Len(k.lines) \in Nat /\ Len(k.lines[k.row]) \in Nat /\ k.row \in Nat /\ k.col \in Nat
  <2>1. Fits(k.lines) /\ k.row \in 1..Len(k.lines) /\ k.col \in 0..Len(k.lines[k.row])
    BY DocFacts DEF Inside
  <2>2. Len(k.lines) \in Nat /\ Len(k.lines[k.row]) \in Nat
    BY <2>1, FitsProperties, EditorSizes
  <2>. QED  BY <2>1, <2>2 DEF DocOK
<1>3. CASE k.col > 0
  <2>1. k.col \in 1..Len(k.lines[k.row])
    BY <1>2, <1>3
  <2>2. PICK w : w = Replace(k.lines, k.row, RemoveAt(k.lines[k.row], k.col))
    OBVIOUS
  <2>3. Fits(w) /\ Len(w) = Len(k.lines) /\ Len(w[k.row]) = Len(k.lines[k.row]) - 1 /\ w \in Seq(Texts)
    BY <1>2, <2>1, <2>2, TakesOut
  <2>4. k.col - 1 \in 0..Len(w[k.row]) /\ k.col - 1 \in Nat
    BY <1>2, <2>1, <2>3
  <2>5. teditor_backspace(k) = [k EXCEPT !.lines = w, !.col = k.col - 1]
    BY <1>2, <1>3, <2>2 DEF teditor_backspace, Replace, Docs
  <2>6. Has(teditor_backspace(k), w, k.row, k.col - 1, NOSEL)
    BY <1>2, <2>3, <2>4, <2>5 DEF Has, Docs
  <2>7. Inside(w, k.row, k.col - 1)
    BY <1>2, <2>3, <2>4 DEF Inside
  <2>. QED  BY <2>3, <2>6, <2>7, Ordered
<1>4. CASE ~(k.col > 0) /\ k.row > 1 /\ joinable(k, k.row - 1)
  <2>1. PICK r : r = k.row - 1
    OBVIOUS
  <2>2. r \in 1..Len(k.lines) /\ r + 1 \in 1..Len(k.lines) /\ r + 1 = k.row /\ r \in Nat
    BY <1>2, <1>4, <2>1
  <2>3. Len(k.lines[r]) + Len(k.lines[r + 1]) < MaxLen
    BY <1>4, <2>1 DEF joinable
  <2>4. PICK w : w = join(k.lines, r)
    OBVIOUS
  <2>5. Fits(w) /\ r \in 1..Len(w) /\ Len(w[r]) >= Len(k.lines[r]) /\ w \in Seq(Texts)
    BY <1>2, <2>2, <2>3, <2>4, Joins
  <2>6. Len(k.lines[r]) \in Nat /\ Len(w[r]) \in Nat
    BY <1>2, <2>2, <2>5, FitsProperties, EditorSizes
  <2>7. teditor_backspace(k) = [k EXCEPT !.lines = w, !.row = r, !.col = Len(k.lines[r])]
    BY <1>4, <2>1, <2>4 DEF teditor_backspace
  <2>8. Has(teditor_backspace(k), w, r, Len(k.lines[r]), NOSEL)
    BY <1>2, <2>2, <2>5, <2>6, <2>7 DEF Has, Docs
  <2>9. Inside(w, r, Len(k.lines[r]))
    BY <2>5, <2>6 DEF Inside
  <2>. QED  BY <2>5, <2>8, <2>9, Ordered
<1>5. CASE ~(k.col > 0) /\ ~(k.row > 1 /\ joinable(k, k.row - 1))
  BY <1>5 DEF teditor_backspace
<1>. QED  BY <1>3, <1>4, <1>5

\* teditor_delete_char_forward
LEMMA DeletesForward ==
  ASSUME NEW k, DocOK(k)
  PROVE  DocOK(teditor_delete_char_forward(k))
<1>1. CASE k.sel # NOSEL
  BY <1>1, Deletes DEF teditor_delete_char_forward
<1>. SUFFICES ASSUME k.sel = NOSEL  PROVE DocOK(teditor_delete_char_forward(k))
  BY <1>1
<1>2. k \in Docs /\ Fits(k.lines) /\ k.row \in 1..Len(k.lines) /\ k.col \in 0..Len(k.lines[k.row])
      /\ Len(k.lines) \in Nat /\ Len(k.lines[k.row]) \in Nat /\ k.row \in Nat /\ k.col \in Nat
  <2>1. Fits(k.lines) /\ k.row \in 1..Len(k.lines) /\ k.col \in 0..Len(k.lines[k.row])
    BY DocFacts DEF Inside
  <2>2. Len(k.lines) \in Nat /\ Len(k.lines[k.row]) \in Nat
    BY <2>1, FitsProperties, EditorSizes
  <2>. QED  BY <2>1, <2>2 DEF DocOK
<1>3. CASE k.col < Len(here(k))
  <2>0. PICK c : c = k.col + 1
    OBVIOUS
  <2>1. c \in 1..Len(k.lines[k.row])
    BY <1>2, <1>3, <2>0 DEF here
  <2>2. PICK w : w = Replace(k.lines, k.row, RemoveAt(k.lines[k.row], c))
    OBVIOUS
  <2>3. Fits(w) /\ Len(w) = Len(k.lines) /\ Len(w[k.row]) = Len(k.lines[k.row]) - 1 /\ w \in Seq(Texts)
    BY <1>2, <2>1, <2>2, TakesOut
  <2>4. k.col \in 0..Len(w[k.row])
    BY <1>2, <2>0, <2>1, <2>3
  <2>5. teditor_delete_char_forward(k) = [k EXCEPT !.lines = w]
    BY <1>2, <1>3, <2>0, <2>2 DEF teditor_delete_char_forward, Replace, Docs
  <2>6. Has(teditor_delete_char_forward(k), w, k.row, k.col, NOSEL)
    BY <1>2, <2>3, <2>4, <2>5 DEF Has, Docs
  <2>7. Inside(w, k.row, k.col)
    BY <1>2, <2>3, <2>4 DEF Inside
  <2>. QED  BY <2>3, <2>6, <2>7, Ordered
<1>4. CASE ~(k.col < Len(here(k))) /\ k.row < Len(k.lines) /\ joinable(k, k.row)
  <2>2. k.row + 1 \in 1..Len(k.lines)
    BY <1>2, <1>4
  <2>3. Len(k.lines[k.row]) + Len(k.lines[k.row + 1]) < MaxLen
    BY <1>4 DEF joinable
  <2>4. PICK w : w = join(k.lines, k.row)
    OBVIOUS
  <2>5. Fits(w) /\ k.row \in 1..Len(w) /\ Len(w[k.row]) >= Len(k.lines[k.row]) /\ w \in Seq(Texts)
    BY <1>2, <2>2, <2>3, <2>4, Joins
  <2>6. Len(w[k.row]) \in Nat
    BY <2>5, FitsProperties, EditorSizes
  <2>7. teditor_delete_char_forward(k) = [k EXCEPT !.lines = w]
    BY <1>4, <2>4 DEF teditor_delete_char_forward
  <2>8. Has(teditor_delete_char_forward(k), w, k.row, k.col, NOSEL)
    BY <1>2, <2>5, <2>7 DEF Has, Docs
  <2>9. Inside(w, k.row, k.col)
    BY <1>2, <2>5, <2>6 DEF Inside
  <2>. QED  BY <2>5, <2>8, <2>9, Ordered
<1>5. CASE ~(k.col < Len(here(k))) /\ ~(k.row < Len(k.lines) /\ joinable(k, k.row))
  BY <1>5 DEF teditor_delete_char_forward
<1>. QED  BY <1>3, <1>4, <1>5

\* The caret is at (r, c) of the same text.
CaretAt(k, f, r, c) == f \in Docs /\ f.lines = k.lines /\ f.row = r /\ f.col = c

\* A move leads to a place in the text.
LEMMA Moves ==
  ASSUME NEW k, DocOK(k), NEW f, NEW r, NEW c, CaretAt(k, f, r, c), Inside(k.lines, r, c)
  PROVE  DocOK(plain(f)) /\ DocOK(extending(k, f))
<1>1. f \in Docs /\ f.lines = k.lines /\ f.row = r /\ f.col = c
  BY DEF CaretAt
<1>2. Fits(k.lines) /\ Inside(k.lines, k.row, k.col) /\ k.sel \in Nat \X Nat
      /\ (k.sel # NOSEL => Inside(k.lines, k.sel[1], k.sel[2])) /\ k.row \in Nat /\ k.col \in Nat
  BY DocFacts DEF DocOK, Docs
<1>3. PICK s : s = IF k.sel = NOSEL THEN <<k.row, k.col>> ELSE k.sel
  OBVIOUS
<1>4. s \in Nat \X Nat /\ Inside(k.lines, s[1], s[2])
  BY <1>2, <1>3
<1>5. Has(plain(f), k.lines, r, c, NOSEL)
  BY <1>1, NoSelection DEF plain, Has, Docs
<1>6. extending(k, f) = [f EXCEPT !.sel = s]
  BY <1>3 DEF extending
<1>7. Has(extending(k, f), k.lines, r, c, s)
  BY <1>1, <1>4, <1>6 DEF Has, Docs
<1>. QED  BY <1>2, <1>4, <1>5, <1>7, Ordered

\* The keys that move the caret, and a click.
LEMMA MovesInside ==
  ASSUME DocOK(ed), Move
  PROVE  DocOK(ed')
<1>. DEFINE k == ed
<1>1. k \in Docs /\ Fits(k.lines) /\ k.row \in 1..Len(k.lines) /\ k.col \in 0..Len(k.lines[k.row])
      /\ Len(k.lines) \in Nat /\ k.row \in Nat /\ k.col \in Nat /\ here(k) = k.lines[k.row]
      /\ \A i \in 1..Len(k.lines) : Len(k.lines[i]) \in Nat
      /\ DOMAIN k.lines = 1..Len(k.lines)
  <2>1. Fits(k.lines) /\ k.row \in 1..Len(k.lines) /\ k.col \in 0..Len(k.lines[k.row])
    BY DocFacts DEF Inside
  <2>2. Len(k.lines) \in Nat /\ \A i \in 1..Len(k.lines) : Len(k.lines[i]) \in Nat
    BY <2>1, FitsProperties, EditorSizes
  <2>3. DOMAIN k.lines = 1..Len(k.lines)
    BY <2>1, FitsProperties
  <2>. QED  BY <2>1, <2>2, <2>3 DEF DocOK, here
<1>2. ASSUME NEW f \in {left(k), right(k)}
      PROVE  \E r, c : CaretAt(k, f, r, c) /\ Inside(k.lines, r, c)
  <2>1. CASE f = left(k)
    <3>1. CASE k.col > 0
      <4>3. f = [k EXCEPT !.col = k.col - 1] /\ k.col - 1 \in Nat
        BY <1>1, <2>1, <3>1 DEF left
      <4>1. CaretAt(k, f, k.row, k.col - 1)
        BY ONLY <1>1, <4>3 DEF CaretAt, Docs
      <4>2. Inside(k.lines, k.row, k.col - 1)
        BY <1>1, <3>1 DEF Inside
      <4>. QED  BY <4>1, <4>2
    <3>2. CASE ~(k.col > 0) /\ k.row > 1
      <4>1. PICK r : r = k.row - 1
        OBVIOUS
      <4>2. r \in 1..Len(k.lines) /\ r \in Nat
        BY <1>1, <3>2, <4>1
      <4>3. CaretAt(k, f, r, Len(k.lines[r]))
        BY <1>1, <2>1, <3>2, <4>1, <4>2 DEF left, CaretAt, Docs
      <4>4. Inside(k.lines, r, Len(k.lines[r]))
        BY <1>1, <4>2 DEF Inside
      <4>. QED  BY <4>3, <4>4
    <3>3. CASE ~(k.col > 0) /\ ~(k.row > 1)
      <4>1. CaretAt(k, f, k.row, k.col) /\ Inside(k.lines, k.row, k.col)
        BY <1>1, <2>1, <3>3 DEF left, CaretAt, Inside
      <4>. QED  BY <4>1
    <3>. QED  BY <3>1, <3>2, <3>3
  <2>2. CASE f = right(k)
    <3>1. CASE k.col < Len(here(k))
      <4>3. f = [k EXCEPT !.col = k.col + 1] /\ k.col + 1 \in Nat
        BY <1>1, <2>2, <3>1 DEF right
      <4>1. CaretAt(k, f, k.row, k.col + 1)
        BY ONLY <1>1, <4>3 DEF CaretAt, Docs
      <4>2. Inside(k.lines, k.row, k.col + 1)
        BY <1>1, <3>1 DEF Inside
      <4>. QED  BY <4>1, <4>2
    <3>2. CASE ~(k.col < Len(here(k))) /\ k.row < Len(k.lines)
      <4>3. f = [k EXCEPT !.row = k.row + 1, !.col = 0] /\ k.row + 1 \in Nat
        BY <1>1, <2>2, <3>2 DEF right
      <4>1. CaretAt(k, f, k.row + 1, 0)
        BY ONLY <1>1, <4>3 DEF CaretAt, Docs
      <4>2. Inside(k.lines, k.row + 1, 0)
        BY <1>1, <3>2 DEF Inside
      <4>. QED  BY <4>1, <4>2
    <3>3. CASE ~(k.col < Len(here(k))) /\ ~(k.row < Len(k.lines))
      <4>1. CaretAt(k, f, k.row, k.col) /\ Inside(k.lines, k.row, k.col)
        BY <1>1, <2>2, <3>3 DEF right, CaretAt, Inside
      <4>. QED  BY <4>1
    <3>. QED  BY <3>1, <3>2, <3>3
  <2>. QED  BY <2>1, <2>2
<1>3. ASSUME NEW r  PROVE \E x, c : CaretAt(k, to_row(k, r), x, c) /\ Inside(k.lines, x, c)
  <2>1. CASE r \in DOMAIN k.lines
    <3>1. PICK c : c = Min({k.col, Len(k.lines[r])})
      OBVIOUS
    <3>2. Len(k.lines[r]) \in Nat /\ r \in Nat /\ r \in 1..Len(k.lines)
      BY <1>1, <2>1
    <3>3. c \in 0..Len(k.lines[r]) /\ c \in Nat
      <4>1. PICK n : n = Len(k.lines[r])
        OBVIOUS
      <4>2. c = IF k.col <= n THEN k.col ELSE n
        BY <1>1, <3>1, <3>2, <4>1, MinPair
      <4>. QED  BY <1>1, <3>2, <4>1, <4>2
    <3>4. to_row(k, r) = [k EXCEPT !.row = r, !.col = c]
      BY <2>1, <3>1 DEF to_row
    <3>5. CaretAt(k, to_row(k, r), r, c) /\ Inside(k.lines, r, c)
      BY <1>1, <3>2, <3>3, <3>4 DEF CaretAt, Docs, Inside
    <3>. QED  BY <3>5
  <2>2. CASE r \notin DOMAIN k.lines
    <3>1. CaretAt(k, to_row(k, r), k.row, k.col) /\ Inside(k.lines, k.row, k.col)
      BY <1>1, <2>2 DEF to_row, CaretAt, Inside
    <3>. QED  BY <3>1
  <2>. QED  BY <2>1, <2>2
<1>4. ASSUME NEW c \in 0..Len(here(k))
      PROVE  CaretAt(k, [k EXCEPT !.col = c], k.row, c) /\ Inside(k.lines, k.row, c)
  BY <1>1 DEF CaretAt, Docs, Inside
<1>5. ASSUME NEW r \in DOMAIN k.lines, NEW c \in 0..Len(k.lines[r])
      PROVE  CaretAt(k, [k EXCEPT !.row = r, !.col = c], r, c) /\ Inside(k.lines, r, c)
  <2>1. r \in Nat /\ c \in Nat /\ r \in 1..Len(k.lines)
    BY <1>1
  <2>. QED  BY <1>1, <2>1 DEF CaretAt, Docs, Inside
<1>6. 0 \in 0..Len(here(k)) /\ Len(here(k)) \in 0..Len(here(k))
  BY <1>1
<1>7. \E f : (ed' = plain(f) \/ ed' = extending(k, f))
             /\ \E r, c : CaretAt(k, f, r, c) /\ Inside(k.lines, r, c)
  <2>1. CASE \E f \in {left(k), right(k)} : Edit(extending(k, f)) \/ Edit(plain(f))
    BY <1>2, <2>1 DEF Edit
  <2>2. CASE \E r \in {k.row - 1, k.row + 1} : Edit(plain(to_row(k, r)))
    BY <1>3, <2>2 DEF Edit
  <2>3. CASE Edit(plain([k EXCEPT !.col = 0]))
    BY <1>4, <1>6, <2>3 DEF Edit
  <2>4. CASE Edit(plain([k EXCEPT !.col = Len(here(k))]))
    BY <1>4, <1>6, <2>4 DEF Edit
  <2>5. CASE \E r \in DOMAIN k.lines : \E c \in 0..Len(k.lines[r]) : Edit(plain([k EXCEPT !.row = r, !.col = c]))
    BY <1>5, <2>5 DEF Edit
  <2>. QED  BY <2>1, <2>2, <2>3, <2>4, <2>5 DEF Move
<1>. QED  BY <1>7, Moves

\* select_all
LEMMA SelectsAll ==
  ASSUME NEW k, DocOK(k)
  PROVE  DocOK(select_all(k))
<1>1. k \in Docs /\ Fits(k.lines) /\ k.lines \in Seq(Texts) /\ Len(k.lines) \in Nat \ {0}
      /\ \A i \in 1..Len(k.lines) : Len(k.lines[i]) \in Nat
  <2>1. k \in Docs /\ Fits(k.lines)
    BY DEF DocOK
  <2>. QED  BY <2>1, FitsProperties, EditorSizes
<1>2. PICK r, c : r = Len(k.lines) /\ c = Len(k.lines[r])
  OBVIOUS
<1>3. r \in Nat /\ c \in Nat /\ Inside(k.lines, r, c) /\ Inside(k.lines, 1, 0)
  BY <1>1, <1>2 DEF Inside
<1>4. Last(k.lines) = k.lines[r]
  BY <1>2 DEF Last
<1>5. select_all(k) = [k EXCEPT !.sel = << 1, 0 >>, !.row = r, !.col = c]
  BY <1>2, <1>4 DEF select_all
<1>6. PICK s : s = << 1, 0 >>
  OBVIOUS
<1>7. s \in Nat \X Nat /\ Inside(k.lines, s[1], s[2])
  BY <1>3, <1>6
<1>8. select_all(k) = [k EXCEPT !.sel = s, !.row = r, !.col = c]
  BY <1>5, <1>6
<1>9. Has(select_all(k), k.lines, r, c, s)
  BY ONLY <1>1, <1>3, <1>7, <1>8 DEF Has, Docs
<1>. QED  BY <1>1, <1>3, <1>7, <1>9, Ordered

\* A new document.
LEMMA Opens ==
  ASSUME NEW ls, Fits(ls)
  PROVE  DocOK(document(ls))
<1>1. ls \in Seq(Texts) /\ Len(ls) \in Nat \ {0} /\ Len(ls[1]) \in Nat
  BY FitsProperties, EditorSizes
<1>2. Inside(ls, 1, 0)
  BY <1>1 DEF Inside
<1>. QED  BY <1>2, DocParts, NoSelection DEF document

\* An empty one.
LEMMA EmptyFits == Fits(<<<<>>>>)
<1>1. <<>> \in Texts /\ Len(<<>>) = 0
  BY DEF Texts
<1>2. PICK x : x = <<>>
  OBVIOUS
<1>3. <<x>> \in Seq(Texts) /\ Len(<<x>>) = 1 /\ <<x>>[1] = x
  BY <1>1, <1>2
<1>4. \A i \in 1..1 : i = 1
  OBVIOUS
<1>. QED  BY <1>1, <1>2, <1>3, <1>4, EditorSizes DEF Fits

-----------------------------------------------------------------------------
(* The clipboard, and what is pasted.                                      *)

\* A set of numbers up to a bound has a greatest.
LEMMA MaxBelow ==
  ASSUME NEW N \in Nat, NEW I \in SUBSET (0..N), I # {}
  PROVE  Max(I) \in I
<1>. DEFINE J == {N - i : i \in I}
<1>1. J \in SUBSET Nat /\ J # {}
  <2>1. \A i \in 0..N : N - i \in Nat
    OBVIOUS
  <2>2. \A i \in I : N - i \in Nat
    BY <2>1
  <2>. QED  BY <2>2
<1>2. PICK m \in J : \A j \in J : m <= j
  BY <1>1, LeastMember
<1>3. PICK i \in I : m = N - i
  BY <1>2
<1>4. ASSUME NEW j \in I  PROVE j <= i
  <2>1. m <= N - j
    BY <1>2
  <2>2. i \in 0..N /\ j \in 0..N
    OBVIOUS
  <2>. QED  BY <1>3, <2>1, <2>2
<1>5. \E x \in I : \A y \in I : x >= y
  BY <1>4
<1>. QED  BY <1>5 DEF Max

\* What is behind a place, wherever that is.
LEMMA AfterType ==
  ASSUME NEW s \in Texts, NEW n \in Nat
  PROVE  after(s, n) \in Texts
<1>1. Len(s) \in Nat /\ \A i \in 1..Len(s) : s[i] \in Byte
  BY LenProperties, ElementOfSeq DEF Texts
<1>2. \A i \in n + 1..Len(s) : s[i] \in Byte
  BY <1>1
<1>. QED  BY ONLY <1>1, <1>2, SubSeqProperties, n \in Nat DEF after, Texts

\* What is in front of one in the text.
LEMMA UptoType ==
  ASSUME NEW s \in Texts, NEW n \in 0..Len(s)
  PROVE  upto(s, n) \in Texts /\ Len(upto(s, n)) = n
BY UptoProperties DEF Texts

\* over
LEMMA OverType ==
  ASSUME NEW clip \in Texts, NEW s \in Texts
  PROVE  over(clip, s) \in Texts
<1>1. Len(s) \in Nat
  BY LenProperties DEF Texts
<1>2. PICK b : b = s \o after(clip, Len(s))
  OBVIOUS
<1>3. b \in Texts
  <2>1. after(clip, Len(s)) \in Seq(Byte) /\ s \in Seq(Byte)
    BY <1>1, AfterType DEF Texts
  <2>2. b \in Seq(Byte)
    BY ONLY <1>2, <2>1, ConcatProperties
  <2>. QED  BY <2>2 DEF Texts
<1>4. Len(b) \in Nat /\ DOMAIN b = 1..Len(b)
  BY <1>3, LenProperties DEF Texts
<1>5. PICK I : I = {0} \cup {i \in DOMAIN b : b[i] # NUL}
  OBVIOUS
<1>6. I \in SUBSET (0..Len(b)) /\ I # {}
  BY <1>4, <1>5
<1>7. Max(I) \in 0..Len(b)
  BY <1>4, <1>6, MaxBelow
<1>8. over(clip, s) = upto(b, Max(I))
  BY <1>2, <1>5 DEF over
<1>. QED  BY <1>3, <1>7, <1>8, UptoType

\* content
LEMMA ContentType ==
  ASSUME NEW clip \in Texts
  PROVE  content(clip) \in Texts
<1>1. Len(clip) \in Nat
  BY LenProperties DEF Texts
<1>2. PICK I : I = {i \in 1..Len(clip) : clip[i] = NUL}
  OBVIOUS
<1>3. CASE I = {}
  <2>1. SelectInSeq(clip, LAMBDA x : x = NUL) = 0
    BY <1>2, <1>3 DEF SelectInSeq
  <2>. QED  BY <2>1 DEF content
<1>4. CASE I # {}
  <2>1. SelectInSeq(clip, LAMBDA x : x = NUL) = Min(I)
    BY <1>2, <1>4 DEF SelectInSeq
  <2>2. I \in SUBSET Nat
    BY <1>1, <1>2
  <2>3. PICK n : n = Min(I)
    OBVIOUS
  <2>4. n \in 1..Len(clip)
    BY <1>2, <1>4, <2>2, <2>3, MinPosition
  <2>5. content(clip) = upto(clip, n - 1) /\ n - 1 \in 0..Len(clip)
    BY <1>1, <2>1, <2>3, <2>4 DEF content
  <2>. QED  BY <2>5, UptoType
<1>. QED  BY <1>3, <1>4

\* selected
LEMMA SelectedType ==
  ASSUME NEW k, DocOK(k), k.sel # NOSEL, NEW r \in 1..Len(k.lines)
  PROVE  selected(k, r) \in Texts
<1>1. PICK a, b : a = first(k) /\ b = last(k)
  OBVIOUS
<1>2. Inside(k.lines, a[1], a[2]) /\ Inside(k.lines, b[1], b[2])
  BY <1>1, EndsInOrder
<1>3. PICK u : u = k.lines[r]
  OBVIOUS
<1>4. u \in Texts /\ Len(u) \in Nat /\ \A i \in 1..Len(u) : u[i] \in Byte
  <2>1. u \in Texts
    BY <1>3, FitsProperties DEF DocOK
  <2>. QED  BY <2>1, LenProperties, ElementOfSeq DEF Texts
<1>5. PICK from, to : /\ from = IF r = a[1] THEN a[2] + 1 ELSE 1
                      /\ to = IF r = b[1] THEN b[2] ELSE Len(u)
  OBVIOUS
<1>6. from \in Nat \ {0} /\ to \in Nat /\ to <= Len(u)
  <2>1. a[2] \in 0..Len(k.lines[a[1]]) /\ b[2] \in 0..Len(k.lines[b[1]])
    BY <1>2 DEF Inside
  <2>2. r = b[1] => b[2] \in 0..Len(u)
    BY <1>3, <2>1
  <2>. QED  BY <1>4, <1>5, <2>1, <2>2
<1>7. \A i \in from..to : u[i] \in Byte
  BY <1>4, <1>6
<1>8. SubSeq(u, from, to) \in Seq(Byte)
  BY ONLY <1>6, <1>7, SubSeqProperties
<1>9. selected(k, r) = SubSeq(u, from, to)
  BY <1>1, <1>3, <1>5 DEF selected
<1>. QED  BY <1>8, <1>9 DEF Texts

\* What every step keeps holds after the last.
LEMMA StaysIn ==
  ASSUME NEW N \in Nat, NEW V, NEW f, f[0] \in V, \A n \in 1..N : f[n - 1] \in V => f[n] \in V
  PROVE  f[N] \in V
<1>. DEFINE P == {n \in Nat : n <= N => f[n] \in V}
<1>1. 0 \in P
  OBVIOUS
<1>2. ASSUME NEW n \in Nat, n \in P  PROVE n + 1 \in P
  <2>1. n + 1 <= N => n + 1 \in 1..N /\ (n + 1) - 1 = n /\ n <= N
    OBVIOUS
  <2>. QED  BY <1>2, <2>1
<1>. HIDE DEF P
<1>3. N \in P
  BY <1>1, <1>2, SetInduction
<1>. QED  BY <1>3 DEF P

\* The line break that follows a part, and a part.
LEMMA SelectedLinesType ==
  ASSUME NEW k, DocOK(k), k.sel # NOSEL
  PROVE  selected_lines(k) \in Texts
<1>. DEFINE fits(s, t) == Len(s) + Len(t) < ClipSize - 2
            joined(s, t) == IF fits(s, t) THEN s \o t ELSE s
            add(s, r) == IF r < last(k)[1] /\ fits(joined(s, selected(k, r)), <<>>)
                           THEN Append(joined(s, selected(k, r)), NL) ELSE joined(s, selected(k, r))
            N == last(k)[1] - first(k)[1] + 1
            next(n, v) == add(v, first(k)[1] + n - 1)
            q == [i \in 1..N |-> first(k)[1] + i - 1]
            steps == CHOOSE f : f = [n \in 0..Len(q) |-> IF n = 0 THEN <<>> ELSE add(f[n - 1], q[n])]
<1>1. ASSUME NEW s \in Texts, NEW r \in 1..Len(k.lines)  PROVE add(s, r) \in Texts
  <2>1. PICK t : t = selected(k, r)
    OBVIOUS
  <2>2. s \in Seq(Byte) /\ t \in Seq(Byte)
    BY <2>1, SelectedType DEF Texts
  <2>3. s \o t \in Seq(Byte)
    BY ONLY <2>2, ConcatProperties
  <2>4. PICK u : u = joined(s, t)
    OBVIOUS
  <2>5. u \in Seq(Byte)
    BY <2>2, <2>3, <2>4
  <2>6. Append(u, NL) \in Seq(Byte)
    BY <2>5, EditorSizes, AppendProperties
  <2>. QED  BY <2>1, <2>4, <2>5, <2>6 DEF Texts
<1>2. /\ first(k)[1] \in 1..Len(k.lines) /\ last(k)[1] \in 1..Len(k.lines) /\ first(k)[1] <= last(k)[1]
      /\ Len(k.lines) \in Nat
  <2>1. Len(k.lines) \in Nat
    BY FitsProperties DEF DocOK
  <2>. QED  BY <2>1, EndsInOrder DEF Inside
<1>3. N \in Nat /\ \A n \in 1..N : first(k)[1] + n - 1 \in 1..Len(k.lines)
  BY <1>2
<1>4. Len(q) = N /\ \A n \in 1..N : q[n] = first(k)[1] + n - 1
  BY <1>3
<1>5. selected_lines(k) = steps[Len(q)]
  BY DEF selected_lines, Loop
<1>6. \A g : g = [n \in 0..Len(q) |-> IF n = 0 THEN <<>> ELSE add(g[n - 1], q[n])]
               => steps = [n \in 0..Len(q) |-> IF n = 0 THEN <<>> ELSE add(steps[n - 1], q[n])]
  BY Zenon DEF steps
<1>7. <<>> \in Texts
  BY DEF Texts
<1>8. ASSUME NEW n \in 1..N, NEW v \in Texts  PROVE add(v, q[n]) \in Texts
  <2>1. q[n] \in 1..Len(k.lines)
    BY <1>3, <1>4
  <2>. QED  BY <1>1, <2>1
<1>. HIDE DEF add, steps, q, N
<1>9. PICK g \in [0..N -> Texts] : g[0] = <<>> /\ \A n \in 1..N : g[n] = add(g[n - 1], q[n])
  <2>. DEFINE step == [p \in (1..N) \X Texts |-> add(p[2], q[p[1]])]
  <2>1. step \in [(1..N) \X Texts -> Texts]
    BY <1>8
  <2>2. ASSUME NEW n \in 1..N, NEW v \in Texts  PROVE step[<<n, v>>] = add(v, q[n])
    OBVIOUS
  <2>. HIDE DEF step
  <2>3. PICK g \in [0..N -> Texts] : g[0] = <<>> /\ \A n \in 1..N : g[n] = step[<<n, g[n - 1]>>]
    <3>1. Recursion(N, Texts, <<>>, step)
      BY <1>3, <1>7, <2>1 DEF Recursion
    <3>2. PICK g : Solves(g, N, Texts, <<>>, step)
      BY <3>1, RecursionExists
    <3>. QED  BY <3>2 DEF Solves
  <2>4. ASSUME NEW n \in 1..N  PROVE g[n] = add(g[n - 1], q[n])
    <3>1. n - 1 \in 0..N
      BY <1>3
    <3>. QED  BY <2>2, <2>3, <3>1
  <2>. QED  BY <2>3, <2>4
<1>10. g = [n \in 0..Len(q) |-> IF n = 0 THEN <<>> ELSE add(g[n - 1], q[n])]
  <2>. DEFINE h == [n \in 0..Len(q) |-> IF n = 0 THEN <<>> ELSE add(g[n - 1], q[n])]
  <2>1. ASSUME NEW n \in 0..N  PROVE g[n] = h[n]
    <3>1. n = 0 \/ n \in 1..N
      BY <1>3
    <3>. QED  BY <1>4, <1>9, <3>1
  <2>. QED  BY <1>4, <1>9, <2>1
<1>11. steps = [n \in 0..Len(q) |-> IF n = 0 THEN <<>> ELSE add(steps[n - 1], q[n])]
  BY <1>6, <1>10, Zenon
<1>12. steps[0] = <<>> /\ \A n \in 1..N : steps[n] = add(steps[n - 1], q[n])
  <2>1. 0 \in 0..N /\ \A n \in 1..N : n \in 0..N /\ n # 0
    BY <1>3
  <2>. QED  BY <1>4, <1>11, <2>1
<1>13. steps[0] \in Texts
  BY <1>7, <1>12
<1>14. \A n \in 1..N : steps[n - 1] \in Texts => steps[n] \in Texts
  BY <1>8, <1>12
<1>15. steps[N] \in Texts
  BY <1>3, <1>13, <1>14, StaysIn
<1>. QED  BY <1>4, <1>5, <1>15

\* pieces
LEMMA PiecesType ==
  ASSUME NEW s \in Texts
  PROVE  pieces(s) \in Seq(Texts)
<1>. DEFINE V == [done : Seq(Texts), rest : Texts]
            none == [done |-> <<>>, rest |-> <<>>]
            add(p, x) == IF x = NL THEN [done |-> Append(p.done, p.rest), rest |-> <<>>]
                         ELSE IF Len(p.rest) = MaxLen THEN [done |-> Append(p.done, p.rest), rest |-> <<x>>]
                         ELSE [p EXCEPT !.rest = Append(@, x)]
            q == s
            N == Len(s)
            steps == CHOOSE f : f = [n \in 0..Len(q) |-> IF n = 0 THEN none ELSE add(f[n - 1], q[n])]
            all == Loop(s, none, add)
<1>1. ASSUME NEW p \in V, NEW x \in Byte  PROVE add(p, x) \in V
  <2>1. p.done \in Seq(Texts) /\ p.rest \in Texts
    OBVIOUS
  <2>2. Append(p.done, p.rest) \in Seq(Texts)
    BY <2>1, AppendProperties
  <2>3. Append(p.rest, x) \in Texts /\ <<x>> \in Texts /\ <<>> \in Texts
    BY <2>1, AppendProperties DEF Texts
  <2>. QED  BY <2>1, <2>2, <2>3
<1>2. pieces(s) = IF all.rest = <<>> THEN all.done ELSE Append(all.done, all.rest)
  BY DEF pieces
<1>3. N \in Nat /\ \A n \in 1..N : q[n] \in Byte
  BY LenProperties, ElementOfSeq DEF Texts
<1>4. Len(q) = N
  OBVIOUS
<1>7. none \in V
  BY DEF Texts
<1>8. ASSUME NEW n \in 1..N, NEW v \in V  PROVE add(v, q[n]) \in V
  BY <1>1, <1>3
<1>. HIDE DEF none
<1>5. all = steps[Len(q)]
  BY DEF Loop
<1>6. \A g : g = [n \in 0..Len(q) |-> IF n = 0 THEN none ELSE add(g[n - 1], q[n])]
               => steps = [n \in 0..Len(q) |-> IF n = 0 THEN none ELSE add(steps[n - 1], q[n])]
  BY Zenon DEF steps
<1>. HIDE DEF add, steps, q, V, N
<1>9. PICK g \in [0..N -> V] : g[0] = none /\ \A n \in 1..N : g[n] = add(g[n - 1], q[n])
  <2>. DEFINE step == [p \in (1..N) \X V |-> add(p[2], q[p[1]])]
  <2>1. step \in [(1..N) \X V -> V]
    BY <1>8
  <2>2. ASSUME NEW n \in 1..N, NEW v \in V  PROVE step[<<n, v>>] = add(v, q[n])
    OBVIOUS
  <2>. HIDE DEF step
  <2>3. PICK g \in [0..N -> V] : g[0] = none /\ \A n \in 1..N : g[n] = step[<<n, g[n - 1]>>]
    <3>1. Recursion(N, V, none, step)
      BY <1>3, <1>7, <2>1 DEF Recursion
    <3>2. PICK g : Solves(g, N, V, none, step)
      BY <3>1, RecursionExists
    <3>. QED  BY <3>2 DEF Solves
  <2>4. ASSUME NEW n \in 1..N  PROVE g[n] = add(g[n - 1], q[n])
    <3>1. n - 1 \in 0..N
      BY <1>3
    <3>. QED  BY <2>2, <2>3, <3>1
  <2>. QED  BY <2>3, <2>4
<1>10. g = [n \in 0..Len(q) |-> IF n = 0 THEN none ELSE add(g[n - 1], q[n])]
  <2>. DEFINE h == [n \in 0..Len(q) |-> IF n = 0 THEN none ELSE add(g[n - 1], q[n])]
  <2>1. ASSUME NEW n \in 0..N  PROVE g[n] = h[n]
    <3>1. n = 0 \/ n \in 1..N
      BY <1>3
    <3>. QED  BY <1>4, <1>9, <3>1
  <2>. QED  BY <1>4, <1>9, <2>1
<1>11. steps = [n \in 0..Len(q) |-> IF n = 0 THEN none ELSE add(steps[n - 1], q[n])]
  BY <1>6, <1>10, Zenon
<1>12. steps[0] = none /\ \A n \in 1..N : steps[n] = add(steps[n - 1], q[n])
  <2>1. 0 \in 0..N /\ \A n \in 1..N : n \in 0..N /\ n # 0
    BY <1>3
  <2>. QED  BY <1>4, <1>11, <2>1
<1>13. steps[0] \in V
  BY <1>7, <1>12
<1>14. \A n \in 1..N : steps[n - 1] \in V => steps[n] \in V
  BY <1>8, <1>12
<1>15. steps[N] \in V
  BY <1>3, <1>13, <1>14, StaysIn
<1>16. all \in V
  BY <1>4, <1>5, <1>15
<1>. HIDE DEF all
<1>17. all.done \in Seq(Texts) /\ all.rest \in Texts
  BY <1>16 DEF V
<1>. QED  BY <1>2, <1>17, AppendProperties

\* teditor_paste_clipboard
LEMMA Pastes ==
  ASSUME NEW k, DocOK(k), NEW clip \in Texts
  PROVE  DocOK(teditor_paste_clipboard(k, clip))
<1>. DEFINE V == {f \in Docs : DocOK(f) /\ f.sel = NOSEL}
            insert(f, s) == insert_here(break_here(f), s)
            p == pieces(content(clip))
            base == insert_here(teditor_delete_selection(k), Head(p))
            q == Tail(p)
            r == Loop(q, base, insert)
            N == Len(q)
            steps == CHOOSE f : f = [n \in 0..Len(q) |-> IF n = 0 THEN base ELSE insert(f[n - 1], q[n])]
<1>1. ASSUME NEW f \in V, NEW s \in Texts  PROVE insert(f, s) \in V
  <2>1. PICK g : g = break_here(f)
    OBVIOUS
  <2>2. DocOK(g) /\ g.sel = NOSEL
    BY <2>1, BreaksHere
  <2>3. DocOK(insert_here(g, s)) /\ insert_here(g, s).sel = NOSEL
    BY <2>2, InsertsHere
  <2>. QED  BY <2>1, <2>3 DEF DocOK
<1>2. p \in Seq(Texts)
  BY ContentType, PiecesType
<1>x. teditor_paste_clipboard(k, clip) = IF p = <<>> THEN k ELSE r
  BY DEF teditor_paste_clipboard
<1>5. r = steps[Len(q)]
  BY DEF Loop
<1>. HIDE DEF p, r
<1>. SUFFICES ASSUME p # <<>>  PROVE DocOK(r)
  BY <1>x
<1>3. N \in Nat /\ \A n \in 1..N : q[n] \in Texts
  <2>1. q \in Seq(Texts)
    BY <1>2, HeadTailProperties
  <2>. QED  BY <2>1, LenProperties, ElementOfSeq
<1>4. Len(q) = N
  OBVIOUS
<1>7. base \in V
  <2>1. PICK g : g = teditor_delete_selection(k)
    OBVIOUS
  <2>2. DocOK(g) /\ g.sel = NOSEL
    BY <2>1, Deletes
  <2>3. Head(p) \in Texts
    BY <1>2, HeadTailProperties
  <2>4. DocOK(insert_here(g, Head(p))) /\ insert_here(g, Head(p)).sel = NOSEL
    BY <2>2, <2>3, InsertsHere
  <2>. QED  BY <2>1, <2>4 DEF DocOK
<1>8. ASSUME NEW n \in 1..N, NEW v \in V  PROVE insert(v, q[n]) \in V
  BY <1>1, <1>3
<1>. HIDE DEF base
<1>6. \A g : g = [n \in 0..Len(q) |-> IF n = 0 THEN base ELSE insert(g[n - 1], q[n])]
               => steps = [n \in 0..Len(q) |-> IF n = 0 THEN base ELSE insert(steps[n - 1], q[n])]
  BY Zenon DEF steps
<1>. HIDE DEF insert, steps, q, V, N
<1>9. PICK g \in [0..N -> V] : g[0] = base /\ \A n \in 1..N : g[n] = insert(g[n - 1], q[n])
  <2>. DEFINE step == [z \in (1..N) \X V |-> insert(z[2], q[z[1]])]
  <2>1. step \in [(1..N) \X V -> V]
    BY <1>8
  <2>2. ASSUME NEW n \in 1..N, NEW v \in V  PROVE step[<<n, v>>] = insert(v, q[n])
    OBVIOUS
  <2>. HIDE DEF step
  <2>3. PICK g \in [0..N -> V] : g[0] = base /\ \A n \in 1..N : g[n] = step[<<n, g[n - 1]>>]
    <3>1. Recursion(N, V, base, step)
      BY <1>3, <1>7, <2>1 DEF Recursion
    <3>2. PICK g : Solves(g, N, V, base, step)
      BY <3>1, RecursionExists
    <3>. QED  BY <3>2 DEF Solves
  <2>4. ASSUME NEW n \in 1..N  PROVE g[n] = insert(g[n - 1], q[n])
    <3>1. n - 1 \in 0..N
      BY <1>3
    <3>. QED  BY <2>2, <2>3, <3>1
  <2>. QED  BY <2>3, <2>4
<1>10. g = [n \in 0..Len(q) |-> IF n = 0 THEN base ELSE insert(g[n - 1], q[n])]
  <2>. DEFINE h == [n \in 0..Len(q) |-> IF n = 0 THEN base ELSE insert(g[n - 1], q[n])]
  <2>1. ASSUME NEW n \in 0..N  PROVE g[n] = h[n]
    <3>1. n = 0 \/ n \in 1..N
      BY <1>3
    <3>. QED  BY <1>4, <1>9, <3>1
  <2>. QED  BY <1>4, <1>9, <2>1
<1>11. steps = [n \in 0..Len(q) |-> IF n = 0 THEN base ELSE insert(steps[n - 1], q[n])]
  BY <1>6, <1>10, Zenon
<1>12. steps[0] = base /\ \A n \in 1..N : steps[n] = insert(steps[n - 1], q[n])
  <2>1. 0 \in 0..N /\ \A n \in 1..N : n \in 0..N /\ n # 0
    BY <1>3
  <2>. QED  BY <1>4, <1>11, <2>1
<1>13. steps[0] \in V
  BY <1>7, <1>12
<1>14. \A n \in 1..N : steps[n - 1] \in V => steps[n] \in V
  BY <1>8, <1>12
<1>15. steps[N] \in V
  BY <1>3, <1>13, <1>14, StaysIn
<1>. QED  BY <1>4, <1>5, <1>15 DEF V

\* teditor_copy_selection
LEMMA Copies ==
  ASSUME NEW k, DocOK(k), NEW clip \in Texts
  PROVE  teditor_copy_selection(k, clip) \in Texts
<1>0. ClipSize - 1 \in Nat /\ ClipSize \in Nat
  BY EditorAssumption
<1>1. ASSUME NEW s \in Texts  PROVE upto(s, Min({Len(s), ClipSize - 1})) \in Texts
  <2>1. Len(s) \in Nat
    BY LenProperties DEF Texts
  <2>2. PICK n, c : n = Min({Len(s), c}) /\ c = ClipSize - 1
    OBVIOUS
  <2>3. n \in 0..Len(s)
    BY <1>0, <2>1, <2>2, MinPair
  <2>. QED  BY <2>2, <2>3, UptoType
<1>2. ASSUME NEW s \in Texts  PROVE Append(s, NUL) \in Texts
  BY EditorSizes, AppendProperties DEF Texts
<1>3. CASE k.sel = NOSEL
  <2>1. here(k) \in Texts
    BY DocFacts
  <2>. QED  BY <1>1, <1>3, <2>1 DEF teditor_copy_selection
<1>4. CASE k.sel # NOSEL /\ first(k)[1] = last(k)[1]
  <2>1. PICK s : s = selected(k, k.row)
    OBVIOUS
  <2>2. s \in Texts
    BY <1>4, <2>1, SelectedType, DocFacts DEF Inside
  <2>3. teditor_copy_selection(k, clip) = over(clip, Append(upto(s, Min({Len(s), ClipSize - 1})), NUL))
    BY <1>4, <2>1 DEF teditor_copy_selection
  <2>. QED  BY <1>1, <1>2, <2>2, <2>3, OverType
<1>5. CASE k.sel # NOSEL /\ first(k)[1] # last(k)[1]
  <2>1. PICK s : s = selected_lines(k)
    OBVIOUS
  <2>2. s \in Texts
    BY <1>5, <2>1, SelectedLinesType
  <2>3. PICK u : u = IF s = <<>> \/ Last(s) = NL THEN Append(s, NUL) ELSE s
    OBVIOUS
  <2>4. u \in Texts
    BY <1>2, <2>2, <2>3
  <2>5. teditor_copy_selection(k, clip) = over(clip, u)
    BY <1>5, <2>1, <2>3 DEF teditor_copy_selection
  <2>. QED  BY <2>4, <2>5, OverType
<1>. QED  BY <1>3, <1>4, <1>5

\* teditor_load_file
LEMMA Loads ==
  ASSUME NEW lines \in Files
  PROVE  LET n == Min({Len(lines), TEDITOR_MAX_LINES})
         IN  DocOK(document(IF n = 0 THEN <<<<>>>> ELSE [i \in 1 .. n |-> at_most(lines[i])]))
<1>. DEFINE n == Min({Len(lines), TEDITOR_MAX_LINES})
            w == [i \in 1 .. n |-> at_most(lines[i])]
<1>1. lines \in Seq(Seq(Chars))
  BY EditorAssumption
<1>2. Len(lines) \in Nat /\ \A i \in 1..Len(lines) : lines[i] \in Seq(Chars)
  BY <1>1, LenProperties, ElementOfSeq
<1>3. n = IF Len(lines) <= TEDITOR_MAX_LINES THEN Len(lines) ELSE TEDITOR_MAX_LINES
  BY <1>2, EditorSizes, MinPair
<1>4. n \in Nat /\ n <= Len(lines) /\ n <= TEDITOR_MAX_LINES
  BY <1>2, <1>3, EditorSizes
<1>. HIDE DEF n
<1>5. ASSUME NEW i \in 1..n  PROVE at_most(lines[i]) \in Texts /\ Len(at_most(lines[i])) <= MaxLen
  <2>1. PICK s : s = lines[i]
    OBVIOUS
  <2>2. s \in Texts
    <3>1. i \in 1..Len(lines)
      BY <1>2, <1>4
    <3>. QED  BY <1>2, <2>1, <3>1, CharsAreText
  <2>3. Len(s) \in Nat
    BY <2>2, LenProperties DEF Texts
  <2>. QED  BY <2>1, <2>2, <2>3, AtMostProperties, EditorSizes
<1>6. w \in [1..n -> Texts]
  BY <1>5
<1>7. w \in Seq(Texts) /\ Len(w) = n
  <2>1. w \in Seq(Texts)
    BY <1>4, <1>6, IsASeq
  <2>2. Len(w) = n
    <3>1. PICK m \in Nat : m = n
      BY <1>4
    <3>2. Len([i \in 1..m |-> at_most(lines[i])]) = m
      BY ONLY m \in Nat
    <3>. QED  BY <3>1, <3>2
  <2>. QED  BY <2>1, <2>2
<1>8. ASSUME n # 0  PROVE Fits(w)
  <2>1. Len(w) \in 1..TEDITOR_MAX_LINES
    BY <1>4, <1>7, <1>8, EditorSizes
  <2>2. \A i \in 1..Len(w) : Len(w[i]) <= MaxLen
    BY <1>5, <1>7
  <2>. QED  BY <1>7, <2>1, <2>2 DEF Fits
<1>. HIDE DEF w
<1>. QED  BY <1>8, EmptyFits, Opens DEF n, w

\* A step of the editor keeps the caret, the selection and the clipboard in order.
LEMMA EditorStep ==
  ASSUME EditorInv, EditorNext
  PROVE  EditorInv'
<1>. USE DEF EditorInv
<1>1. CASE Move
  <2>1. UNCHANGED g_clipboard
    BY <1>1 DEF Move, Edit
  <2>. QED  BY <1>1, <2>1, MovesInside
<1>2. CASE Write
  <2>1. ASSUME NEW ch \in Chars, Edit(teditor_insert_char(ed, ch))  PROVE EditorInv'
    BY <2>1, InsertsChar DEF Edit
  <2>2. ASSUME NEW s \in Commits, Edit(teditor_insert_text(ed, s))  PROVE EditorInv'
    <3>1. s \in Texts
      BY EditorAssumption, CharsAreText
    <3>. QED  BY <2>2, <3>1, Deletes, InsertsHere DEF Edit, teditor_insert_text
  <2>3. CASE Edit(teditor_insert_newline(ed))
    BY <2>3, Deletes, BreaksHere DEF Edit, teditor_insert_newline
  <2>4. CASE Edit(teditor_backspace(ed))
    BY <2>4, Backspaces DEF Edit
  <2>5. CASE Edit(teditor_delete_char_forward(ed))
    BY <2>5, DeletesForward DEF Edit
  <2>. QED  BY <1>2, <2>1, <2>2, <2>3, <2>4, <2>5 DEF Write
<1>3. CASE Copy
  BY <1>3, Copies DEF Copy
<1>4. CASE Cut
  BY <1>4, Copies, Deletes DEF Cut
<1>5. CASE Paste
  BY <1>5, Pastes DEF Paste, Edit
<1>6. CASE SelectAll
  BY <1>6, SelectsAll DEF SelectAll, Edit
<1>7. CASE New
  BY <1>7, EmptyFits, Opens DEF New, Edit
<1>8. CASE Load
  BY <1>8, Loads DEF Load, Edit
<1>. QED  BY <1>1, <1>2, <1>3, <1>4, <1>5, <1>6, <1>7, <1>8 DEF EditorNext

\* The caret and the start of the selection stay inside the text, and the text
\* inside its array, whatever is cut, pasted, joined or loaded (t_editor.c), for
\* any number of lines and columns, any size of the clipboard and any documents.
THEOREM CaretStaysInside == MCSpec => []CaretInside
<1>1. MCInit => EditorInv
  <2>1. <<>> \in Texts
    BY DEF Texts
  <2>. QED  BY <2>1, EmptyFits, Opens DEF MCInit, EditorInit, EditorInv
<1>2. EditorInv /\ [MCNext]_mcvars => EditorInv'
  BY EditorStep DEF MCNext, mcvars, edvars, EditorInv
<1>3. EditorInv => CaretInside
  <2>. SUFFICES ASSUME DocOK(ed)  PROVE CaretInside
    BY DEF EditorInv
  <2>1. /\ Fits(ed.lines) /\ Inside(ed.lines, ed.row, ed.col)
        /\ ed.sel # NOSEL => Inside(ed.lines, ed.sel[1], ed.sel[2])
    BY DEF DocOK
  <2>2. DOMAIN ed.lines = 1..Len(ed.lines)
    BY <2>1, FitsProperties
  <2>. QED  BY <2>1, <2>2 DEF CaretInside, Fits, Inside, here
<1>. QED  BY <1>1, <1>2, <1>3, PTL DEF MCSpec

-----------------------------------------------------------------------------
(* The input method: what stands for which letters.                        *)

Spelling == Seq(Letters)

\* g[n] is the text of the first n parts of p.
JoinsTo(p, g) == /\ g \in [0..Len(p) -> Spelling] /\ g[0] = <<>>
                 /\ \A n \in 1..Len(p) : g[n] = g[n - 1] \o p[n]

\* There are such texts for every sequence of parts.
LEMMA JoinsExist ==
  ASSUME NEW p \in Seq(Spelling)
  PROVE  \E g : JoinsTo(p, g)
<1>. DEFINE N == Len(p)
            step == [z \in (1..N) \X Spelling |-> z[2] \o p[z[1]]]
<1>1. N \in Nat /\ \A n \in 1..N : p[n] \in Spelling
  BY LenProperties, ElementOfSeq
<1>2. ASSUME NEW n \in 1..N, NEW v \in Spelling  PROVE v \o p[n] \in Spelling
  <2>1. v \in Seq(Letters) /\ p[n] \in Seq(Letters)
    BY <1>1 DEF Spelling
  <2>. QED  BY ONLY <2>1, ConcatProperties DEF Spelling
<1>. HIDE DEF N
<1>3. step \in [(1..N) \X Spelling -> Spelling]
  BY <1>2
<1>4. ASSUME NEW n \in 1..N, NEW v \in Spelling  PROVE step[<<n, v>>] = v \o p[n]
  OBVIOUS
<1>. HIDE DEF step
<1>5. <<>> \in Spelling
  BY DEF Spelling
<1>6. Recursion(N, Spelling, <<>>, step)
  BY <1>1, <1>3, <1>5 DEF Recursion
<1>7. PICK g : Solves(g, N, Spelling, <<>>, step)
  BY <1>6, RecursionExists
<1>8. g \in [0..N -> Spelling] /\ g[0] = <<>> /\ \A n \in 1..N : g[n] = step[<<n, g[n - 1]>>]
  BY <1>7 DEF Solves
<1>9. ASSUME NEW n \in 1..N  PROVE g[n] = g[n - 1] \o p[n]
  <2>1. n - 1 \in 0..N
    BY <1>1
  <2>2. g[n - 1] \in Spelling
    BY <1>8, <2>1
  <2>. QED  BY <1>4, <1>8, <2>2
<1>. QED  BY <1>8, <1>9 DEF JoinsTo, N

\* Any such texts end with FlattenSeq.
LEMMA JoinsFlatten ==
  ASSUME NEW p \in Seq(Spelling), NEW g, JoinsTo(p, g)
  PROVE  FlattenSeq(p) = g[Len(p)]
<1>. DEFINE N == Len(p)
            flatten == CHOOSE f : f = [i \in 1..Len(p) |-> IF i = 1 THEN p[i] ELSE f[i - 1] \o p[i]]
<1>1. N \in Nat /\ (\A n \in 1..N : p[n] \in Spelling) /\ (N = 0 => p = <<>>)
  BY LenProperties, ElementOfSeq, EmptySeq
<1>2. g \in [0..N -> Spelling] /\ g[0] = <<>> /\ \A n \in 1..N : g[n] = g[n - 1] \o p[n]
  BY DEF JoinsTo
<1>3. FlattenSeq(p) = IF Len(p) = 0 THEN p ELSE flatten[Len(p)]
  BY DEF FlattenSeq
<1>4. CASE N = 0
  BY <1>1, <1>2, <1>3, <1>4
<1>5. CASE N # 0
  <2>1. g[1] = p[1]
    <3>1. 1 \in 1..N /\ p[1] \in Seq(Letters)
      BY <1>1, <1>5 DEF Spelling
    <3>2. g[1] = <<>> \o p[1]
      BY <1>2, <3>1
    <3>3. <<>> \o p[1] = p[1]
      BY ONLY <3>1, ConcatEmptySeq
    <3>. QED  BY <3>2, <3>3
  <2>0. PICK h : h = [i \in 1..N |-> g[i]]
    OBVIOUS
  <2>. DEFINE turns(f) == [i \in 1..N |-> IF i = 1 THEN p[i] ELSE f[i - 1] \o p[i]]
  <2>2. h = turns(h)
    <3>1. ASSUME NEW i \in 1..N, i # 1  PROVE g[i] = h[i - 1] \o p[i]
      <4>1. i - 1 \in 1..N
        BY <1>1, <3>1
      <4>2. h[i - 1] = g[i - 1]
        BY <2>0, <4>1
      <4>. QED  BY <1>2, <4>2
    <3>. QED  BY <2>0, <2>1, <3>1
  <2>3. \A f : f = turns(f) => flatten = turns(flatten)
    BY Zenon DEF flatten
  <2>. HIDE DEF flatten, N, turns
  <2>4. flatten = turns(flatten)
    BY <2>2, <2>3
  <2>5. flatten[1] = g[1] /\ \A i \in 1..N : i # 1 => flatten[i] = flatten[i - 1] \o p[i]
    <3>1. 1 \in 1..N
      BY <1>1, <1>5
    <3>2. \A i \in 1..N : flatten[i] = IF i = 1 THEN p[i] ELSE flatten[i - 1] \o p[i]
      BY <2>4, Zenon DEF turns
    <3>. QED  BY <2>1, <3>1, <3>2
  <2>. DEFINE P == {n \in Nat : n + 1 <= N => flatten[n + 1] = g[n + 1]}
  <2>6. 0 \in P
    BY <2>5
  <2>7. ASSUME NEW n \in Nat, n \in P  PROVE n + 1 \in P
    <3>. SUFFICES ASSUME n + 2 <= N  PROVE flatten[n + 2] = g[n + 2]
      OBVIOUS
    <3>1. n + 2 \in 1..N /\ n + 2 # 1 /\ (n + 2) - 1 = n + 1 /\ n + 1 <= N
      BY <1>1
    <3>2. flatten[n + 1] = g[n + 1]
      BY <2>7, <3>1
    <3>. QED  BY <1>2, <2>5, <3>1, <3>2
  <2>. HIDE DEF P
  <2>8. N - 1 \in P
    BY <1>1, <1>5, <2>6, <2>7, SetInduction
  <2>9. flatten[N] = g[N]
    BY <1>1, <2>8 DEF P
  <2>. QED  BY <1>3, <1>5, <2>9 DEF N
<1>. QED  BY <1>4, <1>5 DEF N

\* The parts of a sequence make a text.
LEMMA FlattenType ==
  ASSUME NEW p \in Seq(Spelling)
  PROVE  FlattenSeq(p) \in Spelling
<1>1. PICK g : JoinsTo(p, g)
  BY JoinsExist
<1>2. FlattenSeq(p) = g[Len(p)] /\ Len(p) \in Nat /\ g \in [0..Len(p) -> Spelling]
  BY <1>1, JoinsFlatten, LenProperties DEF JoinsTo
<1>. QED  BY <1>2

\* One part more.
LEMMA FlattenAppend ==
  ASSUME NEW p \in Seq(Spelling), NEW s \in Spelling
  PROVE  FlattenSeq(Append(p, s)) = FlattenSeq(p) \o s
<1>1. PICK g : JoinsTo(p, g)
  BY JoinsExist
<1>2. PICK N, q : N = Len(p) /\ q = Append(p, s)
  OBVIOUS
<1>3. /\ q \in Seq(Spelling) /\ N \in Nat /\ Len(q) = N + 1
      /\ (\A n \in 1..N : q[n] = p[n]) /\ q[N + 1] = s
  BY <1>2, LenProperties, AppendProperties
<1>4. g \in [0..N -> Spelling] /\ g[0] = <<>> /\ (\A n \in 1..N : g[n] = g[n - 1] \o p[n])
      /\ FlattenSeq(p) = g[N]
  BY <1>1, <1>2, JoinsFlatten DEF JoinsTo
<1>5. g[N] \o s \in Spelling
  <2>1. g[N] \in Seq(Letters) /\ s \in Seq(Letters)
    BY <1>3, <1>4 DEF Spelling
  <2>. QED  BY ONLY <2>1, ConcatProperties DEF Spelling
<1>6. PICK t : t = g[N] \o s
  OBVIOUS
<1>. DEFINE h == [n \in 0..N + 1 |-> IF n <= N THEN g[n] ELSE t]
<1>7. h \in [0..N + 1 -> Spelling] /\ h[0] = <<>>
  <2>1. \A n \in 0..N + 1 : n <= N => n \in 0..N
    BY <1>3
  <2>. QED  BY <1>3, <1>4, <1>5, <1>6, <2>1
<1>8. ASSUME NEW n \in 1..N + 1  PROVE h[n] = h[n - 1] \o q[n]
  <2>1. n - 1 \in 0..N + 1 /\ n - 1 <= N /\ n \in 0..N + 1
    BY <1>3
  <2>2. h[n - 1] = g[n - 1]
    BY <2>1
  <2>3. CASE n <= N
    <3>1. n \in 1..N
      BY <1>3, <2>3
    <3>. QED  BY <1>3, <1>4, <2>1, <2>2, <2>3, <3>1
  <2>4. CASE ~(n <= N)
    <3>1. n = N + 1
      BY <1>3, <2>4
    <3>2. h[n] = t
      BY <2>1, <2>4
    <3>3. n - 1 = N /\ q[n] = s
      BY <1>3, <3>1
    <3>. QED  BY <1>6, <2>2, <3>2, <3>3
  <2>. QED  BY <2>3, <2>4
<1>9. h[N + 1] = t
  BY <1>3
<1>. HIDE DEF h
<1>10. JoinsTo(q, h)
  BY <1>3, <1>7, <1>8 DEF JoinsTo
<1>11. FlattenSeq(q) = h[N + 1]
  BY <1>3, <1>10, JoinsFlatten
<1>. QED  BY <1>2, <1>4, <1>6, <1>9, <1>11

\* One part.
LEMMA FlattenOne ==
  ASSUME NEW s \in Spelling
  PROVE  FlattenSeq(<<s>>) = s
<1>1. PICK g : g = [n \in 0..1 |-> IF n = 0 THEN <<>> ELSE s]
  OBVIOUS
<1>2. <<>> \o s = s
  BY ConcatEmptySeq DEF Spelling
<1>3. PICK p : p = <<s>>
  OBVIOUS
<1>4. p \in Seq(Spelling) /\ Len(p) = 1 /\ p[1] = s
  BY <1>3
<1>5. g \in [0..1 -> Spelling] /\ g[0] = <<>> /\ g[1] = s
  BY <1>1 DEF Spelling
<1>6. ASSUME NEW n \in 1..1  PROVE g[n] = g[n - 1] \o p[n]
  <2>1. n = 1 /\ n - 1 = 0
    OBVIOUS
  <2>. QED  BY <1>2, <1>4, <1>5, <2>1
<1>7. JoinsTo(p, g)
  BY <1>4, <1>5, <1>6 DEF JoinsTo
<1>8. FlattenSeq(p) = g[1]
  BY <1>4, <1>7, JoinsFlatten
<1>. QED  BY <1>3, <1>5, <1>8

\* A text begins with its first part.
LEMMA FlattenBegins ==
  ASSUME NEW p \in Seq(Spelling), p # <<>>
  PROVE  \E t \in Spelling : FlattenSeq(p) = p[1] \o t
<1>1. PICK g : JoinsTo(p, g)
  BY JoinsExist
<1>2. PICK N : N = Len(p)
  OBVIOUS
<1>3. /\ N \in Nat \ {0} /\ (\A n \in 1..N : p[n] \in Spelling)
      /\ g \in [0..N -> Spelling] /\ g[0] = <<>> /\ (\A n \in 1..N : g[n] = g[n - 1] \o p[n])
      /\ FlattenSeq(p) = g[N]
  BY <1>1, <1>2, JoinsFlatten, LenProperties, ElementOfSeq, EmptySeq DEF JoinsTo
<1>. DEFINE P == {n \in Nat : n + 1 <= N => \E t \in Spelling : g[n + 1] = p[1] \o t}
<1>4. 0 \in P
  <2>1. 1 \in 1..N /\ p[1] \in Seq(Letters)
    BY <1>3 DEF Spelling
  <2>2. g[1] = g[0] \o p[1]
    <3>1. 1 \in 1..N /\ 1 - 1 = 0
      BY <2>1
    <3>2. \A n \in 1..N : g[n] = g[n - 1] \o p[n]
      BY <1>3
    <3>3. g[1] = g[1 - 1] \o p[1]
      BY ONLY <3>1, <3>2
    <3>. QED  BY ONLY <3>1, <3>3
  <2>3. PICK a : a = p[1]
    OBVIOUS
  <2>4. <<>> \o a = a /\ a \o <<>> = a
    BY ONLY <2>1, <2>3, ConcatEmptySeq
  <2>5. g[1] = p[1] \o <<>>
    <3>1. g[1] = <<>> \o a
      BY <1>3, <2>2, <2>3, Zenon
    <3>. QED  BY ONLY <2>3, <2>4, <3>1
  <2>6. PICK e : e = <<>>
    OBVIOUS
  <2>7. e \in Spelling /\ g[0 + 1] = p[1] \o e
    BY <2>5, <2>6 DEF Spelling
  <2>8. \E t \in Spelling : g[0 + 1] = p[1] \o t
    BY ONLY <2>7, Zenon
  <2>. QED  BY <2>8
<1>5. ASSUME NEW n \in Nat, n \in P  PROVE n + 1 \in P
  <2>. SUFFICES ASSUME n + 2 <= N  PROVE \E t \in Spelling : g[n + 2] = p[1] \o t
    OBVIOUS
  <2>1. n + 2 \in 1..N /\ (n + 2) - 1 = n + 1 /\ n + 1 <= N /\ 1 \in 1..N
    BY <1>3
  <2>2. PICK t \in Spelling : g[n + 1] = p[1] \o t
    BY <1>5, <2>1
  <2>3. t \in Seq(Letters) /\ p[1] \in Seq(Letters) /\ p[n + 2] \in Seq(Letters)
    BY <1>3, <2>1 DEF Spelling
  <2>4. PICK a, c : a = p[1] /\ c = p[n + 2]
    OBVIOUS
  <2>5. a \in Seq(Letters) /\ c \in Seq(Letters) /\ t \in Seq(Letters)
    BY ONLY <2>3, <2>4
  <2>6. PICK u : u = t \o c
    OBVIOUS
  <2>7. u \in Spelling
    BY ONLY <2>5, <2>6, ConcatProperties DEF Spelling
  <2>8. (a \o t) \o c = a \o (t \o c)
    BY ONLY <2>5, ConcatAssociative
  <2>9. g[n + 2] = g[n + 1] \o c
    <3>1. \A i \in 1..N : g[i] = g[i - 1] \o p[i]
      BY <1>3
    <3>2. g[n + 2] = g[(n + 2) - 1] \o p[n + 2]
      BY ONLY <2>1, <3>1
    <3>. QED  BY ONLY <2>1, <2>4, <3>2
  <2>10. g[n + 2] = p[1] \o u
    BY ONLY <2>2, <2>4, <2>6, <2>8, <2>9
  <2>. QED  BY <2>7, <2>10
<1>. HIDE DEF P
<1>6. N - 1 \in P
  BY <1>3, <1>4, <1>5, SetInduction
<1>. QED  BY <1>3, <1>6 DEF P

\* at_most_clauses joins parts in front, and leaves the text as it is.
LEMMA ClausesFit ==
  ASSUME NEW p \in Seq(Spelling), p # <<>>
  PROVE  /\ at_most_clauses(p) \in Seq(Spelling) /\ Len(at_most_clauses(p)) \in 1..TIP_MAX_CLAUSES
         /\ FlattenSeq(at_most_clauses(p)) = FlattenSeq(p)
         /\ \A i \in 2..Len(at_most_clauses(p)) : \E j \in 1..Len(p) : at_most_clauses(p)[i] = p[j]
<1>1. Len(p) \in Nat \ {0} /\ TIP_MAX_CLAUSES \in Nat \ {0} /\ \A n \in 1..Len(p) : p[n] \in Spelling
  BY EmptySeq, LenProperties, ElementOfSeq, TextInputAssumption
<1>2. CASE Len(p) <= TIP_MAX_CLAUSES
  BY <1>1, <1>2 DEF at_most_clauses
<1>3. CASE ~(Len(p) <= TIP_MAX_CLAUSES)
  <2>1. PICK N, rest : N = Len(p) /\ rest = Len(p) - TIP_MAX_CLAUSES + 1
    OBVIOUS
  <2>2. N \in Nat /\ rest \in 1..N /\ N - rest + 1 = TIP_MAX_CLAUSES
    BY <1>1, <1>3, <2>1
  <2>3. PICK a, b, s : a = SubSeq(p, 1, rest) /\ b = SubSeq(p, rest + 1, N) /\ s = FlattenSeq(a)
    OBVIOUS
  <2>4. /\ a \in Seq(Spelling) /\ Len(a) = rest /\ \A i \in 1..rest : a[i] = p[i]
    BY <1>1, <2>1, <2>2, <2>3, SubSeqProperties
  <2>5. /\ b \in Seq(Spelling) /\ Len(b) = N - rest /\ \A i \in 1..N - rest : b[i] = p[rest + i]
    BY <1>1, <2>1, <2>2, <2>3, SubSeqProperties
  <2>6. s \in Spelling
    BY <2>3, <2>4, FlattenType
  <2>9. PICK q : q = <<s>> \o b
    OBVIOUS
  <2>10. /\ q \in Seq(Spelling) /\ Len(q) = TIP_MAX_CLAUSES /\ q[1] = s
         /\ \A i \in 2..TIP_MAX_CLAUSES : q[i] = b[i - 1] /\ i - 1 \in 1..N - rest
    <3>. DEFINE w == <<s>> \o b
    <3>0. <<s>> \in Seq(Spelling) /\ Len(<<s>>) = 1 /\ <<s>>[1] = s
      BY <2>6
    <3>1. /\ w \in Seq(Spelling) /\ Len(w) = Len(b) + 1 /\ Len(b) \in Nat
          /\ w[1] = s
          /\ \A i \in 2..Len(w) : w[i] = b[i - 1] /\ i - 1 \in 1..Len(b)
      BY <2>5, <3>0, ConcatProperties
    <3>2. Len(b) = N - rest /\ Len(b) + 1 = TIP_MAX_CLAUSES
      BY <1>1, <2>2, <2>5
    <3>. HIDE DEF w
    <3>3. q = w
      BY <2>9 DEF w
    <3>. QED  BY <3>1, <3>2, <3>3
  <2>11. \A i \in 2..TIP_MAX_CLAUSES : q[i] = p[rest + i - 1]
    <3>1. ASSUME NEW i \in 2..TIP_MAX_CLAUSES  PROVE q[i] = p[rest + i - 1]
      <4>1. i - 1 \in 1..N - rest /\ rest + (i - 1) = rest + i - 1
        BY <1>1, <2>2, <2>10
      <4>. QED  BY <2>5, <2>10, <4>1
    <3>. QED  BY <3>1
  <2>12. PICK g : JoinsTo(p, g)
    BY JoinsExist
  <2>13. g \in [0..N -> Spelling] /\ g[0] = <<>> /\ (\A n \in 1..N : g[n] = g[n - 1] \o p[n])
         /\ FlattenSeq(p) = g[N]
    BY <2>1, <2>12, JoinsFlatten DEF JoinsTo
  <2>14. g[rest] = s
    <3>. DEFINE h == [n \in 0..rest |-> g[n]]
    <3>1. \A n \in 0..rest : n \in 0..N
      BY <2>2
    <3>2. h \in [0..rest -> Spelling] /\ h[0] = <<>> /\ h[rest] = g[rest]
      BY <2>2, <2>13, <3>1
    <3>3. ASSUME NEW n \in 1..rest  PROVE h[n] = h[n - 1] \o a[n]
      <4>1. n \in 1..N /\ n - 1 \in 0..rest /\ n \in 0..rest
        BY <2>2
      <4>2. h[n] = g[n] /\ h[n - 1] = g[n - 1] /\ a[n] = p[n]
        BY <2>4, <4>1
      <4>. QED  BY <2>13, <4>1, <4>2
    <3>. HIDE DEF h
    <3>4. JoinsTo(a, h)
      BY <2>4, <3>2, <3>3 DEF JoinsTo
    <3>. QED  BY <2>3, <2>4, <3>2, <3>4, JoinsFlatten
  <2>. DEFINE h == [n \in 0..TIP_MAX_CLAUSES |-> IF n = 0 THEN <<>> ELSE g[rest + n - 1]]
  <2>15. h \in [0..TIP_MAX_CLAUSES -> Spelling] /\ h[0] = <<>> /\ h[TIP_MAX_CLAUSES] = g[N]
    <3>1. \A n \in 0..TIP_MAX_CLAUSES : n # 0 => rest + n - 1 \in 0..N
      BY <1>1, <2>2
    <3>2. rest + TIP_MAX_CLAUSES - 1 = N
      BY <1>1, <2>2
    <3>. QED  BY <1>1, <2>13, <3>1, <3>2
  <2>16. ASSUME NEW n \in 1..TIP_MAX_CLAUSES  PROVE h[n] = h[n - 1] \o q[n]
    <3>1. h[n] = g[rest + n - 1]
      BY <1>1
    <3>2. CASE n = 1
      <4>1. h[n] = s /\ h[n - 1] = <<>> /\ q[n] = s
        BY <1>1, <2>2, <2>10, <2>14, <3>1, <3>2
      <4>2. <<>> \o s = s
        BY <2>6, ConcatEmptySeq DEF Spelling
      <4>. QED  BY <4>1, <4>2
    <3>3. CASE n # 1
      <4>1. n \in 2..TIP_MAX_CLAUSES /\ n - 1 \in 0..TIP_MAX_CLAUSES /\ n - 1 # 0
            /\ rest + n - 1 \in 1..N /\ (rest + n - 1) - 1 = rest + (n - 1) - 1
        BY <1>1, <2>2, <3>3
      <4>2. h[n - 1] = g[rest + (n - 1) - 1] /\ q[n] = p[rest + n - 1]
        BY <2>11, <4>1
      <4>. QED  BY <2>13, <3>1, <4>1, <4>2
    <3>. QED  BY <3>2, <3>3
  <2>. HIDE DEF h
  <2>17. Len(q) = TIP_MAX_CLAUSES
    BY <2>10
  <2>18. JoinsTo(q, h)
    BY <2>15, <2>16, <2>17 DEF JoinsTo
  <2>19. FlattenSeq(q) = FlattenSeq(p)
    BY <2>10, <2>13, <2>15, <2>17, <2>18, JoinsFlatten
  <2>20. at_most_clauses(p) = q
    BY <1>3, <2>1, <2>3, <2>9 DEF at_most_clauses
  <2>21. ASSUME NEW i \in 2..Len(q)  PROVE \E j \in 1..Len(p) : q[i] = p[j]
    <3>1. i \in 2..TIP_MAX_CLAUSES /\ rest + i - 1 \in 1..N
      BY <1>1, <2>2, <2>17
    <3>. QED  BY <2>1, <2>11, <3>1
  <2>. QED  BY <1>1, <2>10, <2>17, <2>19, <2>20, <2>21
<1>. QED  BY <1>2, <1>3

\* Every path cuts the whole text into parts.
LEMMA PathsCut ==
  ASSUME NEW r \in Spelling, r # <<>>, NEW words, NEW p \in paths(r, words)
  PROVE  /\ p \in Seq(Spelling) /\ p # <<>> /\ FlattenSeq(p) = r
         /\ \A i \in 1..Len(p) : Len(p[i]) = 1 \/ p[i] \in words
<1>. DEFINE N == Len(r)
            ends(n) == {i \in 0 .. n - 1 : i = n - 1 \/ SubSeq(r, i + 1, n) \in words}
            body(f, n) == IF n = 0 THEN {<<>>}
                          ELSE UNION {{Append(q, SubSeq(r, m + 1, n)) : q \in f[m]} : m \in ends(n)}
            turns(f) == [n \in 0 .. N |-> body(f, n)]
            cut == CHOOSE f : f = turns(f)
<1>0. r \in Seq(Letters) /\ N \in Nat \ {0}
  BY LenProperties, EmptySeq DEF Spelling
<1>1. paths(r, words) = cut[N]
  BY DEF paths
<1>2. ASSUME NEW n \in Nat, NEW f, NEW h, \A m \in 0..n - 1 : f[m] = h[m]
      PROVE  body(f, n) = body(h, n)
  <2>1. \A m \in ends(n) : f[m] = h[m]
    BY <1>2
  <2>. HIDE DEF ends
  <2>. DEFINE all(g) == UNION {{Append(q, SubSeq(r, m + 1, n)) : q \in g[m]} : m \in ends(n)}
  <2>2. ASSUME NEW x  PROVE x \in all(f) <=> x \in all(h)
    <3>1. x \in all(f) <=> \E m \in ends(n) : \E q \in f[m] : x = Append(q, SubSeq(r, m + 1, n))
      OBVIOUS
    <3>2. x \in all(h) <=> \E m \in ends(n) : \E q \in h[m] : x = Append(q, SubSeq(r, m + 1, n))
      OBVIOUS
    <3>. QED  BY <2>1, <3>1, <3>2
  <2>. HIDE DEF all
  <2>3. all(f) = all(h)
    BY <2>2
  <2>. QED  BY <2>3 DEF all
<1>3. ASSUME NEW f, NEW n, n # 0, NEW q \in body(f, n)
      PROVE  \E m \in 0..n - 1 : /\ m = n - 1 \/ SubSeq(r, m + 1, n) \in words
                                 /\ \E t \in f[m] : q = Append(t, SubSeq(r, m + 1, n))
  BY <1>3
<1>4. \A f : body(f, 0) = {<<>>}
  OBVIOUS
<1>. HIDE DEF body, N
<1>5. \A f : f = turns(f) => cut = turns(cut)
  BY Zenon
<1>6. \E f : f = turns(f)
  <2>. DEFINE upto_(k, f) == \A n \in 0..k : n <= N => f[n] = body(f, n)
              P == {k \in Nat : \E f : upto_(k, f)}
  <2>1. 0 \in P
    <3>1. PICK f : f = [n \in 0..N |-> {<<>>}]
      OBVIOUS
    <3>2. f[0] = body(f, 0)
      BY <1>0, <1>4, <3>1
    <3>. QED  BY <3>2
  <2>2. ASSUME NEW k \in Nat, k \in P  PROVE k + 1 \in P
    <3>1. PICK f : \A n \in 0..k : n <= N => f[n] = body(f, n)
      BY <2>2
    <3>2. PICK h : h = [n \in 0..k + 1 |-> IF n <= k THEN f[n] ELSE body(f, n)]
      OBVIOUS
    <3>3. \A n \in 0..k + 1 : h[n] = IF n <= k THEN f[n] ELSE body(f, n)
      BY <3>2
    <3>4. ASSUME NEW n \in 0..k + 1, n <= N  PROVE h[n] = body(h, n)
      <4>1. n \in Nat /\ \A m \in 0..n - 1 : m \in 0..k + 1 /\ m <= k
        BY <1>0
      <4>2. \A m \in 0..n - 1 : f[m] = h[m]
        BY <3>3, <4>1
      <4>3. body(f, n) = body(h, n)
        BY <1>2, <4>1, <4>2
      <4>4. n <= k => n \in 0..k
        BY <4>1
      <4>. QED  BY <3>1, <3>3, <3>4, <4>3, <4>4
    <3>. QED  BY <3>4
  <2>. HIDE DEF P
  <2>3. N \in P
    BY <1>0, <2>1, <2>2, SetInduction
  <2>4. PICK f : \A n \in 0..N : n <= N => f[n] = body(f, n)
    BY <2>3 DEF P
  <2>5. PICK h : h = [n \in 0..N |-> f[n]]
    OBVIOUS
  <2>6. ASSUME NEW n \in 0..N  PROVE h[n] = body(h, n)
    <3>1. n \in Nat /\ n <= N /\ \A m \in 0..n - 1 : m \in 0..N
      BY <1>0
    <3>2. \A m \in 0..n - 1 : f[m] = h[m]
      BY <2>5, <3>1
    <3>3. body(f, n) = body(h, n)
      BY <1>2, <3>1, <3>2
    <3>. QED  BY <2>4, <2>5, <3>1, <3>3
  <2>7. h = turns(h)
    BY <2>5, <2>6
  <2>. QED  BY <2>7
<1>7. cut = turns(cut)
  BY <1>5, <1>6, Zenon
<1>. HIDE DEF cut
<1>8. \A n \in 0..N : cut[n] = body(cut, n)
  BY <1>7, Zenon
<1>. HIDE DEF turns
<1>. DEFINE Good(n) == \A q \in cut[n] : q \in Seq(Spelling) /\ FlattenSeq(q) = SubSeq(r, 1, n)
                                         /\ (n # 0 => q # <<>>)
                                         /\ \A i \in 1..Len(q) : Len(q[i]) = 1 \/ q[i] \in words
            P == {k \in Nat : \A n \in 0..k : n <= N => Good(n)}
<1>9. Good(0)
  <2>1. 0 \in 0..N
    BY <1>0
  <2>2. cut[0] = {<<>>}
    BY <1>4, <1>8, <2>1
  <2>3. FlattenSeq(<<>>) = <<>>
    BY DEF FlattenSeq
  <2>4. SubSeq(r, 1, 0) = <<>>
    BY SubSeqEmpty
  <2>5. <<>> \in Seq(Spelling) /\ \A i \in 1..Len(<<>>) : FALSE
    OBVIOUS
  <2>6. PICK e : e = <<>>
    OBVIOUS
  <2>7. e \in Seq(Spelling) /\ FlattenSeq(e) = SubSeq(r, 1, 0) /\ \A i \in 1..Len(e) : Len(e[i]) = 1 \/ e[i] \in words
    BY <2>3, <2>4, <2>5, <2>6
  <2>8. \A q \in cut[0] : q = e
    BY <2>2, <2>6
  <2>. QED  BY <2>7, <2>8
<1>10. 0 \in P
  BY <1>9
<1>11. ASSUME NEW k \in Nat, k \in P  PROVE k + 1 \in P
  <2>1. ASSUME NEW n \in 0..k + 1, n <= N  PROVE Good(n)
    <3>1. CASE n = 0
      BY <1>9, <3>1
    <3>2. CASE n # 0
      <4>. SUFFICES ASSUME NEW q \in cut[n]
                    PROVE  /\ q \in Seq(Spelling) /\ FlattenSeq(q) = SubSeq(r, 1, n) /\ q # <<>>
                           /\ \A i \in 1..Len(q) : Len(q[i]) = 1 \/ q[i] \in words
        OBVIOUS
      <4>1. n \in 1..N
        BY <1>0, <2>1, <3>2
      <4>a. PICK m \in 0..n - 1 : /\ m = n - 1 \/ SubSeq(r, m + 1, n) \in words
                                  /\ \E t \in cut[m] : q = Append(t, SubSeq(r, m + 1, n))
        <5>1. q \in body(cut, n)
          BY <1>8, <4>1
        <5>. QED  BY <1>3, <3>2, <5>1
      <4>2. PICK t \in cut[m] : q = Append(t, SubSeq(r, m + 1, n))
        BY <4>a
      <4>3. m \in 0..k /\ m <= N /\ m + 1 \in Nat /\ m \in Nat /\ n \in Nat
        BY <1>0, <4>1
      <4>4. /\ t \in Seq(Spelling) /\ FlattenSeq(t) = SubSeq(r, 1, m)
            /\ \A i \in 1..Len(t) : Len(t[i]) = 1 \/ t[i] \in words
        BY <1>11, <4>2, <4>3
      <4>5. PICK s : s = SubSeq(r, m + 1, n)
        OBVIOUS
      <4>6. s \in Spelling
        <5>1. \A i \in m + 1..n : r[i] \in Letters
          BY <1>0, <4>1, <4>3, ElementOfSeq DEF N
        <5>. QED  BY <4>3, <4>5, <5>1, SubSeqProperties DEF Spelling
      <4>7. SubSeq(r, 1, m) \o SubSeq(r, m + 1, n) = SubSeq(r, 1, n)
        <5>1. 1 \in 1..Len(r) + 1 /\ m \in 1 - 1..Len(r) /\ n \in m..Len(r)
          BY <1>0, <4>1, <4>3 DEF N
        <5>. QED  BY ONLY <1>0, <5>1, ConcatAdjacentSubSeq
      <4>8. q \in Seq(Spelling) /\ q # <<>>
        BY <4>2, <4>4, <4>5, <4>6, AppendProperties
      <4>9. Len(s) = 1 \/ s \in words
        <5>1. CASE m = n - 1
          <6>1. \A i \in n..n : r[i] \in Letters
            BY <1>0, <4>1, ElementOfSeq DEF N
          <6>2. n \in Nat \ {0} /\ m + 1 = n
            BY <4>1, <5>1
          <6>. QED  BY <4>5, <6>1, <6>2, SubSeqProperties
        <5>. QED  BY <4>a, <4>5, <5>1
      <4>10. \A i \in 1..Len(q) : Len(q[i]) = 1 \/ q[i] \in words
        <5>1. Len(t) \in Nat /\ Len(q) = Len(t) + 1 /\ q[Len(t) + 1] = s /\ \A i \in 1..Len(t) : q[i] = t[i]
          BY <4>2, <4>4, <4>5, <4>6, LenProperties, AppendProperties
        <5>2. \A i \in 1..Len(q) : i \in 1..Len(t) \/ i = Len(t) + 1
          BY <5>1
        <5>. QED  BY <4>4, <4>9, <5>1, <5>2
      <4>. QED  BY <4>2, <4>4, <4>5, <4>6, <4>7, <4>8, <4>10, FlattenAppend
    <3>. QED  BY <3>1, <3>2
  <2>. QED  BY <2>1
<1>. HIDE DEF P, Good
<1>12. N \in P
  BY <1>0, <1>10, <1>11, SetInduction
<1>13. Good(N)
  BY <1>0, <1>12 DEF P
<1>14. SubSeq(r, 1, N) = r
  BY <1>0, SubSeqFull DEF N
<1>. QED  BY <1>0, <1>1, <1>13, <1>14 DEF Good

-----------------------------------------------------------------------------
(* The input method: its context.                                          *)

Ways   == {"word", "hiragana", "katakana", "halfwidth", "fullwidth", "TIBETAN", "tsheg", "shad", "wylie"}
Piece  == [of : Spelling, as : Ways]
Clause == [reading : Spelling, candidates : Seq(Piece), selected : Nat, converted : Piece]
Tips   == [mode : {"ASCII", "HIRAGANA", "KATAKANA", "TIBETAN"},
           state : {"IDLE", "PRECOMP", "CONVERTING", "CANDIDATE_SELECT"},
           romaji : Spelling, clauses : [Slots -> Clause], num_clauses : 0..TIP_MAX_CLAUSES,
           active_clause : Slots, candidate_window_visible : BOOLEAN]

\* All that a clause shows and offers writes its reading.
Reliable(c) == /\ Faithful(c, c.converted)
               /\ \A i \in 1..Len(c.candidates) : Faithful(c, c.candidates[i])

\* A clause shows its reading, or one of its candidates.
Offered(c) == Faithful(c, c.converted) \/ \E i \in 1..Len(c.candidates) : c.converted = c.candidates[i]

\* The clauses hold the composition, and more than one are reliable.
ClausesOK(k) ==
    /\ k.num_clauses # 0
    /\ \E n \in 0..Len(reading_buf(k)) :
          /\ Readings(k)[1] = held(start(reading_buf(k), n))
          /\ FlattenSeq([Readings(k) EXCEPT ![1] = start(reading_buf(k), n)]) = reading_buf(k)
    /\ \A i \in Slots : i < k.num_clauses =>
          Offered(k.clauses[i]) /\ (k.num_clauses # 1 => Reliable(k.clauses[i]))

TipOK(k) ==
    /\ k \in Tips
    /\ Composing(k) <=> k.romaji # <<>>
    /\ k.candidate_window_visible => Converting(k)
    /\ Composing(k) => k.mode # "ASCII"
    /\ Converting(k) => ClausesOK(k)

\* f is k but for its clauses and their number.
Apart(f, k) == /\ f \in Tips /\ f.mode = k.mode /\ f.state = k.state /\ f.romaji = k.romaji
               /\ f.active_clause = k.active_clause
               /\ f.candidate_window_visible = k.candidate_window_visible

\* How many letters there is room for.
LEMMA RoomSizes ==
  /\ TIP_MAX_STR_LEN \in Nat /\ MaxCommit \in Nat /\ MaxReading \in Nat \ {0}
  /\ room("hiragana", TIP_MAX_STR_LEN) \in 1..MaxReading
  /\ room("word", TIP_MAX_STR_LEN) = room("hiragana", TIP_MAX_STR_LEN)
  /\ room("fullwidth", TIP_MAX_STR_LEN) \in 0..room("hiragana", TIP_MAX_STR_LEN)
  /\ \A as \in Ways : room(as, TIP_MAX_STR_LEN) \in Nat
<1>1. /\ TIP_MAX_STR_LEN \in Nat /\ TIP_MAX_STR_LEN > 3 /\ MaxCommit \in Nat /\ MaxReading \in Nat
      /\ MaxReading >= room("word", TIP_MAX_STR_LEN)
  BY TextInputAssumption DEF LETTER
<1>2. /\ room("hiragana", TIP_MAX_STR_LEN) = (TIP_MAX_STR_LEN - 1) \div 3
      /\ room("word", TIP_MAX_STR_LEN) = (TIP_MAX_STR_LEN - 1) \div 3
      /\ room("fullwidth", TIP_MAX_STR_LEN) = (TIP_MAX_STR_LEN - 2) \div 3
  BY DEF room, LETTER
<1>3. /\ (TIP_MAX_STR_LEN - 1) \div 3 \in Nat \ {0} /\ (TIP_MAX_STR_LEN - 2) \div 3 \in Nat
      /\ (TIP_MAX_STR_LEN - 4) \div 3 \in Nat /\ TIP_MAX_STR_LEN - 1 \in Nat
      /\ (TIP_MAX_STR_LEN - 2) \div 3 <= (TIP_MAX_STR_LEN - 1) \div 3
  BY ONLY <1>1
<1>4. \A as \in Ways : room(as, TIP_MAX_STR_LEN) \in Nat
  BY <1>3 DEF room, LETTER, Ways
<1>. QED  BY <1>1, <1>2, <1>3, <1>4

\* The first letters of a text.
LEMMA StartType ==
  ASSUME NEW s \in Spelling, NEW n \in Nat
  PROVE  /\ start(s, n) \in Spelling /\ Len(s) \in Nat
         /\ Len(start(s, n)) = IF n < Len(s) THEN n ELSE Len(s)
         /\ \A i \in 1..Len(start(s, n)) : start(s, n)[i] = s[i]
         /\ Len(s) <= n => start(s, n) = s
         /\ n # 0 /\ s # <<>> => start(s, n) # <<>>
         /\ IsPrefix(start(s, n), s)
<1>1. PICK m : m = IF n < Len(s) THEN n ELSE Len(s)
  OBVIOUS
<1>2. s \in Seq(Letters) /\ Len(s) \in Nat /\ (\A i \in 1..Len(s) : s[i] \in Letters) /\ (s # <<>> => Len(s) # 0)
  BY LenProperties, ElementOfSeq, EmptySeq DEF Spelling
<1>3. m \in 0..Len(s) /\ (Len(s) <= n => m = Len(s)) /\ (n # 0 /\ s # <<>> => m # 0)
  BY <1>1, <1>2
<1>4. PICK t : t = SubSeq(s, 1, m)
  OBVIOUS
<1>5. \A i \in 1..m : s[i] \in Letters
  BY <1>2, <1>3
<1>6. t \in Seq(Letters) /\ Len(t) = m /\ \A i \in 1..m : t[i] = s[i]
  BY <1>2, <1>3, <1>4, <1>5, SubSeqProperties
<1>7. m = Len(s) => t = s
  BY <1>2, <1>4, SubSeqFull
<1>8. m # 0 => t # <<>>
  BY <1>6
<1>9. IsPrefix(t, s)
  <2>1. SubSeq(s, 1, Len(t)) = SubSeq(t, 1, Len(t))
    BY <1>4, <1>6, SubSeqFull
  <2>. QED  BY <1>3, <1>6, <2>1 DEF IsPrefix
<1>10. start(s, n) = t
  BY <1>1, <1>4 DEF start
<1>. QED  BY <1>1, <1>2, <1>3, <1>6, <1>7, <1>8, <1>9, <1>10 DEF Spelling

\* ... and the first of these.
LEMMA StartStart ==
  ASSUME NEW s \in Spelling, NEW n \in Nat, NEW m \in 0..n
  PROVE  start(start(s, n), m) = start(s, m)
<1>1. PICK t, u, v : t = start(s, n) /\ u = start(t, m) /\ v = start(s, m)
  OBVIOUS
<1>2. t \in Spelling /\ Len(s) \in Nat /\ Len(t) = IF n < Len(s) THEN n ELSE Len(s)
  BY <1>1, StartType
<1>3. \A i \in 1..Len(t) : t[i] = s[i]
  BY <1>1, StartType
<1>4. u \in Spelling /\ Len(u) = IF m < Len(t) THEN m ELSE Len(t)
  BY <1>1, <1>2, StartType
<1>5. \A i \in 1..Len(u) : u[i] = t[i]
  BY <1>1, <1>2, StartType
<1>6. v \in Spelling /\ Len(v) = IF m < Len(s) THEN m ELSE Len(s)
  BY <1>1, StartType
<1>7. \A i \in 1..Len(v) : v[i] = s[i]
  BY <1>1, StartType
<1>8. Len(u) = Len(v) /\ \A i \in 1..Len(u) : u[i] = v[i]
  BY <1>2, <1>3, <1>4, <1>5, <1>6, <1>7
<1>9. u = v
  BY ONLY <1>4, <1>6, <1>8, SeqEqual DEF Spelling
<1>. QED  BY <1>1, <1>9

\* A clause holds all of a part it has room for.
LEMMA HeldType ==
  ASSUME NEW s \in Spelling
  PROVE  held(s) \in Spelling /\ (Len(s) <= room("hiragana", TIP_MAX_STR_LEN) => held(s) = s)
BY RoomSizes, StartType DEF held

\* The reading of a composition.
LEMMA ReadingType ==
  ASSUME NEW k, k.romaji \in Spelling
  PROVE  /\ reading_buf(k) \in Spelling /\ Len(reading_buf(k)) \in Nat
         /\ k.romaji # <<>> => reading_buf(k) # <<>>
<1>1. MaxReading \in Nat \ {0}
  BY RoomSizes
<1>2. start(k.romaji, MaxReading) \in Spelling /\ (k.romaji # <<>> => start(k.romaji, MaxReading) # <<>>)
  BY <1>1, StartType
<1>. QED  BY <1>2, LenProperties DEF reading_buf, Spelling

\* The slots of clauses, and the clause that is empty.
LEMMA TipSizes ==
  /\ TIP_MAX_CLAUSES \in Nat \ {0} /\ 0 \in Slots /\ Slots \subseteq Nat
  /\ \A n \in 0..TIP_MAX_CLAUSES : \A i \in 1..n : i - 1 \in Slots /\ i - 1 < n
  /\ <<>> \in Spelling /\ NoClause \in Clause
<1>1. <<>> \in Spelling /\ <<>> \in Seq(Piece)
  BY DEF Spelling
<1>2. TIP_MAX_CLAUSES \in Nat \ {0}
  BY TextInputAssumption
<1>3. 0 \in Slots /\ Slots \subseteq Nat /\ \A n \in 0..TIP_MAX_CLAUSES : \A i \in 1..n : i - 1 \in Slots /\ i - 1 < n
  BY <1>2 DEF Slots
<1>4. Written(<<>>, "hiragana") \in Piece
  <2>1. start(<<>>, room("hiragana", TIP_MAX_STR_LEN)) \in Spelling
    BY <1>1, HeldType DEF held
  <2>. QED  BY <2>1 DEF Written, Fitted, Piece, Ways
<1>5. NoClause \in Clause
  BY <1>1, <1>4 DEF NoClause, Clause
<1>. QED  BY <1>1, <1>2, <1>3, <1>5

\* What is written is a piece.
LEMMA WrittenType ==
  ASSUME NEW s \in Spelling, NEW as \in Ways
  PROVE  /\ Written(s, as) \in Piece /\ Written(s, as).as = as
         /\ Written(s, as).of = start(s, room(as, TIP_MAX_STR_LEN))
<1>1. start(s, room(as, TIP_MAX_STR_LEN)) \in Spelling
  BY RoomSizes, StartType
<1>. QED  BY <1>1 DEF Written, Fitted, Piece

\* A list goes on, and begins as it did.
LEMMA GoesOn ==
  ASSUME NEW s \in Seq(Piece), s # <<>>, NEW t \in Seq(Piece)
  PROVE  \E u : u = s \o t /\ u \in Seq(Piece) /\ u # <<>> /\ u[1] = s[1]
<1>. DEFINE w == s \o t
<1>1. Len(s) \in Nat \ {0} /\ Len(t) \in Nat /\ 1 \in 1..Len(s)
  BY EmptySeq, LenProperties
<1>2. w \in Seq(Piece) /\ Len(w) = Len(s) + Len(t) /\ w[1] = s[1]
  BY <1>1, ConcatProperties
<1>3. w # <<>>
  <2>. HIDE DEF w
  <2>. QED  BY <1>1, <1>2, EmptySeq
<1>. QED  BY <1>2, <1>3

\* The candidates of the conversion engine stand for the reading.
LEMMA CandidatesExact ==
  ASSUME NEW r \in Spelling
  PROVE  LET c == mozc_get_candidates(r)
         IN  c \in Seq(Piece) /\ Len(c) \in Nat \ {0} /\ \A i \in 1..Len(c) : c[i].of = Written(r, c[i].as).of
<1>1. PICK w, h, k : w = Written(r, "word") /\ h = Written(r, "hiragana") /\ k = Written(r, "katakana")
  OBVIOUS
<1>. DEFINE Good(x) == x.of = Written(r, x.as).of
<1>2. w \in Piece /\ h \in Piece /\ k \in Piece /\ Good(w) /\ Good(h) /\ Good(k)
  <2>1. {"word", "hiragana", "katakana"} \subseteq Ways
    BY DEF Ways
  <2>. QED  BY <1>1, <2>1, WrittenType
<1>. HIDE DEF Good
<1>3. <<h, k>> \in Seq(Piece) /\ Len(<<h, k>>) = 2 /\ \A i \in 1..2 : Good(<<h, k>>[i])
  BY <1>2
<1>4. CASE r \in Words
  <2>. DEFINE c == <<w>> \o <<h, k>>
  <2>1. mozc_get_candidates(r) = c
    BY <1>1, <1>4 DEF mozc_get_candidates
  <2>2. <<w>> \in Seq(Piece) /\ Len(<<w>>) = 1 /\ <<w>>[1] = w
    BY <1>2
  <2>3. c \in Seq(Piece) /\ Len(c) = 3 /\ \A i \in 1..3 : Good(c[i])
    BY <1>2, <1>3, <2>2, ConcatProperties
  <2>. HIDE DEF c
  <2>. QED  BY <2>1, <2>3 DEF Good
<1>5. CASE r \notin Words
  <2>1. <<>> \o <<h, k>> = <<h, k>>
    BY <1>3, ConcatEmptySeq
  <2>2. mozc_get_candidates(r) = <<h, k>>
    BY <1>1, <1>5, <2>1 DEF mozc_get_candidates
  <2>3. PICK c : c = <<h, k>>
    OBVIOUS
  <2>4. c \in Seq(Piece) /\ Len(c) = 2 /\ \A i \in 1..2 : Good(c[i])
    BY <1>3, <2>3
  <2>. QED  BY <2>2, <2>3, <2>4 DEF Good
<1>. QED  BY <1>4, <1>5

\* A finite set of pieces makes a list.
LEMMA WordsListed ==
  ASSUME NEW W \in SUBSET Words
  PROVE  SetToSeq({Written(w, "word") : w \in W}) \in Seq(Piece)
<1>. DEFINE T == {Written(w, "word") : w \in W}
            f == [w \in W |-> Written(w, "word")]
<1>1. IsFiniteSet(W) /\ W \subseteq Spelling
  BY FS_Subset, TextInputAssumption DEF Spelling
<1>2. f \in Surjection(W, T)
  BY DEF Surjection
<1>3. T \subseteq Piece
  <2>1. "word" \in Ways
    BY DEF Ways
  <2>. QED  BY <1>1, <2>1, WrittenType
<1>. HIDE DEF T, f
<1>4. IsFiniteSet(T)
  BY <1>1, <1>2, FS_Surjection DEF ExistsSurjection
<1>5. Cardinality(T) \in Nat /\ ExistsBijection(1..Cardinality(T), T)
  BY <1>4, FS_CardinalityType
<1>6. \E g : g \in [1..Cardinality(T) -> T] /\ IsInjective(g)
  BY <1>5 DEF ExistsBijection, Bijection, Injection
<1>7. SetToSeq(T) \in [1..Cardinality(T) -> T]
  BY <1>6 DEF SetToSeq
<1>8. SetToSeq(T) \in Seq(T)
  BY <1>5, <1>7
<1>9. SetToSeq(T) \in Seq(Piece)
  BY <1>3, <1>8, SeqMonotonic
<1>. QED  BY <1>9 DEF T

\* The Tibetan dictionary has candidates for every composition.
LEMMA LookupFinds ==
  ASSUME NEW romaji \in Spelling, NEW r \in Spelling
  PROVE  LET c == tibetan_lookup_candidates(romaji, r)
         IN  c \in Seq(Piece) /\ Len(c) \in Nat \ {0}
<1>1. PICK w, t, e, s, y : /\ w = Written(romaji, "word") /\ t = Written(r, "TIBETAN") /\ e = Written(r, "tsheg")
                           /\ s = Written(r, "shad") /\ y = Written(romaji, "wylie")
  OBVIOUS
<1>2. w \in Piece /\ t \in Piece /\ e \in Piece /\ s \in Piece /\ y \in Piece
  <2>1. {"word", "TIBETAN", "tsheg", "shad", "wylie"} \subseteq Ways
    BY DEF Ways
  <2>. QED  BY <1>1, <2>1, WrittenType
<1>3. PICK l : l = SetToSeq({Written(v, "word") : v \in {v \in Words : IsStrictPrefix(romaji, v)}})
  OBVIOUS
<1>4. l \in Seq(Piece)
  BY <1>3, WordsListed
<1>5. PICK a : a = (IF romaji \in Words THEN <<w>> ELSE <<>>) \o <<t>>
  OBVIOUS
<1>6. a \in Seq(Piece) /\ a # <<>>
  <2>1. CASE romaji \in Words
    <3>1. <<w>> \in Seq(Piece) /\ <<w>> # <<>> /\ <<w>>[1] = w /\ <<t>> \in Seq(Piece)
      BY <1>2
    <3>2. \E u : u = <<w>> \o <<t>> /\ u \in Seq(Piece) /\ u # <<>> /\ u[1] = <<w>>[1]
      BY <3>1, GoesOn
    <3>3. a = <<w>> \o <<t>>
      BY <1>5, <2>1
    <3>. QED  BY <1>2, <3>1, <3>2, <3>3
  <2>2. CASE romaji \notin Words
    <3>1. <<t>> \in Seq(Piece)
      BY <1>2
    <3>2. <<>> \o <<t>> = <<t>>
      BY <3>1, ConcatEmptySeq
    <3>3. a = <<t>>
      BY <1>5, <2>2, <3>2
    <3>. QED  BY <1>2, <3>3
  <2>. QED  BY <2>1, <2>2
<1>7. PICK b : b = a \o l /\ b \in Seq(Piece) /\ b # <<>> /\ b[1] = a[1]
  BY <1>4, <1>6, GoesOn
<1>8. PICK z : z = <<e, s, y>>
  OBVIOUS
<1>9. z \in Seq(Piece)
  BY <1>2, <1>8
<1>10. PICK c : c = b \o z /\ c \in Seq(Piece) /\ c # <<>> /\ c[1] = b[1]
  BY <1>7, <1>9, GoesOn
<1>11. tibetan_lookup_candidates(romaji, r) = c
  BY <1>1, <1>3, <1>5, <1>7, <1>8, <1>10 DEF tibetan_lookup_candidates
<1>. QED  BY <1>6, <1>7, <1>10, <1>11, EmptySeq

\* A new clause shows its first candidate.
LEMMA NewClause ==
  ASSUME NEW r \in Spelling, NEW c \in Seq(Piece), Len(c) \in Nat \ {0}
  PROVE  /\ new_clause(r, c) \in Clause /\ Offered(new_clause(r, c)) /\ new_clause(r, c).reading = r
         /\ (\A i \in 1..Len(c) : c[i].of = Written(r, c[i].as).of) => Reliable(new_clause(r, c))
<1>1. c[1] \in Piece /\ 1 \in 1..Len(c)
  BY ElementOfSeq
<1>. QED  BY <1>1 DEF new_clause, Clause, Offered, Reliable, Faithful

\* Clauses depend on the letters, the clauses and their number alone.
LEMMA SameClauses ==
  ASSUME NEW k, NEW f, ClausesOK(k), f.romaji = k.romaji, f.num_clauses = k.num_clauses, f.clauses = k.clauses
  PROVE  ClausesOK(f)
BY DEF ClausesOK, Readings, reading_buf

\* What the state says of a context, in the terms of its fields.
LEMMA TipFields ==
  ASSUME NEW k \in Tips
  PROVE  /\ k.romaji \in Spelling /\ k.num_clauses \in 0..TIP_MAX_CLAUSES /\ k.active_clause \in Slots
         /\ k.clauses \in [Slots -> Clause] /\ \A i \in Slots : k.clauses[i] \in Clause
         /\ k.candidate_window_visible \in BOOLEAN
BY DEF Tips

\* mozc_lattice_search
LEMMA Searches ==
  ASSUME NEW k \in Tips, k.romaji # <<>>, NEW f \in mozc_lattice_search(k)
  PROVE  Apart(f, k) /\ ClausesOK(f)
<1>. DEFINE part(q, i) == new_clause(held(q[i + 1]), mozc_get_candidates(held(q[i + 1])))
            slots(q) == [i \in Slots |-> IF i < Len(q) THEN part(q, i) ELSE NoClause]
            found(q) == [k EXCEPT !.num_clauses = Len(q), !.clauses = slots(q)]
<1>0. PICK words : words = IF k.mode = "TIBETAN" THEN {} ELSE Words
  OBVIOUS
<1>1. PICK p \in paths(reading_buf(k), words) : f = found(at_most_clauses(p))
  BY <1>0 DEF mozc_lattice_search
<1>2. reading_buf(k) \in Spelling /\ reading_buf(k) # <<>> /\ Len(reading_buf(k)) \in Nat
  BY TipFields, ReadingType
<1>3. /\ p \in Seq(Spelling) /\ p # <<>> /\ FlattenSeq(p) = reading_buf(k)
      /\ \A i \in 1..Len(p) : Len(p[i]) = 1 \/ p[i] \in words
  BY <1>1, <1>2, PathsCut
<1>4. PICK q : q = at_most_clauses(p)
  OBVIOUS
<1>5. /\ q \in Seq(Spelling) /\ Len(q) \in 1..TIP_MAX_CLAUSES /\ FlattenSeq(q) = reading_buf(k)
      /\ \A i \in 2..Len(q) : \E j \in 1..Len(p) : q[i] = p[j]
  BY <1>3, <1>4, ClausesFit
<1>6. PICK n : n = Len(q)
  OBVIOUS
<1>7. n \in 1..TIP_MAX_CLAUSES /\ q \in [1..n -> Spelling] /\ n # 0
      /\ \A i \in Slots : i < n => i + 1 \in 1..n
  BY <1>5, <1>6, LenProperties, TipSizes DEF Slots
<1>8. ASSUME NEW i \in Slots, i < n
      PROVE  part(q, i) \in Clause /\ Offered(part(q, i)) /\ Reliable(part(q, i)) /\ part(q, i).reading = held(q[i + 1])
  <2>1. PICK r : r = held(q[i + 1])
    OBVIOUS
  <2>2. r \in Spelling
    BY <1>7, <1>8, <2>1, HeldType
  <2>3. PICK c : c = mozc_get_candidates(r)
    OBVIOUS
  <2>4. c \in Seq(Piece) /\ Len(c) \in Nat \ {0} /\ \A j \in 1..Len(c) : c[j].of = Written(r, c[j].as).of
    BY <2>2, <2>3, CandidatesExact
  <2>6. new_clause(r, c) \in Clause /\ Offered(new_clause(r, c)) /\ new_clause(r, c).reading = r
        /\ Reliable(new_clause(r, c))
    BY <2>2, <2>4, NewClause
  <2>. QED  BY <2>1, <2>3, <2>6
<1>. HIDE DEF part
<1>9. slots(q) \in [Slots -> Clause] /\ \A i \in Slots : i < n => slots(q)[i] = part(q, i)
  BY <1>6, <1>8, TipSizes
<1>10. f = [k EXCEPT !.num_clauses = n, !.clauses = slots(q)]
  BY <1>1, <1>4, <1>6
<1>. HIDE DEF slots, found
<1>11. Apart(f, k) /\ f.num_clauses = n /\ f.clauses = slots(q)
  <2>1. n \in 0..TIP_MAX_CLAUSES
    BY <1>7
  <2>. QED  BY <1>9, <1>10, <2>1 DEF Apart, Tips
<1>12. Readings(f) = [i \in 1..n |-> held(q[i])]
  <2>1. \A i \in 1..n : i - 1 \in Slots /\ i - 1 < n /\ (i - 1) + 1 = i
    BY <1>7, TipSizes
  <2>2. ASSUME NEW i \in 1..n  PROVE f.clauses[i - 1].reading = held(q[i])
    BY <1>8, <1>9, <1>11, <2>1
  <2>. QED  BY <1>11, <2>2 DEF Readings
<1>13. ASSUME NEW i \in 2..n  PROVE held(q[i]) = q[i]
  <2>1. PICK j \in 1..Len(p) : q[i] = p[j]
    BY <1>5, <1>6
  <2>2. q[i] \in Spelling
    BY <1>7
  <2>3. Len(q[i]) = 1 \/ q[i] \in Words
    BY <1>0, <1>3, <2>1
  <2>4. Len(q[i]) <= room("hiragana", TIP_MAX_STR_LEN)
    <3>1. room("hiragana", TIP_MAX_STR_LEN) >= 1
      BY RoomSizes
    <3>2. q[i] \in Words => Len(q[i]) <= room("hiragana", TIP_MAX_STR_LEN)
      <4>1. \A w \in Words : Len(w) <= room("word", TIP_MAX_STR_LEN)
        BY TextInputAssumption
      <4>2. room("word", TIP_MAX_STR_LEN) = room("hiragana", TIP_MAX_STR_LEN)
        BY RoomSizes
      <4>. QED  BY <4>1, <4>2
    <3>. QED  BY <2>3, <3>1, <3>2
  <2>. QED  BY <2>2, <2>4, HeldType
<1>14. PICK m : m = Len(q[1])
  OBVIOUS
<1>15. m \in 0..Len(reading_buf(k)) /\ start(reading_buf(k), m) = q[1]
  <2>1. q # <<>> /\ q[1] \in Spelling
    BY <1>5, <1>7
  <2>2. PICK t \in Spelling : reading_buf(k) = q[1] \o t
    BY <1>5, <2>1, FlattenBegins
  <2>3. q[1] \in Seq(Letters) /\ t \in Seq(Letters) /\ m \in Nat /\ Len(t) \in Nat
    BY <1>14, <2>1, LenProperties DEF Spelling
  <2>4. Len(q[1] \o t) = m + Len(t) /\ \A i \in 1..m : (q[1] \o t)[i] = q[1][i]
    BY <1>14, <2>3, ConcatProperties
  <2>5. PICK u : u = start(reading_buf(k), m)
    OBVIOUS
  <2>6. Len(reading_buf(k)) = m + Len(t) /\ \A i \in 1..m : reading_buf(k)[i] = q[1][i]
    BY <2>2, <2>4
  <2>7. u \in Spelling /\ Len(u) = IF m < Len(reading_buf(k)) THEN m ELSE Len(reading_buf(k))
    BY <1>2, <2>3, <2>5, StartType
  <2>8. \A i \in 1..Len(u) : u[i] = reading_buf(k)[i]
    BY <1>2, <2>3, <2>5, StartType
  <2>9. Len(u) = m /\ \A i \in 1..m : u[i] = q[1][i]
    BY <2>3, <2>6, <2>7, <2>8
  <2>10. u = q[1]
    BY ONLY <1>14, <2>1, <2>7, <2>9, SeqEqual DEF Spelling
  <2>. QED  BY <2>3, <2>5, <2>6, <2>10
<1>16. [Readings(f) EXCEPT ![1] = q[1]] = q
  <2>1. 1 \in 1..n /\ \A i \in 1..n : i # 1 => i \in 2..n
    BY <1>7
  <2>2. q = [i \in 1..n |-> q[i]]
    BY <1>7
  <2>. QED  BY <1>12, <1>13, <2>1, <2>2
<1>17. Readings(f)[1] = held(q[1])
  BY <1>7, <1>12
<1>18. ASSUME NEW i \in Slots, i < n  PROVE Offered(f.clauses[i]) /\ Reliable(f.clauses[i])
  BY <1>8, <1>9, <1>11, <1>18
<1>19. reading_buf(f) = reading_buf(k)
  BY <1>11 DEF Apart, reading_buf
<1>20. \E w \in 0..Len(reading_buf(f)) :
          /\ Readings(f)[1] = held(start(reading_buf(f), w))
          /\ FlattenSeq([Readings(f) EXCEPT ![1] = start(reading_buf(f), w)]) = reading_buf(f)
  <2>1. /\ Readings(f)[1] = held(start(reading_buf(f), m))
        /\ FlattenSeq([Readings(f) EXCEPT ![1] = start(reading_buf(f), m)]) = reading_buf(f)
    BY <1>5, <1>15, <1>16, <1>17, <1>19
  <2>. QED  BY <1>15, <1>19, <2>1
<1>. QED  BY <1>7, <1>11, <1>18, <1>20 DEF ClausesOK

\* Clauses that keep their readings and show what they may are in order.
LEMMA ClausesStay ==
  ASSUME NEW k \in Tips, ClausesOK(k), NEW f, f.romaji = k.romaji, f.num_clauses = k.num_clauses,
         \A i \in Slots : f.clauses[i].reading = k.clauses[i].reading,
         \A i \in Slots : Offered(k.clauses[i]) => Offered(f.clauses[i]),
         \A i \in Slots : Reliable(k.clauses[i]) => Reliable(f.clauses[i])
  PROVE  ClausesOK(f)
<1>1. \A i \in 1..k.num_clauses : i - 1 \in Slots
  BY TipFields, TipSizes
<1>2. Readings(f) = Readings(k)
  BY <1>1 DEF Readings
<1>. QED  BY <1>2 DEF ClausesOK, reading_buf

\* rewrite
LEMMA Rewrites ==
  ASSUME NEW k \in Tips, ClausesOK(k), NEW as \in Ways
  PROVE  Apart(rewrite(k, as), k) /\ ClausesOK(rewrite(k, as))
<1>. DEFINE new(i) == [k.clauses[i] EXCEPT !.converted = Written(k.clauses[i].reading, as)]
            slots == [i \in Slots |-> IF i < k.num_clauses THEN new(i) ELSE k.clauses[i]]
<1>1. \A i \in Slots : k.clauses[i] \in Clause
  BY TipFields
<1>2. ASSUME NEW i \in Slots
      PROVE  /\ new(i) \in Clause /\ new(i).reading = k.clauses[i].reading
             /\ new(i).candidates = k.clauses[i].candidates /\ Faithful(new(i), new(i).converted)
  <2>1. PICK c : c = k.clauses[i]
    OBVIOUS
  <2>2. PICK w : w = Written(c.reading, as)
    OBVIOUS
  <2>3. c \in Clause /\ c.reading \in Spelling
    BY <1>1, <2>1 DEF Clause
  <2>4. w \in Piece /\ w.as = as
    BY <2>2, <2>3, WrittenType
  <2>. QED  BY <2>1, <2>2, <2>3, <2>4 DEF Clause, Faithful
<1>. HIDE DEF new
<1>3. slots \in [Slots -> Clause]
  BY <1>1, <1>2
<1>4. ASSUME NEW i \in Slots
      PROVE  /\ slots[i].reading = k.clauses[i].reading
             /\ Offered(k.clauses[i]) => Offered(slots[i])
             /\ Reliable(k.clauses[i]) => Reliable(slots[i])
  <2>1. CASE i < k.num_clauses
    <3>1. slots[i] = new(i)
      BY <2>1
    <3>. HIDE DEF slots
    <3>. QED  BY <1>2, <3>1 DEF Offered, Reliable, Faithful
  <2>2. CASE ~(i < k.num_clauses)
    BY <2>2
  <2>. QED  BY <2>1, <2>2
<1>5. PICK f : f = rewrite(k, as)
  OBVIOUS
<1>6. f = [k EXCEPT !.clauses = slots]
  BY <1>5 DEF rewrite, new
<1>. HIDE DEF slots
<1>7. Apart(f, k) /\ f.num_clauses = k.num_clauses /\ f.clauses = slots /\ f.romaji = k.romaji
  BY <1>3, <1>6 DEF Apart, Tips
<1>8. ClausesOK(f)
  BY <1>4, <1>7, ClausesStay
<1>. QED  BY <1>5, <1>7, <1>8

\* select
LEMMA Selects ==
  ASSUME NEW k \in Tips, NEW c \in Slots, NEW n \in Nat, n < Len(k.clauses[c].candidates)
  PROVE  /\ Apart(select(k, c, n), k) /\ select(k, c, n).num_clauses = k.num_clauses
         /\ ClausesOK(k) => ClausesOK(select(k, c, n))
<1>1. PICK o, cs : o = k.clauses[c] /\ cs = o.candidates
  OBVIOUS
<1>2. o \in Clause /\ cs \in Seq(Piece) /\ Len(cs) \in Nat /\ k.clauses \in [Slots -> Clause]
  BY <1>1, TipFields, LenProperties DEF Clause
<1>3. n + 1 \in 1..Len(cs)
  BY <1>1, <1>2
<1>4. PICK w : w = cs[n + 1]
  OBVIOUS
<1>5. w \in Piece
  BY <1>2, <1>3, <1>4, ElementOfSeq
<1>6. PICK x : x = [reading |-> o.reading, candidates |-> cs, selected |-> n, converted |-> w]
  OBVIOUS
<1>7. /\ x \in Clause /\ x.reading = o.reading /\ x.candidates = cs /\ x.converted = w
      /\ x = [[o EXCEPT !.selected = n] EXCEPT !.converted = w]
  <2>1. PICK e : e = [[o EXCEPT !.selected = n] EXCEPT !.converted = w]
    OBVIOUS
  <2>2. x \in Clause /\ x.reading = o.reading /\ x.candidates = cs /\ x.selected = n /\ x.converted = w
    BY <1>2, <1>5, <1>6 DEF Clause
  <2>3. e \in Clause /\ e.reading = o.reading /\ e.candidates = cs /\ e.selected = n /\ e.converted = w
    BY <1>1, <1>2, <1>5, <2>1 DEF Clause
  <2>4. x = e
    BY ONLY <2>2, <2>3 DEF Clause
  <2>. QED  BY <2>1, <2>2, <2>4
<1>8. PICK slots : slots = [k.clauses EXCEPT ![c] = x]
  OBVIOUS
<1>9. slots \in [Slots -> Clause] /\ slots[c] = x /\ \A i \in Slots : i # c => slots[i] = k.clauses[i]
  BY <1>2, <1>7, <1>8
<1>10. PICK f : f = select(k, c, n)
  OBVIOUS
<1>11. f = [k EXCEPT !.clauses = slots]
  BY <1>1, <1>2, <1>4, <1>7, <1>8, <1>10 DEF select, Tips
<1>12. Apart(f, k) /\ f.num_clauses = k.num_clauses /\ f.clauses = slots /\ f.romaji = k.romaji
  BY <1>9, <1>11 DEF Apart, Tips
<1>13. ASSUME NEW i \in Slots
       PROVE  /\ slots[i].reading = k.clauses[i].reading
              /\ Offered(k.clauses[i]) => Offered(slots[i])
              /\ Reliable(k.clauses[i]) => Reliable(slots[i])
  <2>1. CASE i = c
    <3>1. Offered(x)
      BY <1>3, <1>4, <1>7 DEF Offered
    <3>2. Reliable(o) => Reliable(x)
      BY <1>1, <1>3, <1>4, <1>7 DEF Reliable, Faithful
    <3>. QED  BY <1>1, <1>7, <1>9, <2>1, <3>1, <3>2
  <2>2. CASE i # c
    BY <1>9, <2>2
  <2>. QED  BY <2>1, <2>2
<1>14. ClausesOK(k) => ClausesOK(f)
  BY <1>12, <1>13, ClausesStay
<1>. QED  BY <1>10, <1>12, <1>14

\* cycle
LEMMA Cycles ==
  ASSUME NEW k \in Tips, NEW d \in {1, -1}
  PROVE  /\ Apart(cycle(k, d), k)
         /\ ClausesOK(k) => ClausesOK(cycle(k, d))
<1>1. PICK c, n : c = k.clauses[k.active_clause] /\ n = Len(c.candidates)
  OBVIOUS
<1>2. k.active_clause \in Slots /\ c \in Clause
  BY <1>1, TipFields
<1>3. n \in Nat /\ c.selected \in Nat
  BY <1>1, <1>2, LenProperties DEF Clause
<1>4. CASE k.num_clauses = 0 \/ n = 0
  BY <1>1, <1>4 DEF cycle, Apart
<1>5. CASE k.num_clauses # 0 /\ n # 0
  <2>1. PICK m : m = (c.selected + d) % n
    OBVIOUS
  <2>2. m \in Nat /\ m < n
    BY <1>3, <1>5, <2>1
  <2>3. cycle(k, d) = select(k, k.active_clause, m)
    BY <1>1, <1>5, <2>1 DEF cycle
  <2>. QED  BY <1>1, <1>2, <2>2, <2>3, Selects
<1>. QED  BY <1>4, <1>5

\* left_behind, and what tip_cancel makes of it
LEMMA Cancels ==
  ASSUME NEW k \in Tips
  PROVE  /\ Apart(left_behind(k), k)
         /\ TipOK(tip_cancel(k)) /\ ~Composing(tip_cancel(k)) /\ tip_cancel(k).mode = k.mode
<1>. DEFINE kept == [NoClause EXCEPT !.candidates = k.clauses[0].candidates, !.selected = k.clauses[0].selected]
            slots == [i \in Slots |-> IF i = 0 THEN kept ELSE NoClause]
<1>1. kept \in Clause
  <2>1. PICK c : c = k.clauses[0]
    OBVIOUS
  <2>2. c \in Clause /\ NoClause \in Clause
    BY <2>1, TipFields, TipSizes
  <2>. QED  BY <2>1, <2>2 DEF Clause
<1>. HIDE DEF kept
<1>2. slots \in [Slots -> Clause]
  BY <1>1, TipSizes
<1>3. PICK f : f = left_behind(k)
  OBVIOUS
<1>4. f = [k EXCEPT !.clauses = slots]
  BY <1>3 DEF left_behind, kept
<1>. HIDE DEF slots
<1>5. Apart(f, k)
  BY <1>2, <1>4 DEF Apart, Tips
<1>6. PICK g : g = tip_cancel(k)
  OBVIOUS
<1>7. g = [f EXCEPT !.state = "IDLE", !.romaji = <<>>, !.num_clauses = 0, !.active_clause = 0,
                    !.candidate_window_visible = FALSE]
  BY <1>3, <1>6 DEF tip_cancel
<1>8. g \in Tips /\ g.state = "IDLE" /\ g.romaji = <<>> /\ g.candidate_window_visible = FALSE /\ g.mode = k.mode
  <2>1. 0 \in 0..TIP_MAX_CLAUSES /\ 0 \in Slots /\ <<>> \in Spelling
    BY TipSizes
  <2>2. f \in Tips /\ f.mode = k.mode
    BY <1>5 DEF Apart
  <2>. QED  BY <1>7, <2>1, <2>2 DEF Tips
<1>9. TipOK(g) /\ ~Composing(g)
  BY <1>8 DEF TipOK, Composing, Converting
<1>. QED  BY <1>3, <1>5, <1>6, <1>8, <1>9

\* tip_toggle_mode
LEMMA Toggles ==
  ASSUME NEW k \in Tips
  PROVE  TipOK(tip_toggle_mode(k))
<1>1. PICK m : m = next_mode(k.mode)
  OBVIOUS
<1>2. m \in {"ASCII", "HIRAGANA", "KATAKANA", "TIBETAN"}
  BY <1>1 DEF next_mode
<1>3. PICK f : f = [k EXCEPT !.mode = m]
  OBVIOUS
<1>4. f \in Tips
  BY <1>2, <1>3 DEF Tips
<1>. QED  BY <1>1, <1>3, <1>4, Cancels DEF tip_toggle_mode

\* tip_set_mode
LEMMA SetsMode ==
  ASSUME NEW k, TipOK(k), NEW mode \in {"ASCII", "HIRAGANA", "KATAKANA", "TIBETAN"}
  PROVE  TipOK(tip_set_mode(k, mode))
<1>1. PICK f : f = [k EXCEPT !.mode = mode]
  OBVIOUS
<1>2. k \in Tips
  BY DEF TipOK
<1>3. f \in Tips /\ f.state = k.state /\ f.romaji = k.romaji
      /\ f.candidate_window_visible = k.candidate_window_visible
  BY <1>1, <1>2 DEF Tips
<1>4. CASE Composing(k)
  BY <1>1, <1>3, <1>4, Cancels DEF tip_set_mode
<1>5. CASE ~Composing(k)
  <2>1. TipOK(f)
    BY <1>3, <1>5 DEF TipOK, Composing, Converting
  <2>. QED  BY <1>1, <1>5, <2>1 DEF tip_set_mode
<1>. QED  BY <1>4, <1>5

\* A converted composition.
LEMMA Converted ==
  ASSUME NEW f \in Tips, f.state \in {"CONVERTING", "CANDIDATE_SELECT"}, f.romaji # <<>>, f.mode # "ASCII",
         ClausesOK(f)
  PROVE  TipOK(f)
BY DEF TipOK, Composing, Converting

\* What the state of a composition says.
LEMMA UnderWay ==
  ASSUME NEW k, TipOK(k), Composing(k)
  PROVE  /\ k \in Tips /\ k.romaji # <<>> /\ k.mode # "ASCII"
         /\ k.state \in {"PRECOMP", "CONVERTING", "CANDIDATE_SELECT"}
         /\ Converting(k) => ClausesOK(k)
         /\ ~Converting(k) => k.state = "PRECOMP" /\ ~k.candidate_window_visible
BY DEF TipOK, Composing, Converting, Tips

\* One clause that holds the whole composition.
LEMMA OneClause ==
  ASSUME NEW f \in Tips, f.num_clauses = 1, f.clauses[0].reading = held(reading_buf(f)), Offered(f.clauses[0])
  PROVE  ClausesOK(f)
<1>1. PICK r, n : r = reading_buf(f) /\ n = Len(r)
  OBVIOUS
<1>2. r \in Spelling /\ n \in Nat
  BY <1>1, TipFields, ReadingType
<1>3. start(r, n) = r
  BY <1>1, <1>2, StartType
<1>4. Readings(f) = <<held(r)>>
  BY <1>1 DEF Readings
<1>5. Readings(f)[1] = held(r) /\ [Readings(f) EXCEPT ![1] = r] = <<r>>
  BY <1>4
<1>6. FlattenSeq(<<r>>) = r
  BY <1>2, FlattenOne
<1>7. \A i \in Slots : i < 1 => i = 0
  BY TipSizes
<1>. QED  BY <1>1, <1>2, <1>3, <1>5, <1>6, <1>7 DEF ClausesOK

\* F6, F7 and F8
LEMMA Kana ==
  ASSUME TipOK(tip), NEW as \in {"hiragana", "katakana", "halfwidth"}, KeyKana(as)
  PROVE  TipOK(tip')
<1>1. as \in Ways
  BY DEF Ways
<1>2. CASE Composing(tip) /\ \E k \in IF Converting(tip) THEN {tip}
                  ELSE {[f EXCEPT !.state = "CONVERTING"] : f \in mozc_lattice_search(tip)} :
             Becomes(rewrite(k, as))
  <2>1. tip \in Tips /\ tip.romaji # <<>> /\ tip.mode # "ASCII"
    BY <1>2, UnderWay
  <2>2. PICK k : /\ k \in IF Converting(tip) THEN {tip}
                          ELSE {[f EXCEPT !.state = "CONVERTING"] : f \in mozc_lattice_search(tip)}
                 /\ tip' = rewrite(k, as)
    BY <1>2 DEF Becomes
  <2>3. /\ k \in Tips /\ k.state \in {"CONVERTING", "CANDIDATE_SELECT"} /\ k.romaji = tip.romaji
        /\ k.mode = tip.mode /\ ClausesOK(k)
    <3>1. CASE Converting(tip)
      BY <1>2, <2>1, <2>2, <3>1, UnderWay DEF Converting
    <3>2. CASE ~Converting(tip)
      <4>1. PICK f \in mozc_lattice_search(tip) : k = [f EXCEPT !.state = "CONVERTING"]
        BY <2>2, <3>2
      <4>2. Apart(f, tip) /\ ClausesOK(f)
        BY <2>1, <4>1, Searches
      <4>3. f \in Tips /\ f.romaji = tip.romaji /\ f.mode = tip.mode
        BY <4>2 DEF Apart
      <4>4. /\ k \in Tips /\ k.state = "CONVERTING" /\ k.romaji = f.romaji /\ k.mode = f.mode
            /\ k.num_clauses = f.num_clauses /\ k.clauses = f.clauses
        BY <4>1, <4>3 DEF Tips
      <4>. QED  BY <4>2, <4>3, <4>4, SameClauses
    <3>. QED  BY <3>1, <3>2
  <2>4. PICK f : f = rewrite(k, as)
    OBVIOUS
  <2>5. Apart(f, k) /\ ClausesOK(f)
    BY <1>1, <2>3, <2>4, Rewrites
  <2>6. TipOK(f)
    BY <2>1, <2>3, <2>5, Converted DEF Apart
  <2>. QED  BY <2>2, <2>4, <2>6
<1>3. CASE Becomes(tip_set_mode(tip, IF as = "hiragana" THEN "HIRAGANA" ELSE "KATAKANA"))
  <2>1. PICK mode : mode = IF as = "hiragana" THEN "HIRAGANA" ELSE "KATAKANA"
    OBVIOUS
  <2>2. mode \in {"ASCII", "HIRAGANA", "KATAKANA", "TIBETAN"}
    BY <2>1
  <2>. QED  BY <1>3, <2>1, <2>2, SetsMode DEF Becomes
<1>. QED  BY <1>2, <1>3 DEF KeyKana

\* F9
LEMMA Fullwidth ==
  ASSUME TipOK(tip), KeyFullwidth
  PROVE  TipOK(tip')
<1>1. tip \in Tips /\ tip.romaji # <<>> /\ tip.mode # "ASCII"
  BY UnderWay DEF KeyFullwidth
<1>2. PICK r, w, o : /\ r = held(reading_buf(tip)) /\ w = Written(tip.romaji, "fullwidth")
                     /\ o = tip.clauses[0]
  OBVIOUS
<1>3. "fullwidth" \in Ways
  BY DEF Ways
<1>4. r \in Spelling /\ w \in Piece /\ w.as = "fullwidth" /\ o \in Clause
  BY <1>1, <1>2, <1>3, WrittenType, TipFields, TipSizes, ReadingType, HeldType
<1>14. w.of = Written(r, "fullwidth").of
  <2>1. PICK h, m : h = room("hiragana", TIP_MAX_STR_LEN) /\ m = room("fullwidth", TIP_MAX_STR_LEN)
    OBVIOUS
  <2>2. MaxReading \in Nat /\ h \in 0..MaxReading /\ m \in 0..h
    BY <2>1, RoomSizes
  <2>3. tip.romaji \in Spelling /\ h \in Nat /\ m \in Nat
    BY <1>1, <2>2, TipFields
  <2>4. start(reading_buf(tip), h) = start(tip.romaji, h)
    BY <2>2, <2>3, StartStart DEF reading_buf
  <2>5. r = start(tip.romaji, h)
    BY <1>2, <2>1, <2>4 DEF held
  <2>6. start(start(tip.romaji, h), m) = start(tip.romaji, m)
    BY <2>2, <2>3, StartStart
  <2>7. w.of = start(tip.romaji, m) /\ Written(r, "fullwidth").of = start(r, m)
    BY <1>2, <1>3, <1>4, <2>1, <2>3, WrittenType
  <2>. QED  BY <2>5, <2>6, <2>7
<1>5. PICK x : x = [[o EXCEPT !.reading = r] EXCEPT !.converted = w]
  OBVIOUS
<1>6. x \in Clause /\ x.reading = r /\ x.converted = w
  BY <1>4, <1>5 DEF Clause
<1>7. PICK slots : slots = [tip.clauses EXCEPT ![0] = x]
  OBVIOUS
<1>8. slots \in [Slots -> Clause] /\ slots[0] = x
  BY <1>1, <1>6, <1>7, TipFields, TipSizes
<1>9. PICK f : f = [tip EXCEPT !.state = "CONVERTING", !.num_clauses = 1, !.active_clause = 0, !.clauses = slots]
  OBVIOUS
<1>10. /\ f \in Tips /\ f.state = "CONVERTING" /\ f.romaji = tip.romaji /\ f.mode = tip.mode
       /\ f.num_clauses = 1 /\ f.clauses = slots
  <2>1. 1 \in 0..TIP_MAX_CLAUSES /\ 0 \in Slots
    BY TipSizes
  <2>. QED  BY <1>1, <1>2, <1>8, <1>9, <2>1 DEF Tips
<1>11. tip' = f
  <2>1. tip' = [tip EXCEPT !.state = "CONVERTING", !.num_clauses = 1, !.active_clause = 0,
                           !.clauses[0].reading = r, !.clauses[0].converted = w]
    BY <1>2 DEF KeyFullwidth, Becomes
  <2>2. tip.clauses \in [Slots -> Clause] /\ 0 \in Slots
    BY <1>1, TipFields, TipSizes
  <2>. QED  BY <1>1, <1>2, <1>5, <1>7, <1>9, <2>1, <2>2 DEF Tips
<1>12. Offered(x)
  BY <1>4, <1>6, <1>14 DEF Offered, Faithful
<1>13. ClausesOK(f)
  <2>1. reading_buf(f) = reading_buf(tip)
    BY <1>10 DEF reading_buf
  <2>. QED  BY <1>2, <1>6, <1>8, <1>10, <1>12, <2>1, OneClause
<1>. QED  BY <1>1, <1>2, <1>10, <1>11, <1>13, Converted

\* Backspace
LEMMA GoesBack ==
  ASSUME TipOK(tip), KeyBackspace
  PROVE  TipOK(tip')
<1>1. CASE tip.state = "CANDIDATE_SELECT"
  <2>1. Composing(tip) /\ Converting(tip)
    BY <1>1 DEF Composing, Converting
  <2>2. tip \in Tips /\ tip.romaji # <<>> /\ tip.mode # "ASCII" /\ ClausesOK(tip)
    BY <2>1, UnderWay
  <2>3. PICK f : f = [tip EXCEPT !.state = "CONVERTING", !.candidate_window_visible = FALSE]
    OBVIOUS
  <2>4. tip' = f
    BY <1>1, <2>3 DEF KeyBackspace, Becomes
  <2>5. /\ f \in Tips /\ f.state = "CONVERTING" /\ f.romaji = tip.romaji /\ f.mode = tip.mode
        /\ f.num_clauses = tip.num_clauses /\ f.clauses = tip.clauses
    BY <2>2, <2>3 DEF Tips
  <2>. QED  BY <2>2, <2>4, <2>5, SameClauses, Converted
<1>2. CASE tip.state = "CONVERTING"
  <2>1. Composing(tip)
    BY <1>2 DEF Composing
  <2>2. tip \in Tips /\ tip.romaji # <<>> /\ tip.mode # "ASCII"
    BY <2>1, UnderWay
  <2>3. PICK k : k = left_behind(tip)
    OBVIOUS
  <2>4. k \in Tips /\ k.romaji = tip.romaji /\ k.mode = tip.mode
    BY <2>2, <2>3, Cancels DEF Apart
  <2>5. tip' = [k EXCEPT !.state = "PRECOMP", !.candidate_window_visible = FALSE]
    BY <1>2, <2>3 DEF KeyBackspace, Becomes
  <2>6. PICK f : f = [k EXCEPT !.state = "PRECOMP", !.candidate_window_visible = FALSE]
    OBVIOUS
  <2>7. /\ f \in Tips /\ f.state = "PRECOMP" /\ f.romaji = k.romaji /\ f.mode = k.mode
        /\ f.candidate_window_visible = FALSE
    BY <2>4, <2>6 DEF Tips
  <2>8. TipOK(f)
    BY <2>2, <2>4, <2>7 DEF TipOK, Composing, Converting
  <2>. QED  BY <2>5, <2>6, <2>8
<1>3. CASE tip.state = "PRECOMP"
  <2>1. Composing(tip) /\ ~Converting(tip)
    BY <1>3 DEF Composing, Converting
  <2>2. tip \in Tips /\ tip.romaji # <<>> /\ tip.mode # "ASCII" /\ tip.candidate_window_visible = FALSE
    <3>1. tip \in Tips /\ tip.romaji # <<>> /\ tip.mode # "ASCII" /\ ~tip.candidate_window_visible
      BY <2>1, UnderWay
    <3>. QED  BY <3>1, TipFields
  <2>3. PICK rest : rest = Front(tip.romaji)
    OBVIOUS
  <2>4. rest \in Spelling
    <3>1. tip.romaji \in Seq(Letters) /\ Len(tip.romaji) \in Nat
      BY <2>2, TipFields, LenProperties DEF Spelling
    <3>2. \A i \in 1..Len(tip.romaji) - 1 : tip.romaji[i] \in Letters
      BY <3>1, ElementOfSeq
    <3>. QED  BY <2>3, <3>1, <3>2, SubSeqProperties DEF Front, Spelling
  <2>5. PICK s : s = IF rest = <<>> THEN "IDLE" ELSE "PRECOMP"
    OBVIOUS
  <2>6. PICK f : f = [tip EXCEPT !.romaji = rest, !.state = s]
    OBVIOUS
  <2>7. tip' = f
    BY <1>3, <2>3, <2>5, <2>6 DEF KeyBackspace, Becomes
  <2>8. /\ f \in Tips /\ f.state = s /\ f.romaji = rest /\ f.mode = tip.mode
        /\ f.candidate_window_visible = FALSE
    BY <2>2, <2>4, <2>5, <2>6 DEF Tips
  <2>9. TipOK(f)
    BY <2>2, <2>5, <2>8 DEF TipOK, Composing, Converting
  <2>. QED  BY <2>7, <2>9
<1>. QED  BY <1>1, <1>2, <1>3 DEF KeyBackspace

\* Tab and F4 in Tibetan
LEMMA LooksUp ==
  ASSUME TipOK(tip), KeyLookup
  PROVE  TipOK(tip')
<1>1. CASE tip.state = "PRECOMP"
  <2>1. Composing(tip) /\ ~Converting(tip)
    BY <1>1 DEF Composing, Converting
  <2>2. tip \in Tips /\ tip.romaji # <<>> /\ tip.mode # "ASCII"
    BY <2>1, UnderWay
  <2>3. PICK r, c : r = held(reading_buf(tip)) /\ c = tibetan_lookup_candidates(tip.romaji, reading_buf(tip))
    OBVIOUS
  <2>4. r \in Spelling /\ c \in Seq(Piece) /\ Len(c) \in Nat \ {0}
    BY <2>2, <2>3, TipFields, ReadingType, HeldType, LookupFinds
  <2>5. PICK x : x = new_clause(r, c)
    OBVIOUS
  <2>6. x \in Clause /\ x.reading = r /\ Offered(x)
    BY <2>4, <2>5, NewClause
  <2>7. PICK slots : slots = [tip.clauses EXCEPT ![0] = x]
    OBVIOUS
  <2>8. slots \in [Slots -> Clause] /\ slots[0] = x
    BY <2>2, <2>6, <2>7, TipFields, TipSizes
  <2>9. PICK f : f = [tip EXCEPT !.state = "CANDIDATE_SELECT", !.candidate_window_visible = TRUE,
                                !.num_clauses = 1, !.active_clause = 0, !.clauses = slots]
    OBVIOUS
  <2>10. /\ f \in Tips /\ f.state = "CANDIDATE_SELECT" /\ f.romaji = tip.romaji /\ f.mode = tip.mode
         /\ f.num_clauses = 1 /\ f.clauses = slots
    <3>1. 1 \in 0..TIP_MAX_CLAUSES /\ 0 \in Slots
      BY TipSizes
    <3>. QED  BY <2>2, <2>3, <2>8, <2>9, <3>1 DEF Tips
  <2>11. tip' = f
    <3>1. ~Converting(tip)
      BY <2>1
    <3>2. tip' = [tip EXCEPT !.state = "CANDIDATE_SELECT", !.candidate_window_visible = TRUE,
                            !.num_clauses = 1, !.active_clause = 0, !.clauses[0] = x]
      BY <2>3, <2>5, <3>1 DEF KeyLookup, Becomes
    <3>. QED  BY <2>2, <2>7, <2>9, <3>2 DEF Tips
  <2>12. ClausesOK(f)
    <3>1. reading_buf(f) = reading_buf(tip)
      BY <2>10 DEF reading_buf
    <3>. QED  BY <2>3, <2>6, <2>8, <2>10, <3>1, OneClause
  <2>. QED  BY <2>2, <2>3, <2>10, <2>11, <2>12, Converted
<1>2. CASE Converting(tip) /\ Becomes(cycle(tip, 1))
  <2>1. Composing(tip)
    BY <1>2 DEF Composing, Converting
  <2>2. tip \in Tips /\ tip.romaji # <<>> /\ tip.mode # "ASCII" /\ ClausesOK(tip)
    BY <1>2, <2>1, UnderWay
  <2>3. PICK f : f = cycle(tip, 1)
    OBVIOUS
  <2>4. Apart(f, tip) /\ ClausesOK(f)
    BY <2>2, <2>3, Cycles
  <2>5. TipOK(f)
    BY <1>2, <2>2, <2>4, Converted DEF Apart, Converting
  <2>. QED  BY <1>2, <2>3, <2>5 DEF Becomes
<1>. QED  BY <1>1, <1>2 DEF KeyLookup

\* Up, Down, and Space in a conversion
LEMMA NextCandidate ==
  ASSUME TipOK(tip), NEW d \in {1, -1}, KeyCandidate(d)
  PROVE  TipOK(tip')
<1>1. Composing(tip) /\ Converting(tip)
  BY DEF Composing, Converting, KeyCandidate
<1>2. tip \in Tips /\ tip.romaji # <<>> /\ tip.mode # "ASCII" /\ ClausesOK(tip)
  BY <1>1, UnderWay
<1>3. PICK k : k = [tip EXCEPT !.state = "CANDIDATE_SELECT", !.candidate_window_visible = TRUE]
  OBVIOUS
<1>4. /\ k \in Tips /\ k.state = "CANDIDATE_SELECT" /\ k.romaji = tip.romaji /\ k.mode = tip.mode
      /\ k.num_clauses = tip.num_clauses /\ k.clauses = tip.clauses
  BY <1>2, <1>3 DEF Tips
<1>5. ClausesOK(k)
  BY <1>2, <1>4, SameClauses
<1>6. PICK f : f = cycle(k, d)
  OBVIOUS
<1>7. Apart(f, k) /\ ClausesOK(f)
  BY <1>4, <1>5, <1>6, Cycles
<1>8. TipOK(f)
  BY <1>2, <1>4, <1>7, Converted DEF Apart
<1>. QED  BY <1>3, <1>6, <1>8 DEF KeyCandidate, Becomes

\* Space in the Japanese modes
LEMMA Converts ==
  ASSUME TipOK(tip), KeyConvert
  PROVE  TipOK(tip')
<1>1. CASE tip.state = "PRECOMP" /\ \E f \in mozc_lattice_search(tip) :
               Becomes([(IF tip.mode = "KATAKANA" THEN rewrite(f, "katakana") ELSE f)
                         EXCEPT !.active_clause = 0, !.state = "CONVERTING",
                                !.candidate_window_visible = TRUE])
  <2>1. Composing(tip)
    BY <1>1 DEF Composing
  <2>2. tip \in Tips /\ tip.romaji # <<>> /\ tip.mode # "ASCII"
    BY <2>1, UnderWay
  <2>3. PICK f \in mozc_lattice_search(tip) :
               tip' = [(IF tip.mode = "KATAKANA" THEN rewrite(f, "katakana") ELSE f)
                         EXCEPT !.active_clause = 0, !.state = "CONVERTING",
                                !.candidate_window_visible = TRUE]
    BY <1>1 DEF Becomes
  <2>4. PICK k : k = IF tip.mode = "KATAKANA" THEN rewrite(f, "katakana") ELSE f
    OBVIOUS
  <2>5. k \in Tips /\ ClausesOK(k) /\ k.romaji = tip.romaji /\ k.mode = tip.mode
    <3>1. Apart(f, tip) /\ ClausesOK(f)
      BY <2>2, Searches
    <3>2. f \in Tips /\ f.romaji = tip.romaji /\ f.mode = tip.mode /\ "katakana" \in Ways
      BY <3>1 DEF Apart, Ways
    <3>3. Apart(rewrite(f, "katakana"), f) /\ ClausesOK(rewrite(f, "katakana"))
      BY <3>1, <3>2, Rewrites
    <3>. QED  BY <2>4, <3>1, <3>2, <3>3 DEF Apart
  <2>6. PICK g : g = [k EXCEPT !.active_clause = 0, !.state = "CONVERTING", !.candidate_window_visible = TRUE]
    OBVIOUS
  <2>7. /\ g \in Tips /\ g.state = "CONVERTING" /\ g.romaji = k.romaji /\ g.mode = k.mode
        /\ g.num_clauses = k.num_clauses /\ g.clauses = k.clauses
    <3>1. 0 \in Slots
      BY TipSizes
    <3>. QED  BY <2>5, <2>6, <3>1 DEF Tips
  <2>8. ClausesOK(g)
    BY <2>5, <2>7, SameClauses
  <2>9. TipOK(g)
    BY <2>2, <2>5, <2>7, <2>8, Converted
  <2>. QED  BY <2>3, <2>4, <2>6, <2>9
<1>2. CASE KeyCandidate(1)
  BY <1>2, NextCandidate
<1>. QED  BY <1>1, <1>2 DEF KeyConvert

\* Left and Right
LEMMA NextClause ==
  ASSUME TipOK(tip), NEW d \in {1, -1}, KeyClause(d)
  PROVE  TipOK(tip')
<1>1. Composing(tip) /\ Converting(tip) /\ tip.num_clauses > 1
  BY DEF Composing, Converting, KeyClause
<1>2. tip \in Tips /\ tip.romaji # <<>> /\ tip.mode # "ASCII" /\ ClausesOK(tip)
  BY <1>1, UnderWay
<1>3. PICK n, a : n = tip.num_clauses /\ a = (tip.active_clause + d + tip.num_clauses) % tip.num_clauses
  OBVIOUS
<1>4. a \in Slots
  <2>1. n \in 0..TIP_MAX_CLAUSES /\ tip.active_clause \in Nat /\ TIP_MAX_CLAUSES \in Nat
    BY <1>2, <1>3, TipFields, TipSizes
  <2>2. a \in 0..n - 1
    BY <1>1, <1>3, <2>1
  <2>. QED  BY <2>1, <2>2 DEF Slots
<1>5. PICK f : f = [tip EXCEPT !.active_clause = a]
  OBVIOUS
<1>6. /\ f \in Tips /\ f.state = tip.state /\ f.romaji = tip.romaji /\ f.mode = tip.mode
      /\ f.num_clauses = tip.num_clauses /\ f.clauses = tip.clauses
  BY <1>2, <1>4, <1>5 DEF Tips
<1>7. ClausesOK(f)
  BY <1>2, <1>6, SameClauses
<1>8. TipOK(f)
  BY <1>1, <1>2, <1>6, <1>7, Converted DEF Converting
<1>9. tip' = f
  BY <1>3, <1>5 DEF KeyClause, Becomes
<1>. QED  BY <1>8, <1>9

\* A digit
LEMMA Digits ==
  ASSUME TipOK(tip), NEW n \in 0 .. 8, KeyDigit(n)
  PROVE  TipOK(tip')
<1>. DEFINE closed(f) == [f EXCEPT !.state = "CONVERTING", !.candidate_window_visible = FALSE]
<1>1. tip.state = "CANDIDATE_SELECT" /\ Composing(tip) /\ Converting(tip)
  BY DEF Composing, Converting, KeyDigit
<1>2. tip \in Tips /\ tip.romaji # <<>> /\ tip.mode # "ASCII" /\ ClausesOK(tip)
  BY <1>1, UnderWay
<1>3. ASSUME NEW f \in Tips, ClausesOK(f), f.romaji = tip.romaji, f.mode = tip.mode
      PROVE  TipOK(closed(f))
  <2>1. PICK g : g = closed(f)
    OBVIOUS
  <2>2. /\ g \in Tips /\ g.state = "CONVERTING" /\ g.romaji = f.romaji /\ g.mode = f.mode
        /\ g.num_clauses = f.num_clauses /\ g.clauses = f.clauses
    BY <2>1 DEF Tips
  <2>3. ClausesOK(g)
    BY <1>3, <2>2, SameClauses
  <2>. QED  BY <1>2, <1>3, <2>1, <2>2, <2>3, Converted
<1>4. PICK c : c = tip.active_clause
  OBVIOUS
<1>5. c \in Slots /\ tip.num_clauses \in 0..TIP_MAX_CLAUSES
  BY <1>2, <1>4, TipFields
<1>6. CASE Becomes(tip) \/ Becomes(closed(tip))
  BY <1>2, <1>3, <1>6 DEF Becomes
<1>7. CASE /\ c < tip.num_clauses /\ n < Len(tip.clauses[c].candidates)
           /\ Becomes(IF c + 1 < tip.num_clauses THEN [select(tip, c, n) EXCEPT !.active_clause = @ + 1]
                                                 ELSE closed(select(tip, c, n)))
  <2>1. PICK k : k = select(tip, c, n)
    OBVIOUS
  <2>2. Apart(k, tip) /\ ClausesOK(k) /\ k.num_clauses = tip.num_clauses
    BY <1>2, <1>5, <1>7, <2>1, Selects
  <2>3. k \in Tips /\ k.romaji = tip.romaji /\ k.mode = tip.mode /\ k.active_clause = c /\ k.state = tip.state
    BY <1>4, <2>2 DEF Apart
  <2>4. CASE c + 1 < tip.num_clauses
    <3>1. c + 1 \in Slots
      BY <1>5, <2>4, TipSizes DEF Slots
    <3>2. PICK f : f = [k EXCEPT !.active_clause = c + 1]
      OBVIOUS
    <3>3. /\ f \in Tips /\ f.state = k.state /\ f.romaji = k.romaji /\ f.mode = k.mode
          /\ f.num_clauses = k.num_clauses /\ f.clauses = k.clauses
      BY <2>3, <3>1, <3>2 DEF Tips
    <3>4. ClausesOK(f)
      BY <2>2, <3>3, SameClauses
    <3>5. TipOK(f)
      BY <1>1, <1>2, <2>3, <3>3, <3>4, Converted
    <3>6. tip' = f
      BY <1>7, <2>1, <2>3, <2>4, <3>2 DEF Becomes, Tips
    <3>. QED  BY <3>5, <3>6
  <2>5. CASE ~(c + 1 < tip.num_clauses)
    BY <1>3, <1>7, <2>1, <2>2, <2>3, <2>5 DEF Becomes
  <2>. QED  BY <2>4, <2>5
<1>. QED  BY <1>4, <1>6, <1>7 DEF KeyDigit

\* A letter
LEMMA TypesLetter ==
  ASSUME TipOK(tip), NEW a \in Letters, KeyLetter(a)
  PROVE  TipOK(tip')
<1>1. PICK k : k = IF Converting(tip) THEN tip_cancel(tip) ELSE tip
  OBVIOUS
<1>2. tip \in Tips /\ tip.mode # "ASCII"
  BY DEF TipOK, KeyLetter
<1>3. TipOK(k) /\ ~Converting(k) /\ k.mode # "ASCII"
  <2>1. TipOK(tip_cancel(tip)) /\ ~Composing(tip_cancel(tip)) /\ tip_cancel(tip).mode = tip.mode
    BY <1>2, Cancels
  <2>. QED  BY <1>1, <1>2, <2>1 DEF Composing, Converting
<1>4. k \in Tips /\ ~k.candidate_window_visible
  BY <1>3 DEF TipOK
<1>5. PICK s : s = Append(k.romaji, a)
  OBVIOUS
<1>6. s \in Spelling /\ s # <<>>
  <2>1. k.romaji \in Seq(Letters)
    BY <1>4, TipFields DEF Spelling
  <2>. QED  BY <1>5, <2>1, AppendProperties DEF Spelling
<1>7. PICK f : f = [k EXCEPT !.romaji = s, !.state = "PRECOMP"]
  OBVIOUS
<1>8. /\ f \in Tips /\ f.state = "PRECOMP" /\ f.romaji = s /\ f.mode = k.mode
      /\ f.candidate_window_visible = k.candidate_window_visible
  BY <1>4, <1>6, <1>7 DEF Tips
<1>9. TipOK(f)
  BY <1>3, <1>4, <1>6, <1>8 DEF TipOK, Composing, Converting
<1>10. tip' = f
  BY <1>1, <1>4, <1>5, <1>7 DEF KeyLetter, Tips
<1>. QED  BY <1>9, <1>10

\* Every key and every call keeps the composition in order.
LEMMA TipStep ==
  ASSUME TipOK(tip), TipNext
  PROVE  TipOK(tip')
<1>1. tip \in Tips
  BY DEF TipOK
<1>2. TipOK(tip_cancel(tip)) /\ TipOK(tip_toggle_mode(tip))
  BY <1>1, Cancels, Toggles
<1>3. CASE KeyToggle \/ KeyEscape \/ KeyEnter \/ KeyTsheg
  BY <1>2, <1>3 DEF KeyToggle, KeyEscape, KeyEnter, KeyTsheg, Commit, Becomes
<1>4. CASE KeyFullwidth \/ KeyBackspace \/ KeyLookup \/ KeyConvert
  BY <1>4, Fullwidth, GoesBack, LooksUp, Converts
<1>5. CASE \E as \in {"hiragana", "katakana", "halfwidth"} : KeyKana(as)
  BY <1>5, Kana
<1>6. CASE \E d \in {1, -1} : KeyCandidate(d) \/ KeyClause(d)
  BY <1>6, NextCandidate, NextClause
<1>7. CASE (\E n \in 0 .. 8 : KeyDigit(n)) \/ \E a \in Letters : KeyLetter(a)
  BY <1>7, Digits, TypesLetter
<1>8. CASE TipCalls
  <2>1. CASE Becomes(tip_cancel(tip))
    BY <1>2, <2>1 DEF Becomes
  <2>2. ASSUME NEW mode \in {"ASCII", "HIRAGANA", "KATAKANA", "TIBETAN"}, Becomes(tip_set_mode(tip, mode))
        PROVE  TipOK(tip')
    BY <2>2, SetsMode DEF Becomes
  <2>. QED  BY <1>8, <2>1, <2>2 DEF TipCalls
<1>. QED  BY <1>3, <1>4, <1>5, <1>6, <1>7, <1>8 DEF TipNext, tip_process_key

\* A text is the start of itself.
LEMMA StartsItself ==
  ASSUME NEW s \in Spelling
  PROVE  IsPrefix(s, s)
<1>1. Len(s) \in Nat
  BY LenProperties DEF Spelling
<1>. QED  BY <1>1 DEF IsPrefix

\* A piece takes some bytes.
LEMMA SizeType ==
  ASSUME NEW w \in Piece
  PROVE  size(w) \in Nat
<1>1. w.of \in Seq(Letters)
  BY DEF Piece, Spelling
<1>2. Len(w.of) \in Nat
  BY <1>1, LenProperties
<1>3. TIP_MAX_STR_LEN \in Nat /\ TIP_MAX_STR_LEN > 3
  BY TextInputAssumption DEF LETTER
<1>. QED  BY <1>2, <1>3 DEF size, LETTER

\* g[n] is the number of bytes of the first n pieces of t.
SizesTo(t, g) == /\ g \in [0..Len(t) -> Nat] /\ g[0] = 0
                /\ \A n \in 1..Len(t) : g[n] = g[n - 1] + size(t[n])

\* There are such numbers for every text.
LEMMA SizesExist ==
  ASSUME NEW t \in Seq(Piece)
  PROVE  \E g : SizesTo(t, g)
<1>. DEFINE N == Len(t)
            step == [z \in (1..N) \X Nat |-> z[2] + size(t[z[1]])]
<1>1. N \in Nat /\ \A n \in 1..N : size(t[n]) \in Nat
  BY LenProperties, ElementOfSeq, SizeType
<1>. HIDE DEF N
<1>2. step \in [(1..N) \X Nat -> Nat]
  BY <1>1
<1>3. ASSUME NEW n \in 1..N, NEW v \in Nat  PROVE step[<<n, v>>] = v + size(t[n])
  OBVIOUS
<1>. HIDE DEF step
<1>4. Recursion(N, Nat, 0, step)
  BY <1>1, <1>2 DEF Recursion
<1>5. PICK g : Solves(g, N, Nat, 0, step)
  BY <1>4, RecursionExists
<1>6. g \in [0..N -> Nat] /\ g[0] = 0 /\ \A n \in 1..N : g[n] = step[<<n, g[n - 1]>>]
  BY <1>5 DEF Solves
<1>7. ASSUME NEW n \in 1..N  PROVE g[n] = g[n - 1] + size(t[n])
  <2>1. n - 1 \in 0..N
    BY <1>1
  <2>2. g[n - 1] \in Nat
    BY <1>6, <2>1
  <2>. QED  BY <1>3, <1>6, <2>2
<1>. QED  BY <1>6, <1>7 DEF SizesTo, N

\* Any such numbers end with bytes.
LEMMA SizesBytes ==
  ASSUME NEW t \in Seq(Piece), NEW g, SizesTo(t, g)
  PROVE  bytes(t) = g[Len(t)]
<1>. DEFINE N == Len(t)
            turns(f) == [n \in 0..Len(t) |-> IF n = 0 THEN 0 ELSE f[n - 1] + size(t[n])]
            total == CHOOSE f : f = [n \in 0..Len(t) |-> IF n = 0 THEN 0 ELSE f[n - 1] + size(t[n])]
<1>1. N \in Nat
  BY LenProperties
<1>2. bytes(t) = total[N]
  BY DEF bytes
<1>3. \A f : f = turns(f) => total = turns(total)
  BY Zenon DEF total
<1>4. g \in [0..N -> Nat] /\ g[0] = 0 /\ \A n \in 1..N : g[n] = g[n - 1] + size(t[n])
  BY DEF SizesTo
<1>. HIDE DEF total
<1>5. g = turns(g)
  <2>1. PICK h : h = turns(g)
    OBVIOUS
  <2>2. ASSUME NEW n \in 0..N  PROVE g[n] = h[n]
    <3>1. n = 0 \/ n \in 1..N
      BY <1>1
    <3>. QED  BY <1>4, <2>1, <3>1
  <2>. QED  BY <1>4, <2>1, <2>2
<1>6. total = turns(total)
  BY <1>3, <1>5
<1>7. \A n \in 0..N : total[n] = IF n = 0 THEN 0 ELSE total[n - 1] + size(t[n])
  BY <1>6
<1>. DEFINE P == {n \in Nat : n <= N => total[n] = g[n]}
<1>. HIDE DEF N, turns
<1>8. 0 \in P
  BY <1>1, <1>4, <1>7
<1>9. ASSUME NEW n \in Nat, n \in P  PROVE n + 1 \in P
  <2>1. n + 1 <= N => n + 1 \in 1..N /\ n + 1 \in 0..N /\ n + 1 # 0 /\ (n + 1) - 1 = n /\ n <= N
    BY <1>1
  <2>. QED  BY <1>4, <1>7, <1>9, <2>1
<1>. HIDE DEF P
<1>10. N \in P
  BY <1>1, <1>8, <1>9, SetInduction
<1>. QED  BY <1>1, <1>2, <1>10 DEF P, N

\* The first pieces of a text: one more, and no more bytes than the text.
LEMMA FirstPieces ==
  ASSUME NEW t \in Seq(Piece), NEW n \in 1..Len(t)
  PROVE  /\ Append(SubSeq(t, 1, n - 1), t[n]) = SubSeq(t, 1, n)
         /\ bytes(SubSeq(t, 1, n)) \in Nat /\ bytes(t) \in Nat /\ bytes(SubSeq(t, 1, n)) <= bytes(t)
<1>1. PICK N : N = Len(t)
  OBVIOUS
<1>2. N \in Nat /\ n \in 1..N /\ n - 1 \in 0..N /\ \A i \in 1..N : t[i] \in Piece
  BY <1>1, LenProperties, ElementOfSeq
<1>3. PICK a, b : a = SubSeq(t, 1, n - 1) /\ b = SubSeq(t, 1, n)
  OBVIOUS
<1>4. (\A i \in 1..n - 1 : t[i] \in Piece) /\ (\A i \in 1..n : t[i] \in Piece)
  BY <1>2
<1>5. a \in Seq(Piece) /\ Len(a) = n - 1 /\ \A i \in 1..n - 1 : a[i] = t[i]
  BY <1>2, <1>3, <1>4, SubSeqProperties
<1>6. b \in Seq(Piece) /\ Len(b) = n /\ \A i \in 1..n : b[i] = t[i]
  BY <1>2, <1>3, <1>4, SubSeqProperties
<1>7. PICK c : c = Append(a, t[n])
  OBVIOUS
<1>8. c \in Seq(Piece) /\ Len(c) = n /\ c[n] = t[n] /\ \A i \in 1..n - 1 : c[i] = t[i]
  BY <1>2, <1>5, <1>7, AppendProperties
<1>9. \A i \in 1..n : c[i] = b[i]
  <2>1. \A i \in 1..n : i = n \/ i \in 1..n - 1
    BY <1>2
  <2>. QED  BY <1>6, <1>8, <2>1
<1>10. c = b
  BY ONLY <1>6, <1>8, <1>9, SeqEqual
<1>11. PICK g : SizesTo(t, g)
  BY SizesExist
<1>12. /\ g \in [0..N -> Nat] /\ g[0] = 0 /\ (\A i \in 1..N : g[i] = g[i - 1] + size(t[i]))
       /\ bytes(t) = g[N]
  BY <1>1, <1>11, SizesBytes DEF SizesTo
<1>13. PICK h : h = [i \in 0..n |-> g[i]]
  OBVIOUS
<1>14. (\A i \in 0..n : i \in 0..N) /\ (\A i \in 1..n : i \in 0..n /\ i - 1 \in 0..n /\ i \in 1..N)
       /\ 0 \in 0..n /\ n \in 0..n
  BY <1>2
<1>15. h \in [0..n -> Nat] /\ h[0] = 0 /\ h[n] = g[n] /\ \A i \in 1..n : h[i] = h[i - 1] + size(b[i])
  BY <1>6, <1>12, <1>13, <1>14
<1>16. SizesTo(b, h)
  BY <1>6, <1>15 DEF SizesTo
<1>17. bytes(b) = g[n]
  BY <1>6, <1>15, <1>16, SizesBytes
<1>18. g[n] <= g[N]
  <2>. DEFINE P == {m \in Nat : n + m <= N => g[n] <= g[n + m]}
  <2>1. 0 \in P
    BY <1>2, <1>12
  <2>2. ASSUME NEW m \in Nat, m \in P  PROVE m + 1 \in P
    <3>. SUFFICES ASSUME n + (m + 1) <= N  PROVE g[n] <= g[n + (m + 1)]
      OBVIOUS
    <3>1. n + (m + 1) \in 1..N /\ (n + (m + 1)) - 1 = n + m /\ n + m <= N /\ n + m \in 0..N /\ n \in 0..N
      BY <1>2
    <3>2. size(t[n + (m + 1)]) \in Nat
      BY <1>2, <3>1, SizeType
    <3>3. g[n + (m + 1)] = g[n + m] + size(t[n + (m + 1)]) /\ g[n + m] \in Nat /\ g[n] \in Nat
      BY <1>12, <3>1
    <3>. QED  BY <2>2, <3>1, <3>2, <3>3
  <2>. HIDE DEF P
  <2>3. N - n \in Nat
    BY <1>2
  <2>4. N - n \in P
    BY <2>1, <2>2, <2>3, SetInduction
  <2>5. n + (N - n) = N
    BY <1>2
  <2>. QED  BY <2>4, <2>5 DEF P
<1>19. g[n] \in Nat /\ g[N] \in Nat
  BY <1>2, <1>12
<1>. QED  BY <1>3, <1>7, <1>10, <1>12, <1>17, <1>18, <1>19

\* A text that fits is taken whole.
LEMMA TakesAll ==
  ASSUME NEW k \in Tips, Converting(k), NEW max_len \in Nat, bytes(shown(k)) < max_len - 1
  PROVE  tip_get_converted_text(k, max_len) = shown(k)
<1>. DEFINE N == k.num_clauses
            text == shown(k)
            more(v, n) == IF bytes(Append(v, text[n])) < max_len - 1 THEN Append(v, text[n]) ELSE v
            turns(f) == [n \in 0..k.num_clauses |-> IF n = 0 THEN <<>> ELSE more(f[n - 1], n)]
            taken == CHOOSE f : f = [n \in 0..k.num_clauses |->
                        IF n = 0 THEN <<>>
                        ELSE IF bytes(Append(f[n - 1], text[n])) < max_len - 1
                             THEN Append(f[n - 1], text[n]) ELSE f[n - 1]]
<1>1. N \in 0..TIP_MAX_CLAUSES /\ N \in Nat /\ k.clauses \in [Slots -> Clause]
  BY TipSizes DEF Tips
<1>2. text \in Seq(Piece) /\ Len(text) = N
  <2>1. ASSUME NEW i \in 1..N  PROVE k.clauses[i - 1].converted \in Piece
    BY <1>1, <2>1, TipSizes DEF Clause
  <2>. QED  BY <1>1, <2>1 DEF shown
<1>3. tip_get_converted_text(k, max_len) = taken[N]
  <2>1. k.state # "IDLE" /\ k.state # "PRECOMP"
    BY DEF Converting
  <2>. QED  BY <2>1 DEF tip_get_converted_text
<1>4. \A f : f = turns(f) => taken = turns(taken)
  BY Zenon DEF taken
<1>. HIDE DEF taken, text, turns
<1>5. ASSUME NEW n \in 1..N  PROVE more(SubSeq(text, 1, n - 1), n) = SubSeq(text, 1, n)
  <2>1. /\ Append(SubSeq(text, 1, n - 1), text[n]) = SubSeq(text, 1, n)
        /\ bytes(SubSeq(text, 1, n)) \in Nat /\ bytes(text) \in Nat
        /\ bytes(SubSeq(text, 1, n)) <= bytes(text)
    BY <1>2, FirstPieces
  <2>2. bytes(text) < max_len - 1
    BY DEF text
  <2>3. bytes(SubSeq(text, 1, n)) < max_len - 1
    BY <2>1, <2>2
  <2>. QED  BY <2>1, <2>3
<1>6. SubSeq(text, 1, 0) = <<>> /\ SubSeq(text, 1, N) = text
  BY ONLY <1>2, 0 < 1, SubSeqEmpty, SubSeqFull
<1>. HIDE DEF more, N
<1>7. PICK h : h = [n \in 0..N |-> SubSeq(text, 1, n)]
  OBVIOUS
<1>8. ASSUME NEW n \in 1..N  PROVE n \in 0..N /\ n # 0 /\ n - 1 \in 0..N /\ h[n - 1] = SubSeq(text, 1, n - 1)
  <2>1. n \in 0..N /\ n # 0 /\ n - 1 \in 0..N
    BY <1>1
  <2>. QED  BY <1>7, <2>1
<1>9. h = turns(h)
  <2>1. PICK f : f = turns(h)
    OBVIOUS
  <2>2. f = [n \in 0..N |-> IF n = 0 THEN <<>> ELSE more(h[n - 1], n)]
    BY <2>1 DEF turns, N
  <2>3. ASSUME NEW n \in 0..N  PROVE h[n] = f[n]
    <3>1. n = 0 \/ n \in 1..N
      BY <1>1
    <3>2. CASE n = 0
      BY <1>6, <1>7, <2>2, <3>2
    <3>3. CASE n \in 1..N
      BY <1>5, <1>7, <1>8, <2>2, <3>3
    <3>. QED  BY <3>1, <3>2, <3>3
  <2>. QED  BY <1>7, <2>1, <2>2, <2>3
<1>10. taken = turns(taken)
  BY <1>4, <1>9
<1>11. \A n \in 0..N : taken[n] = IF n = 0 THEN <<>> ELSE more(taken[n - 1], n)
  BY <1>10 DEF turns, N
<1>. DEFINE P == {n \in Nat : n <= N => taken[n] = SubSeq(text, 1, n)}
<1>12. 0 \in P
  <2>1. 0 \in 0..N
    BY <1>1
  <2>2. taken[0] = <<>>
    BY <1>11, <2>1
  <2>. QED  BY <1>6, <2>2
<1>13. ASSUME NEW n \in Nat, n \in P  PROVE n + 1 \in P
  <2>. SUFFICES ASSUME n + 1 <= N  PROVE taken[n + 1] = SubSeq(text, 1, n + 1)
    OBVIOUS
  <2>1. n + 1 \in 1..N /\ n + 1 \in 0..N /\ n + 1 # 0 /\ (n + 1) - 1 = n /\ n <= N
    BY <1>1
  <2>2. taken[n] = SubSeq(text, 1, n)
    BY <1>13, <2>1
  <2>. QED  BY <1>5, <1>11, <2>1, <2>2
<1>. HIDE DEF P
<1>14. N \in P
  BY <1>1, <1>12, <1>13, SetInduction
<1>15. taken[N] = text
  BY <1>1, <1>6, <1>14 DEF P
<1>. QED  BY <1>3, <1>15 DEF text, N

\* What is typed is shown, as far as there is room.
LEMMA TypedShown ==
  ASSUME TipOK(tip), Composing(tip), ~Converting(tip), NEW max_len \in {TIP_MAX_STR_LEN, MaxCommit},
         HasRoom(max_len)
  PROVE  LET text == spelt(tip_get_converted_text(tip, max_len))
         IN  IsPrefix(reading_buf(tip), text) /\ (tip.mode # "TIBETAN" => text = reading_buf(tip))
<1>1. /\ tip.romaji \in Spelling /\ tip.state = "PRECOMP"
      /\ tip.mode \in {"HIRAGANA", "KATAKANA", "TIBETAN"}
  BY UnderWay DEF Tips
<1>2. PICK r, x : r = reading_buf(tip) /\ x = IF tip.mode = "TIBETAN" THEN tip.romaji ELSE r
  OBVIOUS
<1>3. /\ r \in Spelling /\ Len(tip.romaji) \in Nat /\ Len(r) \in Nat /\ Len(r) <= Len(tip.romaji)
      /\ IsPrefix(r, tip.romaji)
  BY <1>1, <1>2, RoomSizes, StartType DEF reading_buf
<1>4. x \in Spelling /\ Len(x) \in Nat /\ Len(x) <= Len(tip.romaji)
  BY <1>1, <1>2, <1>3
<1>5. PICK n : n = room(tip.mode, max_len)
  OBVIOUS
<1>6. n \in Nat /\ Len(x) <= n
  <2>1. max_len \in Nat /\ max_len > 3
    BY TextInputAssumption DEF LETTER
  <2>2. 3 * Len(tip.romaji) < max_len - 1
    BY DEF HasRoom, LETTER
  <2>3. 3 * Len(x) < max_len - 1
    BY <1>3, <1>4, <2>1, <2>2
  <2>4. (max_len - 1) \div 3 \in Nat /\ Len(x) <= (max_len - 1) \div 3
        /\ (max_len - 2) \div 3 \in Nat /\ Len(x) <= (max_len - 2) \div 3
    BY ONLY <1>4, <2>1, <2>3
  <2>. QED  BY <1>1, <1>5, <2>4 DEF room, LETTER
<1>7. start(x, n) = x
  BY <1>4, <1>6, StartType
<1>8. PICK w : w = Fitted(x, tip.mode, max_len)
  OBVIOUS
<1>9. w.of = x
  BY <1>5, <1>7, <1>8 DEF Fitted
<1>10. tip_get_converted_text(tip, max_len) = <<w>>
  BY <1>1, <1>2, <1>8 DEF tip_get_converted_text
<1>11. [i \in DOMAIN <<w>> |-> <<w>>[i].of] = <<x>>
  BY <1>9
<1>12. spelt(tip_get_converted_text(tip, max_len)) = x
  BY <1>4, <1>10, <1>11, FlattenOne DEF spelt
<1>. QED  BY <1>2, <1>3, <1>12, StartsItself

\* What is converted stands for the reading, as far as there is room.
LEMMA ConvertedShown ==
  ASSUME TipOK(tip), Converting(tip), \A c \in Clauses(tip) : ~Outdated(c),
         NEW max_len \in {TIP_MAX_STR_LEN, MaxCommit}, HasRoom(max_len)
  PROVE  LET text == spelt(tip_get_converted_text(tip, max_len))
         IN  IsPrefix(reading_buf(tip), text) /\ (tip.mode # "TIBETAN" => text = reading_buf(tip))
<1>. DEFINE ofs == [i \in 1..tip.num_clauses |-> tip.clauses[i - 1].converted.of]
<1>1. /\ tip \in Tips /\ tip.romaji \in Spelling /\ tip.num_clauses \in 0..TIP_MAX_CLAUSES
      /\ tip.clauses \in [Slots -> Clause] /\ ClausesOK(tip)
  BY TipFields DEF TipOK
<1>2. PICK r : r = reading_buf(tip)
  OBVIOUS
<1>3. /\ r \in Spelling /\ FlattenSeq(Readings(tip)) = r
      /\ \A c \in Clauses(tip) : Len(c.reading) <= room(c.converted.as, TIP_MAX_STR_LEN)
      /\ bytes(shown(tip)) < max_len - 1
  BY <1>1, <1>2, ReadingType DEF HasRoom
<1>4. ASSUME NEW i \in 1..tip.num_clauses
      PROVE  i - 1 \in Slots /\ i - 1 < tip.num_clauses /\ tip.clauses[i - 1] \in Clauses(tip)
             /\ tip.clauses[i - 1] \in Clause
  BY <1>1, TipSizes DEF Clauses
<1>5. spelt(tip_get_converted_text(tip, max_len)) = FlattenSeq(ofs)
  <2>1. max_len \in Nat
    BY RoomSizes
  <2>2. tip_get_converted_text(tip, max_len) = shown(tip)
    BY <1>1, <1>3, <2>1, TakesAll
  <2>3. PICK t : t = shown(tip)
    OBVIOUS
  <2>4. [i \in DOMAIN t |-> t[i].of] = ofs
    BY <2>3 DEF shown
  <2>. QED  BY <2>2, <2>3, <2>4 DEF spelt
<1>6. CASE \A i \in 1..tip.num_clauses : Faithful(tip.clauses[i - 1], tip.clauses[i - 1].converted)
  <2>1. ASSUME NEW i \in 1..tip.num_clauses
        PROVE  tip.clauses[i - 1].converted.of = tip.clauses[i - 1].reading
    <3>1. PICK c : c = tip.clauses[i - 1]
      OBVIOUS
    <3>2. c \in Clause /\ Len(c.reading) <= room(c.converted.as, TIP_MAX_STR_LEN) /\ Faithful(c, c.converted)
      BY <1>3, <1>4, <1>6, <3>1
    <3>3. c.reading \in Spelling /\ c.converted.as \in Ways
      BY <3>2 DEF Clause, Piece
    <3>4. room(c.converted.as, TIP_MAX_STR_LEN) \in Nat
      BY <3>3, RoomSizes
    <3>5. start(c.reading, room(c.converted.as, TIP_MAX_STR_LEN)) = c.reading
      BY <3>2, <3>3, <3>4, StartType
    <3>. QED  BY <3>1, <3>2, <3>3, <3>5, WrittenType DEF Faithful
  <2>2. ofs = Readings(tip)
    BY <2>1 DEF Readings
  <2>. QED  BY <1>2, <1>3, <1>5, <2>2, StartsItself
<1>7. CASE ~\A i \in 1..tip.num_clauses : Faithful(tip.clauses[i - 1], tip.clauses[i - 1].converted)
  <2>1. tip.num_clauses = 1
    BY <1>1, <1>4, <1>7 DEF ClausesOK, Reliable
  <2>2. PICK c : c = tip.clauses[0]
    OBVIOUS
  <2>3. c \in Clause /\ c \in Clauses(tip) /\ ~Faithful(c, c.converted) /\ Offered(c)
    <3>1. \A i \in 1..1 : i = 1 /\ i - 1 = 0
      OBVIOUS
    <3>2. 0 \in Slots /\ 0 < tip.num_clauses /\ c \in Clauses(tip) /\ c \in Clause
      BY <1>4, <2>1, <2>2, <3>1
    <3>. QED  BY <1>1, <1>7, <2>1, <2>2, <3>1, <3>2 DEF ClausesOK
  <2>4. PICK i \in 1..Len(c.candidates) : c.converted = c.candidates[i]
    BY <2>3 DEF Offered
  <2>5. i \in DOMAIN c.candidates
    BY <2>3, <2>4, LenProperties DEF Clause
  <2>6. ~Outdated(c)
    BY <2>3
  <2>7. tip.mode = "TIBETAN" /\ IsPrefix(c.reading, c.converted.of)
    BY <2>3, <2>4, <2>5, <2>6 DEF Outdated
  <2>8. c.reading = r
    <3>1. Readings(tip) = <<c.reading>>
      BY <2>1, <2>2 DEF Readings
    <3>2. FlattenSeq(<<c.reading>>) = c.reading
      BY <2>3, FlattenOne DEF Clause
    <3>. QED  BY <1>3, <3>1, <3>2
  <2>9. FlattenSeq(ofs) = c.converted.of
    <3>1. ofs = <<c.converted.of>>
      BY <2>1, <2>2
    <3>2. c.converted.of \in Spelling
      BY <2>3 DEF Clause, Piece
    <3>. QED  BY <3>1, <3>2, FlattenOne
  <2>. QED  BY <1>2, <1>5, <2>7, <2>8, <2>9
<1>. QED  BY <1>6, <1>7

\* What is shown stands for what was typed.
LEMMA ShownExact ==
  ASSUME TipOK(tip)
  PROVE  CompositionExact
<1>1. /\ Composing(tip) <=> tip.romaji # <<>>
      /\ tip.candidate_window_visible => Converting(tip)
      /\ Composing(tip) => tip.mode # "ASCII"
  BY DEF TipOK
<1>2. Converting(tip) => \E n \in 0..Len(reading_buf(tip)) :
          /\ Readings(tip)[1] = held(start(reading_buf(tip), n))
          /\ FlattenSeq([Readings(tip) EXCEPT ![1] = start(reading_buf(tip), n)]) = reading_buf(tip)
  BY DEF TipOK, ClausesOK
<1>3. ASSUME Composing(tip), ~(Converting(tip) /\ \E c \in Clauses(tip) : Outdated(c)),
             NEW max_len \in {TIP_MAX_STR_LEN, MaxCommit}, HasRoom(max_len)
      PROVE  /\ IsPrefix(reading_buf(tip), spelt(tip_get_converted_text(tip, max_len)))
             /\ tip.mode # "TIBETAN" => spelt(tip_get_converted_text(tip, max_len)) = reading_buf(tip)
  BY <1>3, TypedShown, ConvertedShown
<1>. QED  BY <1>1, <1>2, <1>3 DEF CompositionExact

\* The invariant of the input method.
TipInv == TipOK(tip)

\* A composition is under way exactly while letters are pending; its clauses hold
\* its reading, but for the end of a first part that is too long; and what the
\* next key may commit stands for all of the reading as long as it has room
\* (tip_ife.c, mozc_kkc.c), for any alphabet, any dictionary, any number of
\* clauses and any sizes of the buffers that TextInputAssumption allows.
THEOREM CompositionKept == MCSpec => []CompositionExact
<1>1. MCInit => TipInv
  <2>. SUFFICES ASSUME MCInit  PROVE TipOK(tip)
    BY DEF TipInv
  <2>1. tip_init
    BY DEF MCInit
  <2>2. [i \in Slots |-> NoClause] \in [Slots -> Clause] /\ 0 \in Slots /\ 0 \in 0..TIP_MAX_CLAUSES /\ <<>> \in Spelling
    BY TipSizes
  <2>3. PICK none : none = [i \in Slots |-> NoClause]
    OBVIOUS
  <2>4. tip = [mode |-> "HIRAGANA", state |-> "IDLE", romaji |-> <<>>, clauses |-> none, num_clauses |-> 0,
               active_clause |-> 0, candidate_window_visible |-> FALSE]
    BY <2>1, <2>3 DEF tip_init
  <2>5. tip \in Tips /\ tip.state = "IDLE" /\ tip.romaji = <<>> /\ tip.candidate_window_visible = FALSE
    BY <2>2, <2>3, <2>4 DEF Tips
  <2>. QED  BY <2>5 DEF TipOK, Composing, Converting
<1>2. TipInv /\ [MCNext]_mcvars => TipInv'
  BY TipStep DEF TipInv, MCNext, mcvars, tipvars
<1>3. TipInv => CompositionExact
  BY ShownExact DEF TipInv
<1>. QED  BY <1>1, <1>2, <1>3, PTL DEF MCSpec
=============================================================================
