--------------------------- MODULE WindowManager ---------------------------
(***************************************************************************)
(* The window manager (window/wnd.c): the doubly linked z-stack of windows,*)
(* the focus, and the three mouse gestures that remember a window between  *)
(* events.  Geometry is left out: a click may hit any visible window in any*)
(* of its areas.  A window is the memory it is allocated in, which a later *)
(* opn_wnd may get again.                                                  *)
(***************************************************************************)
EXTENDS Integers, Sequences, FiniteSets

CONSTANTS WND, NULL

ASSUME WindowAssumption == NULL \notin WND /\ IsFiniteSet(WND)

VARIABLES wnd,      \* the open windows: g_wnd_head and the fields of each window
          drag,     \* s_wnd_drag_target; s_wnd_dragging is drag # NULL
          slide,    \* s_wnd_slide_target, likewise
          resize    \* s_wnd_resize_target, likewise

gestures == <<drag, slide, resize>>

\* Memory that holds no window.
Free == [open |-> FALSE, next |-> NULL, prev |-> NULL, focused |-> FALSE, visible |-> FALSE]

open(k) == {w \in WND : k.mem[w].open}

\* Set a field of a window unless it is NULL.
set_next(k, w, v)    == IF w = NULL THEN k ELSE [k EXCEPT !.mem[w].next = v]
set_prev(k, w, v)    == IF w = NULL THEN k ELSE [k EXCEPT !.mem[w].prev = v]
set_focused(k, w, v) == IF w = NULL THEN k ELSE [k EXCEPT !.mem[w].focused = v]

\* Put w in front of the stack, with the focus.
push(k, w, visible) ==
    LET k1 == set_prev(set_focused(k, k.head, FALSE), k.head, w)
    IN  [head |-> w, mem |-> [k1.mem EXCEPT
            ![w] = [open |-> TRUE, next |-> k.head, prev |-> NULL,
                    focused |-> TRUE, visible |-> visible]]]

\* Mutant: the window behind keeps pointing at the one taken out.
unlink_one_way(k, w) == set_next(k, k.mem[w].prev, k.mem[w].next)

\* Take w out of the list.
unlink(k, w) == set_prev(set_next(k, k.mem[w].prev, k.mem[w].next), k.mem[w].next, k.mem[w].prev)

opn_wnd(k, w) == push(k, w, TRUE)

cls_wnd(k, w) ==
    LET k1 == unlink(k, w)
        h  == IF k1.head = w THEN k.mem[w].next ELSE k1.head
        k2 == set_focused(k1, h, TRUE)
    IN  [head |-> h, mem |-> [k2.mem EXCEPT ![w] = Free]]

\* A window that is not in the list is refused.
top_wnd(k, w) == IF k.head = w \/ w \notin open(k) THEN k
                 ELSE push(unlink(k, w), w, k.mem[w].visible)

\* What the event_handler of w may do: nothing that matters here, close the
\* window (Ctrl+W, Escape, a button), or open another one.
handler(k, w) ==
    {k, cls_wnd(k, w)} \cup {opn_wnd(k, n) : n \in WND \ open(k)}

\* An event for the top window; it has the focus.
to_top(k) == IF k.head # NULL /\ k.mem[k.head].focused THEN handler(k, k.head) ELSE {k}

-----------------------------------------------------------------------------
init_wnd_mgr == /\ wnd = [head |-> NULL, mem |-> [w \in WND |-> Free]]
                /\ drag = NULL /\ slide = NULL /\ resize = NULL

\* EV_BUT_DOWN on window w; the areas are tested in this order.
ButDown(w) ==
    /\ w \in open(wnd) /\ wnd.mem[w].visible
    /\ LET k == top_wnd(wnd, w)
       IN  \/ resize' = w /\ wnd' = k /\ UNCHANGED <<drag, slide>>
           \/ wnd' = cls_wnd(k, w) /\ UNCHANGED gestures
           \/ slide' = w /\ wnd' = k /\ UNCHANGED <<drag, resize>>
           \/ drag' = w /\ wnd' = k /\ UNCHANGED <<slide, resize>>
           \/ wnd' \in handler(k, w) /\ UNCHANGED gestures

\* EV_BUT_DOWN beside all windows is left to the desktop.
ButDownMiss == UNCHANGED <<wnd, gestures>>

\* The window that a gesture moves, in the order of the tests.
Target == IF slide # NULL THEN slide ELSE IF resize # NULL THEN resize ELSE drag

\* EV_MOUSE_MOVE: moves, resizes or slides the target, or goes to the top window.
MouseMove == /\ IF Target # NULL THEN wnd' = wnd ELSE wnd' \in to_top(wnd)
             /\ UNCHANGED gestures

\* Mutant: one of the three is forgotten.
end_gestures_two == drag' = NULL /\ slide' = slide /\ resize' = NULL

end_gestures == drag' = NULL /\ slide' = NULL /\ resize' = NULL

\* EV_BUT_UP
ButUp == end_gestures /\ wnd' \in to_top(wnd)

\* EV_KEY_DOWN
KeyDown == wnd' \in to_top(wnd) /\ UNCHANGED gestures

\* The window menu and the applications: opn_wnd, top_wnd of a visible window,
\* wnd_hide_all, wnd_cycle_focus.
OpnWnd    == \E n \in WND \ open(wnd) : wnd' = opn_wnd(wnd, n) /\ UNCHANGED gestures
SelectWnd == \E w \in open(wnd) : /\ wnd.mem[w].visible
                                  /\ wnd' = top_wnd(wnd, w) /\ UNCHANGED gestures
HideAll   == /\ wnd' = [wnd EXCEPT !.mem = [w \in WND |-> [wnd.mem[w] EXCEPT !.visible = FALSE]]]
             /\ UNCHANGED gestures
CycleFocus ==
    /\ \E w \in open(wnd) :
          /\ wnd.mem[w].next = NULL /\ w # wnd.head
          /\ wnd' = top_wnd([wnd EXCEPT !.mem[w].visible = TRUE], w)
    /\ UNCHANGED gestures

-----------------------------------------------------------------------------
\* The z-stack is one list of exactly the open windows: following next from the
\* head meets each of them once, and prev leads back.
ZStackExact ==
    LET walk[n \in 0 .. Cardinality(WND)] ==
            IF n = 0 THEN wnd.head
            ELSE IF walk[n - 1] = NULL THEN NULL ELSE wnd.mem[walk[n - 1]].next
    IN  /\ {walk[n] : n \in DOMAIN walk} = open(wnd) \cup {NULL}
        /\ walk[Cardinality(open(wnd))] = NULL
        /\ \A w \in open(wnd) :
              /\ wnd.mem[w].prev = NULL <=> w = wnd.head
              /\ wnd.mem[w].next # NULL => wnd.mem[wnd.mem[w].next].prev = w

\* Exactly the window in front has the focus, so keys go to one window only.
FocusExact == \A w \in open(wnd) : wnd.mem[w].focused <=> w = wnd.head

\* What every function that opens, closes or raises windows leaves behind: the
\* z-stack and the focus are exact.
WindowsExact == ZStackExact /\ FocusExact

=============================================================================
