------------------------------ MODULE Desktop ------------------------------
(***************************************************************************)
(* The desktop: drivers put events into the event queue, the main loop     *)
(* takes them out and workbench_process_event hands them to the window     *)
(* manager (desktop/workbench.c).                                          *)
(***************************************************************************)
EXTENDS EventQueue, WindowManager

CONSTANT NumButtons   \* of the mouse

VARIABLES pressed,   \* external: the number of mouse buttons that are down
          lost       \* history: a button event was refused or cleared

vars == <<queue, wnd, gestures, pressed, lost>>

Buttons == {"BUT_DOWN", "BUT_UP"}

Init == init_evt_sys /\ init_wnd_mgr /\ pressed = 0 /\ lost = FALSE

\* external: what the mouse and the keyboard may report now
Input == {e \in EVT : /\ e = "BUT_DOWN" => pressed < NumButtons
                      /\ e = "BUT_UP" => pressed > 0}

\* A driver calls snd_evt and ignores its result.
Driver(e) ==
    /\ e \in Input
    /\ pressed' = CASE e = "BUT_DOWN" -> pressed + 1 [] e = "BUT_UP" -> pressed - 1 [] OTHER -> pressed
    /\ IF full THEN lost' = (lost \/ e \in Buttons) /\ UNCHANGED queue
               ELSE snd_evt(e) /\ UNCHANGED lost
    /\ UNCHANGED <<wnd, gestures>>

\* clr_evt, which any application may call.
ClrEvt(mask) ==
    /\ clr_evt(mask)
    /\ lost' = (lost \/ \E i \in 1..g_q_count : Contents[i] \in mask \cap Buttons)
    /\ UNCHANGED <<wnd, gestures, pressed>>

\* workbench_process_event of the event at the head.  The menus come first:
\* they may swallow a press or a key, and call the window manager.
Menu == OpnWnd \/ SelectWnd \/ HideAll \/ CycleFocus

Process ==
    /\ get_evt
    /\ LET e == g_queue[g_q_head]
       IN  \/ e = "BUT_DOWN" /\ (Menu \/ ButDownMiss \/ \E w \in WND : ButDown(w))
           \/ e = "BUT_UP" /\ ButUp
           \/ e = "MOUSE_MOVE" /\ MouseMove
           \/ e = "KEY_DOWN" /\ (Menu \/ KeyDown)
    /\ UNCHANGED <<pressed, lost>>

Next == (\E e \in EVT : Driver(e)) \/ (\E mask \in SUBSET EVT : ClrEvt(mask)) \/ Process

Spec == Init /\ [][Next]_vars

-----------------------------------------------------------------------------
\* Types of the ring and of the windows.
TypeOK ==
    /\ g_q_head \in DOMAIN g_queue /\ g_q_tail \in DOMAIN g_queue
    /\ g_q_count \in 0..EVENT_QUEUE_SIZE
    /\ g_queue \in [0 .. EVENT_QUEUE_SIZE - 1 -> EVT]
    /\ wnd.head \in WND \cup {NULL} /\ {drag, slide, resize} \subseteq WND \cup {NULL}
    /\ \A w \in WND : {wnd.mem[w].next, wnd.mem[w].prev} \subseteq WND \cup {NULL}

\* EVENTING.md: "On EV_BUT_UP, safely terminates all active dragging and resizing
\* operations": no gesture goes on when every button is up and all events have
\* been handled, unless the queue has lost a button event.
NoStuckGesture ==
    pressed = 0 /\ g_q_count = 0 /\ ~lost => drag = NULL /\ slide = NULL /\ resize = NULL

\* The ring implements the bounded queue: snd_evt appends, get_evt takes the
\* oldest, clr_evt keeps the order of the rest; and what snd_evt appends is the
\* event it was given.
Fifo == INSTANCE EventFifo WITH Events <- EVT, Size <- EVENT_QUEUE_SIZE, q <- Contents
FifoSpec == Fifo!Spec /\ [][\A e \in EVT : Driver(e) => full \/ Fifo!Put(e)]_vars

\* The window that EV_MOUSE_MOVE moves, resizes or slides is an open window, as
\* EVENTING.md's "active window drag/resize handles" supposes.  (It need not be:
\* cls_wnd does not end the gestures on its window.  See the README.)
TargetOpen == Target # NULL => Target \in open(wnd)

=============================================================================
