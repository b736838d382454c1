----------------------------- MODULE EditorMenu -----------------------------
(***************************************************************************)
(* The menu bar of an application (window/app_menu.c) as the editor uses   *)
(* it (apps/t_editor.c), which keeps a copy of the bar's state and clears  *)
(* both when it begins a new document.  Where the mouse is relative to the *)
(* bar is a header, an item of the open menu and an item of the open       *)
(* submenu; it may be over two of them where their borders meet.           *)
(***************************************************************************)
EXTENDS Integers, Sequences

CONSTANTS Menus,    \* the items of each menu, a sequence of "command", "disabled",
                    \* "separator" and "submenu"
          SubItems  \* the items of a submenu, from 0

NIL == -1
Headers == DOMAIN Menus
Items == UNION {DOMAIN Menus[m] : m \in Headers}

ASSUME MenuAssumption ==
    /\ Menus \in Seq(Seq({"command", "disabled", "separator", "submenu"}))
    /\ Menus # <<>> /\ SubItems \subseteq Nat

VARIABLES bar,     \* the interactive state of the APP_MENU_BAR
          ed_menu, \* ed->active_menu, the editor's copy of bar.active_menu
          chosen   \* the command the last click gave: its menu, item and subitem

menuvars == <<bar, ed_menu, chosen>>

NOTHING == <<NIL, NIL, NIL>>

\* The items of the open menu; a bar that was cleared has no headers.
items == IF bar.built THEN DOMAIN Menus[bar.active_menu] ELSE {}
item(i) == Menus[bar.active_menu][i]

app_menu_init == [built |-> TRUE, active_menu |-> NIL, hover_menu |-> NIL, hover_item |-> NIL,
                  active_submenu |-> NIL, hover_subitem |-> NIL]

\* What memset leaves: the first menu and the first items, of no headers.
cleared == [built |-> FALSE, active_menu |-> 1, hover_menu |-> 1, hover_item |-> 1,
            active_submenu |-> 1, hover_subitem |-> 0]

\* Mutant: an open submenu stays.
app_menu_close_menu_only(b) == [b EXCEPT !.active_menu = NIL, !.hover_item = NIL]

app_menu_close(b) == [b EXCEPT !.active_menu = NIL, !.hover_item = NIL,
                               !.active_submenu = NIL, !.hover_subitem = NIL]

app_menu_open(b, h) == [app_menu_close(b) EXCEPT !.active_menu = h, !.hover_menu = h]

\* teditor_sync_menu_state
Sync(b) == bar' = b /\ ed_menu' = b.active_menu

-----------------------------------------------------------------------------
MenuInit == bar = app_menu_init /\ ed_menu = NIL /\ chosen = NOTHING

\* Where the mouse may be: h, i and j are NIL where it is beside the headers, the
\* items and the subitems.  The first item begins where the headers end.
At(h, i, j) ==
    /\ h # NIL => bar.built /\ j = NIL /\ (i # NIL => i = 1)
    /\ i # NIL => bar.active_menu # NIL /\ i \in items
    /\ j # NIL => bar.active_menu # NIL /\ bar.active_submenu \in items

\* app_menu_handle_mouse_move over an open menu: on to another header; into the
\* submenu; over an item, which opens or closes a submenu; or elsewhere.
MoveOpen(h, i, j) ==
    /\ bar.active_menu # NIL
    /\ \/ /\ h # NIL /\ h # bar.active_menu
          /\ Sync(app_menu_open(bar, h))
       \/ /\ h \in {NIL, bar.active_menu} /\ j # NIL
          /\ Sync([bar EXCEPT !.hover_subitem = j])
       \/ /\ h \in {NIL, bar.active_menu} /\ j = NIL /\ i # NIL
          /\ Sync(CASE item(i) = "submenu" -> [bar EXCEPT !.hover_item = i, !.active_submenu = i]
                    [] item(i) = "command" -> [bar EXCEPT !.hover_item = i, !.active_submenu = NIL,
                                                          !.hover_subitem = NIL]
                    [] OTHER -> [bar EXCEPT !.hover_item = NIL])
       \/ /\ h \in {NIL, bar.active_menu} /\ j = NIL /\ i = NIL
          /\ Sync(bar)

\* ... and over a closed one.
MoveClosed(h) == bar.active_menu = NIL /\ Sync([bar EXCEPT !.hover_menu = h])

MenuMove(h, i, j) ==
    At(h, i, j) /\ (MoveOpen(h, i, j) \/ MoveClosed(h)) /\ chosen' = NOTHING

\* A click chooses a subitem or a command, or opens a submenu.  The command may
\* be to begin a new document.
Choose(i, j) ==
    \/ /\ j # NIL
       /\ chosen' = <<bar.active_menu, bar.active_submenu, j>>
       /\ Sync(app_menu_close(bar))
    \/ /\ j = NIL /\ i # NIL /\ item(i) = "submenu"
       /\ Sync([bar EXCEPT !.active_submenu = i]) /\ chosen' = NOTHING
    \/ /\ j = NIL /\ i # NIL /\ item(i) = "command"
       /\ chosen' = <<bar.active_menu, i, NIL>>
       /\ Sync(app_menu_close(bar)) \/ Sync(cleared)

\* Any other click: on a header it opens its menu, or closes it; elsewhere it
\* closes what is open.
ClickBeside(h, i, j) ==
    /\ j = NIL /\ (i # NIL => item(i) \in {"disabled", "separator"})
    /\ Sync(IF h = NIL \/ h = bar.active_menu THEN app_menu_close(bar) ELSE app_menu_open(bar, h))

\* app_menu_handle_mouse_down
MenuClick(h, i, j) ==
    /\ At(h, i, j)
    /\ \/ bar.active_menu # NIL /\ Choose(i, j)
       \/ bar.active_menu # NIL /\ ClickBeside(h, i, j) /\ chosen' = NOTHING
       \/ /\ bar.active_menu = NIL
          /\ Sync(IF h # NIL THEN app_menu_open(bar, h) ELSE bar) /\ chosen' = NOTHING

\* The Escape key looks at the editor's copy.
Escape == /\ ed_menu # NIL /\ Sync(app_menu_close(bar))
          /\ chosen' = NOTHING

\* Ctrl+O opens the file menu; the bar is built if it was cleared.
teditor_open_menu(h) == Sync(app_menu_open(IF bar.built THEN bar ELSE app_menu_init, h))

OpenMenu == teditor_open_menu(1) /\ chosen' = NOTHING

\* Ctrl+N: teditor_init_default clears the whole editor.
NewDocument == Sync(cleared) /\ chosen' = NOTHING

\* paint_t_editor builds the bar again.
Paint == ~bar.built /\ Sync(app_menu_init) /\ chosen' = NOTHING

MenuNext ==
    \/ \E h \in Headers \cup {NIL}, j \in SubItems \cup {NIL} :
          \E i \in Items \cup {NIL} : MenuMove(h, i, j) \/ MenuClick(h, i, j)
    \/ Escape \/ OpenMenu \/ NewDocument \/ Paint

-----------------------------------------------------------------------------
\* A click gives no command but of an item that can be chosen, and closes the
\* menu; the submenu that is open belongs to the open menu, a highlighted item
\* can be chosen; and the editor knows whether a menu is open, so that Escape
\* closes it: over all moves between menus and submenus, and new documents that
\* clear the bar, until it is painted again.
MenuExact ==
    /\ ed_menu = bar.active_menu
    /\ chosen # NOTHING =>
          /\ Menus[chosen[1]][chosen[2]] = IF chosen[3] = NIL THEN "command" ELSE "submenu"
          /\ bar.built => bar.active_menu = NIL
    /\ bar.active_menu = NIL => NIL = bar.active_submenu /\ NIL = bar.hover_item
    /\ bar.built /\ bar.active_menu # NIL =>
          /\ bar.hover_menu = bar.active_menu
          /\ bar.active_submenu # NIL => item(bar.active_submenu) = "submenu"
          /\ bar.hover_item # NIL => item(bar.hover_item) \in {"command", "submenu"}
    /\ bar.hover_subitem # NIL => bar.active_submenu # NIL

=============================================================================
