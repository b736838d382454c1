----------------------------- MODULE MCDesktop -----------------------------
(* The desktop and what runs in its windows, on small instances; windows    *)
(* are alike.  kind says which part a behaviour is about.                   *)
EXTENDS Desktop, TextInput, Editor, EditorMenu, TLC

CONSTANT Kinds

VARIABLE kind

mcvars == <<vars, tipvars, edvars, menuvars, kind>>

MCInit == kind \in Kinds /\ Init /\ tip_init /\ EditorInit /\ MenuInit

MCNext == /\ UNCHANGED kind
          /\ \/ kind = "windows" /\ Next /\ UNCHANGED <<tipvars, edvars, menuvars>>
             \/ kind = "input"   /\ TipNext /\ UNCHANGED <<vars, edvars, menuvars>>
             \/ kind = "editor"  /\ EditorNext /\ UNCHANGED <<vars, tipvars, menuvars>>
             \/ kind = "menu"    /\ MenuNext /\ UNCHANGED <<vars, tipvars, edvars>>

MCSpec == MCInit /\ [][MCNext]_mcvars

EventTypes == {"BUT_DOWN", "BUT_UP", "MOUSE_MOVE", "KEY_DOWN"}

Symmetry == Permutations(WND)

\* Of a letter a and a letter b; what two keys give, and a document too long.
Dictionary == {<<"a", "b">>}
Typed      == {<<"a", "a">>}
Documents  == {<<>>, <<<<"a">>, <<"a", "a", "a", "a">>, <<>>, <<"a">>>>}

\* A bound: a composition goes on when it begins with the word's first letter.
BeginsWithWord == tip.romaji = <<>> \/ tip.romaji[1] = "a"

MenuBar == <<<<"command", "submenu", "separator", "command">>,
             <<"disabled", "submenu", "command", "submenu">>>>

=============================================================================
