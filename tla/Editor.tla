------------------------------- MODULE Editor -------------------------------
(***************************************************************************)
(* The document editor (apps/t_editor.c): the lines, the caret, the        *)
(* selection and the clipboard.  A character is taken to be one byte long; *)
(* scrolling is left out, and so is the virtual object, whose text brings  *)
(* a '\n' into a line.  A selection always ends at the caret.              *)
(***************************************************************************)
EXTENDS Queue, SequencesExt, FiniteSetsExt, Integers

CONSTANTS Chars,
          NUL, NL,            \* the bytes 0 and '\n'
          TEDITOR_MAX_COLS,
          TEDITOR_MAX_LINES,  \* TEDITOR_MAX_ROWS too
          ClipSize,           \* sizeof(g_clipboard)
          Commits,            \* what the input method may commit, and Tab
          Files               \* the documents that may be loaded

MaxLen == TEDITOR_MAX_COLS - 1

ASSUME EditorAssumption ==
    /\ {NUL, NL} \cap Chars = {} /\ NUL # NL
    /\ TEDITOR_MAX_COLS \in Nat \ {0, 1} /\ TEDITOR_MAX_LINES \in Nat \ {0, 1}
    /\ ClipSize \in Nat \ {0}
    /\ Commits \subseteq Seq(Chars) /\ Files \subseteq Seq(Seq(Chars))

VARIABLES ed,          \* the TEditor
          g_clipboard  \* its bytes, up to where they only are NUL

edvars == <<ed, g_clipboard>>

NOSEL == <<0, 0>>   \* sel_active is FALSE

\* A document with the caret at its start.
document(lines) == [lines |-> lines, row |-> 1, col |-> 0, sel |-> NOSEL]

-----------------------------------------------------------------------------
(* Texts.                                                                  *)

upto(s, n)   == SubSeq(s, 1, n)
after(s, n)  == SubSeq(s, n + 1, Len(s))
at_most(s)   == upto(s, Min({Len(s), MaxLen}))

\* s put into line r at column c.
put(lines, r, c, s) == [lines EXCEPT ![r] = upto(@, c) \o s \o after(@, c)]

\* Line r broken at column c.
break(lines, r, c) == upto(lines, r - 1) \o <<upto(lines[r], c), after(lines[r], c)>> \o after(lines, r)

\* Line r joined with the one below.
join(lines, r) == upto(lines, r - 1) \o <<lines[r] \o lines[r + 1]>> \o after(lines, r + 1)

here(k) == k.lines[k.row]

before(p, q) == p[1] < q[1] \/ (p[1] = q[1] /\ p[2] < q[2])

\* The two ends of the selection in their order.
first(k) == IF before(<<k.row, k.col>>, k.sel) THEN <<k.row, k.col>> ELSE k.sel
last(k)  == IF before(<<k.row, k.col>>, k.sel) THEN k.sel ELSE <<k.row, k.col>>

-----------------------------------------------------------------------------
\* Mutant: the lines between the two ends stay.
teditor_delete_selection_joining(k) ==
    LET a == first(k)  b == last(k)
    IN  IF k.sel = NOSEL THEN k
        ELSE [lines |-> [k.lines EXCEPT ![a[1]] = at_most(upto(@, a[2]) \o after(k.lines[b[1]], b[2]))],
              row |-> a[1], col |-> a[2], sel |-> NOSEL]

\* The ends are joined; what is too long for a line is cut off.
teditor_delete_selection(k) ==
    LET a == first(k)  b == last(k)
        joined == at_most(upto(k.lines[a[1]], a[2]) \o after(k.lines[b[1]], b[2]))
    IN  IF k.sel = NOSEL THEN k
        ELSE [lines |-> upto(k.lines, a[1] - 1) \o <<joined>> \o after(k.lines, b[1]),
              row |-> a[1], col |-> a[2], sel |-> NOSEL]

\* s written over the first bytes of the clipboard.
over(clip, s) ==
    LET bytes == s \o after(clip, Len(s))
    IN  upto(bytes, Max({0} \cup {i \in DOMAIN bytes : bytes[i] # NUL}))

\* The selected part of line r.
selected(k, r) ==
    LET from == IF r = first(k)[1] THEN first(k)[2] + 1 ELSE 1
        to   == IF r = last(k)[1] THEN last(k)[2] ELSE Len(k.lines[r])
    IN  SubSeq(k.lines[r], from, to)

\* The selected lines with '\n' between them; a part that does not fit is left out.
selected_lines(k) ==
    LET fits(s, t) == Len(s) + Len(t) < ClipSize - 2
        add(s, r) == LET t  == selected(k, r)
                         s1 == IF fits(s, t) THEN s \o t ELSE s
                     IN  IF r < last(k)[1] /\ fits(s1, <<>>) THEN Append(s1, NL) ELSE s1
    IN  Loop([i \in 1 .. last(k)[1] - first(k)[1] + 1 |-> first(k)[1] + i - 1], <<>>, add)

\* Without a selection the line is copied, and the clipboard is padded with NUL.
\* Only '\n' and a selection within one line are followed by a NUL.
teditor_copy_selection(k, clip) ==
    IF k.sel = NOSEL THEN upto(here(k), Min({Len(here(k)), ClipSize - 1}))
    ELSE IF first(k)[1] = last(k)[1]
      THEN LET s == selected(k, k.row) IN over(clip, Append(upto(s, Min({Len(s), ClipSize - 1})), NUL))
      ELSE LET s == selected_lines(k)
           IN  over(clip, IF s = <<>> \/ Last(s) = NL THEN Append(s, NUL) ELSE s)

\* The text in the clipboard ends at the first NUL.
content(clip) == LET i == SelectInSeq(clip, LAMBDA x : x = NUL) IN IF i = 0 THEN clip ELSE upto(clip, i - 1)

\* The lines of s, in pieces of at most MaxLen.
pieces(s) ==
    LET add(p, x) == IF x = NL THEN [done |-> Append(p.done, p.rest), rest |-> <<>>]
                     ELSE IF Len(p.rest) = MaxLen THEN [done |-> Append(p.done, p.rest), rest |-> <<x>>]
                     ELSE [p EXCEPT !.rest = Append(@, x)]
        all == Loop(s, [done |-> <<>>, rest |-> <<>>], add)
    IN  IF all.rest = <<>> THEN all.done ELSE Append(all.done, all.rest)

\* Text for the line of the caret, unless it gets too long.
insert_here(k, s) ==
    IF Len(here(k)) + Len(s) < MaxLen
      THEN [k EXCEPT !.lines = put(@, k.row, k.col, s), !.col = @ + Len(s)] ELSE k

\* A new line at the caret, unless there are too many.
break_here(k) ==
    IF Len(k.lines) < TEDITOR_MAX_LINES - 1
      THEN [k EXCEPT !.lines = break(@, k.row, k.col), !.row = @ + 1, !.col = 0] ELSE k

teditor_paste_clipboard(k, clip) ==
    LET insert(f, s) == insert_here(break_here(f), s)
        p == pieces(content(clip))
    IN  IF p = <<>> THEN k ELSE Loop(Tail(p), insert_here(teditor_delete_selection(k), Head(p)), insert)

teditor_insert_char(k, ch) ==
    LET f == teditor_delete_selection(k)
    IN  IF Len(here(f)) < MaxLen THEN [f EXCEPT !.lines = put(@, f.row, f.col, <<ch>>), !.col = @ + 1] ELSE f

teditor_insert_text(k, s) == insert_here(teditor_delete_selection(k), s)

teditor_insert_newline(k) == break_here(teditor_delete_selection(k))

\* Joins only lines that fit into one.
joinable(k, r) == Len(k.lines[r]) + Len(k.lines[r + 1]) < MaxLen

teditor_backspace(k) ==
    IF k.sel # NOSEL THEN teditor_delete_selection(k)
    ELSE IF k.col > 0 THEN [k EXCEPT !.lines[k.row] = RemoveAt(@, k.col), !.col = @ - 1]
    ELSE IF k.row > 1 /\ joinable(k, k.row - 1)
      THEN [k EXCEPT !.lines = join(@, k.row - 1), !.row = @ - 1, !.col = Len(k.lines[k.row - 1])]
    ELSE k

teditor_delete_char_forward(k) ==
    IF k.sel # NOSEL THEN teditor_delete_selection(k)
    ELSE IF k.col < Len(here(k)) THEN [k EXCEPT !.lines[k.row] = RemoveAt(@, k.col + 1)]
    ELSE IF k.row < Len(k.lines) /\ joinable(k, k.row) THEN [k EXCEPT !.lines = join(@, k.row)]
    ELSE k

-----------------------------------------------------------------------------
(* Moving the caret.                                                       *)

left(k) == IF k.col > 0 THEN [k EXCEPT !.col = @ - 1]
           ELSE IF k.row > 1 THEN [k EXCEPT !.row = @ - 1, !.col = Len(k.lines[k.row - 1])]
           ELSE k

right(k) == IF k.col < Len(here(k)) THEN [k EXCEPT !.col = @ + 1]
            ELSE IF k.row < Len(k.lines) THEN [k EXCEPT !.row = @ + 1, !.col = 0]
            ELSE k

\* Mutant: the column is kept in a line that is shorter.
to_row_unclamped(k, r) == IF r \in DOMAIN k.lines THEN [k EXCEPT !.row = r] ELSE k

\* Up and Down
to_row(k, r) == IF r \in DOMAIN k.lines
                  THEN [k EXCEPT !.row = r, !.col = Min({@, Len(k.lines[r])})] ELSE k

\* With Shift a move begins or extends the selection, without it ends it.
extending(k, f) == [f EXCEPT !.sel = IF k.sel = NOSEL THEN <<k.row, k.col>> ELSE k.sel]
plain(f) == [f EXCEPT !.sel = NOSEL]

select_all(k) == [k EXCEPT !.sel = <<1, 0>>, !.row = Len(k.lines), !.col = Len(Last(k.lines))]

-----------------------------------------------------------------------------
EditorInit == ed = document(<<<<>>>>) /\ g_clipboard = <<>>

Edit(k) == ed' = k /\ UNCHANGED g_clipboard

\* Keys that move the caret, and a click into the text.
Move ==
    \/ \E f \in {left(ed), right(ed)} : Edit(extending(ed, f)) \/ Edit(plain(f))
    \/ \E r \in {ed.row - 1, ed.row + 1} : Edit(plain(to_row(ed, r)))
    \/ Edit(plain([ed EXCEPT !.col = 0])) \/ Edit(plain([ed EXCEPT !.col = Len(here(ed))]))
    \/ \E r \in DOMAIN ed.lines : \E c \in 0 .. Len(ed.lines[r]) :
          Edit(plain([ed EXCEPT !.row = r, !.col = c]))

\* Keys that change the text; the input method commits some of it.
Write ==
    \/ \E ch \in Chars : Edit(teditor_insert_char(ed, ch))
    \/ \E s \in Commits : Edit(teditor_insert_text(ed, s))
    \/ Edit(teditor_insert_newline(ed)) \/ Edit(teditor_backspace(ed))
    \/ Edit(teditor_delete_char_forward(ed))

\* Ctrl+C, X, V, A and the edit menu
Copy  == g_clipboard' = teditor_copy_selection(ed, g_clipboard) /\ UNCHANGED ed
Cut   == g_clipboard' = teditor_copy_selection(ed, g_clipboard) /\ ed' = teditor_delete_selection(ed)
Paste == Edit(teditor_paste_clipboard(ed, g_clipboard))
SelectAll == Edit(select_all(ed))

\* Ctrl+N and the file menu; teditor_load_file of a file that can be read.
New  == Edit(document(<<<<>>>>))
Load == \E lines \in Files :
          LET n == Min({Len(lines), TEDITOR_MAX_LINES})
          IN  Edit(document(IF n = 0 THEN <<<<>>>> ELSE [i \in 1 .. n |-> at_most(lines[i])]))

EditorNext == Move \/ Write \/ Copy \/ Cut \/ Paste \/ SelectAll \/ New \/ Load

-----------------------------------------------------------------------------
\* The caret and the start of the selection stay inside the text, and the text
\* within its array (t_editor.h: lines), whatever is cut, pasted, joined or
\* loaded while lines are selected: every edit indexes the lines with them.
CaretInside ==
    /\ Len(ed.lines) \in 1 .. TEDITOR_MAX_LINES
    /\ \A i \in DOMAIN ed.lines : Len(ed.lines[i]) <= MaxLen
    /\ ed.row \in DOMAIN ed.lines /\ ed.col \in 0 .. Len(here(ed))
    /\ ed.sel # NOSEL => ed.sel[1] \in DOMAIN ed.lines /\ ed.sel[2] \in 0 .. Len(ed.lines[ed.sel[1]])

\* Nothing of an older and longer text is behind what Copy would write.
clean(k, clip) ==
    LET n == Len(selected_lines(k))
    IN  first(k)[1] = last(k)[1] \/ Len(clip) <= n \/ clip[n + 1] = NUL

\* The lines leave room for what is put back, and the clipboard holds it.
roomy(k) ==
    /\ \A r \in first(k)[1] .. last(k)[1] :
          Len(k.lines[r]) + first(k)[2] + Len(k.lines[last(k)[1]]) - last(k)[2] < MaxLen
    /\ Len(k.lines) < TEDITOR_MAX_LINES
    /\ Len(FlattenSeq([i \in 1 .. last(k)[1] - first(k)[1] + 1 |->
                            Append(selected(k, first(k)[1] + i - 1), NL)])) <= ClipSize - 2

\* MENU.md, "Keyboard Accelerator Specifications": Cut "copies to system
\* clipboard" what it deletes and Paste inserts it at the cursor: text that is
\* cut and pasted at once is there again.  Not so when it is too long or ends with
\* a line break (that one is lost), or when an older text shows behind it in the
\* clipboard.
CutPasteRestores ==
    LET k == teditor_paste_clipboard(teditor_delete_selection(ed), teditor_copy_selection(ed, g_clipboard))
    IN  (/\ ed.sel # NOSEL /\ roomy(ed) /\ clean(ed, g_clipboard)
         /\ ~(first(ed)[1] < last(ed)[1] /\ last(ed)[2] = 0))
        => k.lines = ed.lines /\ <<k.row, k.col>> = last(ed)

=============================================================================
