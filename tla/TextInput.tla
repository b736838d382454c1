----------------------------- MODULE TextInput -----------------------------
(***************************************************************************)
(* The text input primitives (tip/tip_ife.c): the automaton behind every   *)
(* key of an application, with the clauses and candidates of the           *)
(* conversion engine (tip/mozc_kkc.c, tip/tibetan_dict.c).                 *)
(*                                                                         *)
(* A text is a sequence of pieces; a piece stands for the letters typed    *)
(* (of) and says how they are written (as).  A letter is one kana or one   *)
(* Tibetan letter with the keys that give it, three bytes in every writing *)
(* but Wylie's, and a word is as long as its reading.  Which of the paths  *)
(* through the lattice is the cheapest depends on the dictionaries: any    *)
(* may be.  A key that tip_process_key leaves to the application changes   *)
(* nothing.                                                                *)
(***************************************************************************)
EXTENDS SequencesExt, Integers

CONSTANTS Letters,
          Words,             \* the readings in the dictionaries
          TIP_MAX_CLAUSES,
          TIP_MAX_STR_LEN,   \* bytes of a clause's reading and of a value
          MaxCommit,         \* bytes of the application's buffer (128)
          MaxRomaji,         \* TIP_MAX_PRECOMP_LEN - 2
          MaxReading         \* the letters reading_buf has room for (84)

Slots == 0 .. TIP_MAX_CLAUSES - 1

LETTER == 3   \* bytes of a letter

\* The letters of a text written the way as that max_len bytes take: strncpy
\* fills them, a conversion stops at a letter's distance from their end.
room(as, max_len) ==
    CASE as \in {"katakana", "KATAKANA", "fullwidth"} -> (max_len - 2) \div LETTER
      [] as = "halfwidth"                             -> (max_len - 4) \div LETTER
      [] as = "wylie"                                 -> max_len - 1
      [] OTHER                                        -> (max_len - 1) \div LETTER

ASSUME TextInputAssumption ==
    /\ Words \subseteq Seq(Letters) /\ IsFiniteSet(Words)
    /\ \A w \in Words : Len(w) <= room("word", TIP_MAX_STR_LEN)
    /\ TIP_MAX_CLAUSES \in Nat \ {0} /\ MaxRomaji \in Nat \ {0}
    /\ TIP_MAX_STR_LEN \in Nat /\ TIP_MAX_STR_LEN > LETTER
    /\ MaxCommit \in Nat /\ MaxCommit >= TIP_MAX_STR_LEN + LETTER
    /\ MaxReading \in Nat /\ MaxReading >= room("word", TIP_MAX_STR_LEN)

VARIABLES tip,         \* g_tip
          out_commit   \* what the last key committed

tipvars == <<tip, out_commit>>

\* The first n letters of s.
start(s, n) == SubSeq(s, 1, IF n < Len(s) THEN n ELSE Len(s))

Fitted(s, as, max_len) == [of |-> start(s, room(as, max_len)), as |-> as]

\* In a clause.
Written(s, as) == Fitted(s, as, TIP_MAX_STR_LEN)

TSHEG == Written(<<>>, "tsheg")

\* The bytes of a piece of a clause, and of a text.
size(w) ==
    CASE w.as = "wylie"              -> Len(w.of)
      [] w.as \in {"tsheg", "shad"} -> IF LETTER * Len(w.of) + LETTER < TIP_MAX_STR_LEN
                                       THEN LETTER * Len(w.of) + LETTER ELSE TIP_MAX_STR_LEN - 1
      [] OTHER                       -> LETTER * Len(w.of)

bytes(text) ==
    LET total[n \in 0 .. Len(text)] == IF n = 0 THEN 0 ELSE total[n - 1] + size(text[n])
    IN  total[Len(text)]

\* The letters that a text stands for.
spelt(text) == FlattenSeq([i \in DOMAIN text |-> text[i].of])

Composing(k)  == k.state # "IDLE"
Converting(k) == k.state \in {"CONVERTING", "CANDIDATE_SELECT"}

\* reading_buf, which follows romaji_buf until it is full
reading_buf(k) == start(k.romaji, MaxReading)

-----------------------------------------------------------------------------
(* Candidates and clauses.                                                 *)

\* mozc_get_candidates: the dictionaries, then the two kana.
mozc_get_candidates(r) ==
    (IF r \in Words THEN <<Written(r, "word")>> ELSE <<>>)
    \o <<Written(r, "hiragana"), Written(r, "katakana")>>

\* tibetan_lookup_candidates, when they are no more than TIP_MAX_CANDIDATES: the
\* word, the transliteration, the words that go on from it, the two endings, and
\* the letters as they were typed.
tibetan_lookup_candidates(romaji, r) ==
    (IF romaji \in Words THEN <<Written(romaji, "word")>> ELSE <<>>)
    \o <<Written(r, "TIBETAN")>>
    \o SetToSeq({Written(w, "word") : w \in {v \in Words : IsStrictPrefix(romaji, v)}})
    \o <<Written(r, "tsheg"), Written(r, "shad"), Written(romaji, "wylie")>>

NoClause == [reading |-> <<>>, candidates |-> <<>>, selected |-> 0, converted |-> Written(<<>>, "hiragana")]

new_clause(r, candidates) ==
    [reading |-> r, candidates |-> candidates, selected |-> 0, converted |-> candidates[1]]

\* What the reading of a clause holds of r.
held(r) == start(r, room("hiragana", TIP_MAX_STR_LEN))

\* The ways to cut r into words of the dictionary and single letters.
paths(r, words) ==
    LET cut[n \in 0 .. Len(r)] ==
            IF n = 0 THEN {<<>>}
            ELSE UNION {{Append(p, SubSeq(r, m + 1, n)) : p \in cut[m]} :
                           m \in {i \in 0 .. n - 1 : i = n - 1 \/ SubSeq(r, i + 1, n) \in words}}
    IN  cut[Len(r)]

\* Mutant: what does not fit is left out.
at_most_clauses_dropping(p) ==
    IF Len(p) <= TIP_MAX_CLAUSES THEN p
    ELSE SubSeq(p, Len(p) - TIP_MAX_CLAUSES + 1, Len(p))

\* The path is traced back from its end; when the clauses run out, the first
\* one takes all that is left.
at_most_clauses(p) ==
    IF Len(p) <= TIP_MAX_CLAUSES THEN p
    ELSE LET rest == Len(p) - TIP_MAX_CLAUSES + 1
         IN  <<FlattenSeq(SubSeq(p, 1, rest))>> \o SubSeq(p, rest + 1, Len(p))

\* mozc_lattice_search of the reading, with the candidates of what a clause
\* holds of its part.  The dictionary has no Tibetan.
mozc_lattice_search(k) ==
    LET part(r)  == new_clause(r, mozc_get_candidates(r))
        found(p) == [k EXCEPT !.num_clauses = Len(p),
                              !.clauses = [i \in Slots |->
                                  IF i < Len(p) THEN part(held(p[i + 1])) ELSE NoClause]]
        words == IF k.mode = "TIBETAN" THEN {} ELSE Words
    IN  {found(at_most_clauses(p)) : p \in paths(reading_buf(k), words)}

\* Write every clause the way as.
rewrite(k, as) ==
    [k EXCEPT !.clauses = [i \in Slots |->
        IF i < k.num_clauses THEN [k.clauses[i] EXCEPT !.converted = Written(k.clauses[i].reading, as)]
                             ELSE k.clauses[i]]]

\* Select candidate n of clause c.
select(k, c, n) ==
    [k EXCEPT !.clauses[c].selected = n, !.clauses[c].converted = k.clauses[c].candidates[n + 1]]

\* Step through the candidates of the active clause.
cycle(k, d) ==
    LET c == k.clauses[k.active_clause]
        n == Len(c.candidates)
    IN  IF k.num_clauses = 0 \/ n = 0 THEN k ELSE select(k, k.active_clause, (c.selected + d) % n)

\* What the clauses show.
shown(k) == [i \in 1 .. k.num_clauses |-> k.clauses[i - 1].converted]

\* tip_get_converted_text: a clause that does not fit any more is left out, and
\* a shorter one after it may be taken.
tip_get_converted_text(k, max_len) ==
    LET text == shown(k)
        taken[n \in 0 .. k.num_clauses] ==
            IF n = 0 THEN <<>>
            ELSE IF bytes(Append(taken[n - 1], text[n])) < max_len - 1
                 THEN Append(taken[n - 1], text[n])
                 ELSE taken[n - 1]
    IN  CASE k.state = "IDLE"    -> <<>>
          [] k.state = "PRECOMP" -> <<Fitted(IF k.mode = "TIBETAN" THEN k.romaji ELSE reading_buf(k),
                                             k.mode, max_len)>>
          [] OTHER -> taken[k.num_clauses]

-----------------------------------------------------------------------------
tip_init ==
    /\ tip = [mode |-> "HIRAGANA", state |-> "IDLE", romaji |-> <<>>,
              clauses |-> [i \in Slots |-> NoClause], num_clauses |-> 0, active_clause |-> 0,
              candidate_window_visible |-> FALSE]
    /\ out_commit = <<>>

\* What the code may read again of the clauses it leaves behind: F9 takes the
\* candidates of the first one over.
left_behind(k) ==
    [k EXCEPT !.clauses = [i \in Slots |->
        IF i = 0 THEN [NoClause EXCEPT !.candidates = k.clauses[0].candidates,
                                       !.selected = k.clauses[0].selected]
                 ELSE NoClause]]

tip_cancel(k) ==
    [left_behind(k) EXCEPT !.state = "IDLE", !.romaji = <<>>, !.num_clauses = 0, !.active_clause = 0,
                           !.candidate_window_visible = FALSE]

tip_set_mode(k, mode) ==
    LET k1 == [k EXCEPT !.mode = mode] IN IF Composing(k) THEN tip_cancel(k1) ELSE k1

next_mode(mode) == CASE mode = "ASCII"    -> "HIRAGANA" [] mode = "HIRAGANA" -> "KATAKANA"
                     [] mode = "KATAKANA" -> "TIBETAN"  [] OTHER -> "ASCII"

tip_toggle_mode(k) == tip_cancel([k EXCEPT !.mode = next_mode(k.mode)])

\* The key changes the context to k and commits nothing.
Becomes(k) == tip' = k /\ out_commit' = <<>>

\* The key commits text, and the composition ends.
Commit(text) == tip' = tip_cancel(tip) /\ out_commit' = text

-----------------------------------------------------------------------------
(* tip_process_key, in the order of its tests.                             *)

\* Ctrl+Space and its like, Hankaku/Zenkaku, F10
KeyToggle == Becomes(tip_toggle_mode(tip))

\* F6, F7, F8 convert the composition to a kana, or (two of them) set the mode.
KeyKana(as) ==
    \/ /\ Composing(tip)
       /\ \E k \in IF Converting(tip) THEN {tip}
                  ELSE {[f EXCEPT !.state = "CONVERTING"] : f \in mozc_lattice_search(tip)} :
             Becomes(rewrite(k, as))
    \/ /\ ~Composing(tip) /\ as # "halfwidth"
       /\ Becomes(tip_set_mode(tip, IF as = "hiragana" THEN "HIRAGANA" ELSE "KATAKANA"))

\* F9: one clause of full-width letters.  It keeps the candidates it had.
KeyFullwidth ==
    /\ Composing(tip)
    /\ Becomes([tip EXCEPT !.state = "CONVERTING", !.num_clauses = 1, !.active_clause = 0,
                           !.clauses[0].reading = held(reading_buf(tip)),
                           !.clauses[0].converted = Written(tip.romaji, "fullwidth")])

KeyEscape == tip.mode # "ASCII" /\ Composing(tip) /\ Becomes(tip_cancel(tip))

\* Backspace goes back one state, or takes the last letter away.
KeyBackspace ==
    /\ tip.mode # "ASCII"
    /\ \/ /\ tip.state = "CANDIDATE_SELECT"
          /\ Becomes([tip EXCEPT !.state = "CONVERTING", !.candidate_window_visible = FALSE])
       \/ /\ tip.state = "CONVERTING"
          /\ Becomes([left_behind(tip) EXCEPT !.state = "PRECOMP", !.candidate_window_visible = FALSE])
       \/ /\ tip.state = "PRECOMP"
          /\ LET rest == Front(tip.romaji)
             IN  Becomes([tip EXCEPT !.romaji = rest,
                                    !.state = IF rest = <<>> THEN "IDLE" ELSE "PRECOMP"])

KeyEnter == tip.mode # "ASCII" /\ Composing(tip) /\ Commit(tip_get_converted_text(tip, MaxCommit))

\* Tab or F4 in Tibetan: look up the whole composition, then go through what was found.
KeyLookup ==
    /\ tip.mode = "TIBETAN"
    /\ \/ /\ tip.state = "PRECOMP"
          /\ LET c == tibetan_lookup_candidates(tip.romaji, reading_buf(tip))
             IN  Becomes([tip EXCEPT !.state = "CANDIDATE_SELECT", !.candidate_window_visible = TRUE,
                                    !.num_clauses = 1, !.active_clause = 0,
                                    !.clauses[0] = new_clause(held(reading_buf(tip)), c)])
       \/ Converting(tip) /\ Becomes(cycle(tip, 1))

\* Go through the candidates of the active clause, with their window open.
KeyCandidate(d) ==
    /\ tip.mode # "ASCII" /\ Converting(tip)
    /\ Becomes(cycle([tip EXCEPT !.state = "CANDIDATE_SELECT", !.candidate_window_visible = TRUE], d))

\* Space in Tibetan ends the syllable with a tsheg, over a buffer of its own.
KeyTsheg ==
    /\ tip.mode = "TIBETAN"
    /\ IF Composing(tip) THEN Commit(Append(tip_get_converted_text(tip, TIP_MAX_STR_LEN), TSHEG))
                         ELSE tip' = tip /\ out_commit' = <<TSHEG>>

\* Space in Japanese converts, and then goes through the candidates.
KeyConvert ==
    /\ tip.mode \in {"HIRAGANA", "KATAKANA"}
    /\ \/ /\ tip.state = "PRECOMP"
          /\ \E f \in mozc_lattice_search(tip) :
               Becomes([(IF tip.mode = "KATAKANA" THEN rewrite(f, "katakana") ELSE f)
                         EXCEPT !.active_clause = 0, !.state = "CONVERTING",
                                !.candidate_window_visible = TRUE])
       \/ KeyCandidate(1)

\* Left and Right
KeyClause(d) ==
    /\ tip.mode # "ASCII" /\ Converting(tip) /\ tip.num_clauses > 1
    /\ Becomes([tip EXCEPT !.active_clause = (@ + d + tip.num_clauses) % tip.num_clauses])

\* A digit selects, and goes on to the next clause or closes the window: also
\* when it finds the candidates of a clause left behind (after F6 to F8).
KeyDigit(n) ==
    /\ tip.mode # "ASCII" /\ tip.state = "CANDIDATE_SELECT"
    /\ LET c == tip.active_clause
           k == select(tip, c, n)
           last(f) == [f EXCEPT !.state = "CONVERTING", !.candidate_window_visible = FALSE]
       IN  \/ c >= tip.num_clauses /\ (Becomes(tip) \/ Becomes(last(tip)))
           \/ c < tip.num_clauses /\ n >= Len(tip.clauses[c].candidates) /\ Becomes(tip)
           \/ /\ c < tip.num_clauses /\ n < Len(tip.clauses[c].candidates)
              /\ Becomes(IF c + 1 < tip.num_clauses THEN [k EXCEPT !.active_clause = @ + 1] ELSE last(k))

\* A letter, a shortcut with Ctrl too: what was converted is committed first.
KeyLetter(a) ==
    /\ tip.mode # "ASCII"
    /\ LET k == IF Converting(tip) THEN tip_cancel(tip) ELSE tip
       IN  /\ Len(k.romaji) < MaxRomaji
           /\ tip' = [k EXCEPT !.romaji = Append(@, a), !.state = "PRECOMP"]
           /\ out_commit' = IF Converting(tip) THEN tip_get_converted_text(tip, MaxCommit) ELSE <<>>

tip_process_key ==
    \/ KeyToggle \/ KeyFullwidth \/ KeyEscape \/ KeyBackspace \/ KeyEnter
    \/ KeyLookup \/ KeyTsheg \/ KeyConvert
    \/ \E as \in {"hiragana", "katakana", "halfwidth"} : KeyKana(as)
    \/ \E d \in {1, -1} : KeyCandidate(d) \/ KeyClause(d)
    \/ \E n \in 0 .. 8 : KeyDigit(n)
    \/ \E a \in Letters : KeyLetter(a)

\* An application sets the mode or cancels the composition.
TipCalls == \/ Becomes(tip_cancel(tip))
            \/ \E mode \in {"ASCII", "HIRAGANA", "KATAKANA", "TIBETAN"} : Becomes(tip_set_mode(tip, mode))

TipNext == tip_process_key \/ TipCalls

-----------------------------------------------------------------------------
\* w is what the clause writes its reading as.
Faithful(c, w) == w.of = Written(c.reading, w.as).of

\* F9 leaves a clause with the candidates of another reading.
Outdated(c) == \E i \in DOMAIN c.candidates :
                  LET w == c.candidates[i]
                  IN  ~Faithful(c, w) /\ ~(tip.mode = "TIBETAN" /\ IsPrefix(c.reading, w.of))

Clauses(k)  == {k.clauses[i] : i \in {j \in Slots : j < k.num_clauses}}
Readings(k) == [i \in 1 .. k.num_clauses |-> k.clauses[i - 1].reading]

\* What is shown has room, in the clauses and in max_len bytes.
HasRoom(max_len) ==
    IF Converting(tip)
    THEN /\ FlattenSeq(Readings(tip)) = reading_buf(tip)
         /\ \A c \in Clauses(tip) : Len(c.reading) <= room(c.converted.as, TIP_MAX_STR_LEN)
         /\ bytes(shown(tip)) < max_len - 1
    ELSE LETTER * Len(tip.romaji) < max_len - 1

\* A composition is under way exactly while letters are pending (tip_ife.c:
\* "Composition Safety and Non-Latching"); its clauses hold its reading in its
\* order, but for the end of the first one's part when that is too long for it;
\* and what the next key may commit, with the buffer of Space or that of the
\* application, stands for the whole reading, in Tibetan perhaps for a longer
\* word, through every conversion, Backspace and choice of candidates, as long as
\* it has room, unless F9 left candidates of another text.
CompositionExact ==
    LET r == reading_buf(tip)
        outdated == Converting(tip) /\ \E c \in Clauses(tip) : Outdated(c)
    IN  /\ Composing(tip) <=> tip.romaji # <<>>
        /\ tip.candidate_window_visible => Converting(tip)
        /\ Composing(tip) => tip.mode # "ASCII"
        /\ Converting(tip) =>
              \E n \in 0 .. Len(r) : /\ Readings(tip)[1] = held(start(r, n))
                                     /\ FlattenSeq([Readings(tip) EXCEPT ![1] = start(r, n)]) = r
        /\ Composing(tip) /\ ~outdated =>
              \A max_len \in {TIP_MAX_STR_LEN, MaxCommit} :
                 LET text == spelt(tip_get_converted_text(tip, max_len))
                 IN  HasRoom(max_len) => IsPrefix(r, text) /\ (tip.mode # "TIBETAN" => text = r)

=============================================================================
