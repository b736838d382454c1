------------------------------- MODULE Tables -------------------------------
(***************************************************************************)
(* Tables of a fixed number of slots, searched from the first.             *)
(***************************************************************************)
EXTENDS FiniteSetsExt, SequencesExt

CONSTANT NULL   \* no entry, no pointer

lowest(S) == CHOOSE x \in S : \A y \in S : x <= y

free_slots(table) == {i \in DOMAIN table : table[i] = NULL}
first_free(table) == lowest(free_slots(table))

=============================================================================
