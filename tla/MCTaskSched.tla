---------------------------- MODULE MCTaskSched ----------------------------
(* TaskSched on small instances: tasks and locks are interchangeable model  *)
(* values.  The bounds of the runs are stated here.                         *)
EXTENDS TaskSched

Symmetry == Permutations(Tasks) \cup Permutations(Locks)

\* Bound: one task at a time has a time slice, while at most one task holds a lock
\* or is suspended, or is suspended more than once, while no lock is held: each of
\* the two is seen among tasks that are plain.
OneSpecial == LET sliced  == {t \in Tasks : slicetime[t] > 0}
                  twice   == {t \in Tasks : suscnt[t] > 1}
                  holders == {t \in Tasks : klocked[t]}
                  busy    == holders \cup {t \in Tasks : suscnt[t] > 0}
              IN  /\ Cardinality(sliced \cup twice) <= 1
                  /\ sliced # {} => Cardinality(busy) <= 1
                  /\ twice # {} => holders = {}

=============================================================================
