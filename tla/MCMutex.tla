------------------------------ MODULE MCMutex ------------------------------
(* Mutex on small instances. *)
EXTENDS Mutex

inherit == [atr |-> "INHERIT", ceilpri |-> 0]
tfifo   == [atr |-> "TFIFO", ceilpri |-> 0]
ceiling == [atr |-> "CEILING", ceilpri |-> 1]

InheritOnly == {inherit}
Protocols   == {inherit, tfifo, ceiling}

Symmetry == Permutations(Tasks)

=============================================================================
