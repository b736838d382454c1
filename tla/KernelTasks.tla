---------------------------- MODULE KernelTasks ----------------------------
(***************************************************************************)
(* What the models of the kernel's synchronisation objects share: the      *)
(* tasks, their priorities, and the attributes an object is created with.  *)
(***************************************************************************)
EXTENDS KernelWait

CONSTANTS Tasks,
          NULL,        \* no task, message or block
          NUM_PRI,     \* number of priorities; 0 is the highest
          INI_PRI,     \* ipriority of every task
          Attributes   \* the objatr an object may be created with

Pri == 0 .. NUM_PRI - 1
ObjAtr == [tpri : BOOLEAN, nodiswai : BOOLEAN]

ASSUME ObjectAssumption == /\ IsFiniteSet(Tasks) /\ NULL \notin Tasks \cup Nat /\ Attributes \subseteq ObjAtr
                           /\ NUM_PRI \in Nat /\ INI_PRI \in Pri

=============================================================================
