----------------------------- MODULE MCObjects -----------------------------
(***************************************************************************)
(* The objects that tasks wait for, on small instances.  kind is the       *)
(* object of the behaviour; the state of the others stays as it is.        *)
(***************************************************************************)
EXTENDS EventFlag, Mailbox, MemPFix, Semaphore, MessageBuffer, MemPool, Rendezvous

CONSTANTS m1, m2, m3,    \* messages of the mailbox
          small, large,  \* messages of the message buffer
          p1, p2         \* ports
CONSTANT Kinds

VARIABLE kind

hookless == <<flg, mbx, mpf, call>>
hooked   == <<sem, mbf, mpl>>

vars == <<kind, gcb, tasks, hook, hookless, hooked, por>>

Init == /\ kind \in Kinds
        /\ GcbInit /\ FlgInit /\ MbxInit /\ MpfInit
        /\ HookInit /\ SemInit /\ MbfInit /\ MplInit
        /\ PorInit

HooklessNext == \/ kind = "flg" /\ FlgNext /\ UNCHANGED <<mbx, mpf, call>>
                \/ kind = "mbx" /\ MbxNext /\ UNCHANGED <<flg, mpf, call>>
                \/ kind = "mpf" /\ MpfNext /\ UNCHANGED <<flg, mbx>>

HookedNext == \/ kind = "sem" /\ SemNext /\ UNCHANGED <<mbf, mpl>>
              \/ kind = "mbf" /\ MbfNext /\ UNCHANGED <<sem, mpl>>
              \/ kind = "mpl" /\ MplNext /\ UNCHANGED <<sem, mbf>>

Next == /\ UNCHANGED kind
        /\ \/ HooklessNext /\ UNCHANGED <<hook, hooked, por>>
           \/ HookedNext /\ UNCHANGED <<hookless, por>>
           \/ kind = "por" /\ PorNext /\ UNCHANGED <<gcb, tasks, hook, hookless, hooked>>

Spec == Init /\ [][Next]_vars

-----------------------------------------------------------------------------
\* Type correctness; the count of a semaphore stays within 0..maxsem.
TypeOK == /\ GcbTypeOK
          /\ kind = "flg" => FlgTypeOK
          /\ kind = "mbx" => MbxTypeOK
          /\ kind = "mpf" => MpfTypeOK
          /\ kind = "sem" => SemTypeOK
          /\ kind = "mbf" => MbfTypeOK
          /\ kind = "mpl" => MplTypeOK

\* Every queue holds exactly the tasks that wait in it, in the order of its
\* attributes, the receive queue of a message buffer and both queues of a port
\* included, and only waits that are allowed (gcb_make_wait_with_diswai,
\* gcb_change_priority, TA_WSGL).
WaitQueueExact == /\ GcbQueueExact
                  /\ kind = "flg" => SingleWait
                  /\ kind = "mbf" => RecvQueueExact
                  /\ kind = "por" => PortQueuesExact

\* No lost wakeup: at rest nobody waits who could be served, after a signal or a
\* release and after a task in front has given up or changed its priority
\* (sem_chg_pri, mbf_wakeup, mpl_wakeup and the searches of rendezvous.c).
NobodyServable == /\ kind = "flg" => NobodyMet
                  /\ kind = "mbx" => NobodyWaitsForMessage
                  /\ kind = "mpf" => NobodyWaitsForBlock
                  /\ kind = "sem" => NobodyWaitsForCounts
                  /\ kind = "mbf" => NobodyWaitsForBuffer
                  /\ kind = "mpl" => NobodyWaitsForArea
                  /\ kind = "por" => NobodyCouldMeet

\* Nothing is lost or given twice: the events of a flag, the messages in the list of a mailbox and in
\* the ring of a message buffer, the counts of a semaphore, the blocks and the
\* area of a memory pool.
Conserved == /\ kind = "flg" => EachEventOnce
             /\ kind = "mbx" => ListExact
             /\ kind = "mpf" => PoolExact
             /\ kind = "sem" => CountsConserved
             /\ kind = "mbf" => RingExact
             /\ kind = "mpl" => AreaExact

\* Nobody is served before a task that stands in front of it, and messages are
\* received in the order in which they were accepted.
NoOvertaking ==
    [][ /\ kind = "sem" => CountsInOrder
        /\ kind = "mbf" => MessagesInOrder
        /\ kind = "mpl" => InOrder ]_vars

-----------------------------------------------------------------------------
Sizes == [m \in MbfMsgs |-> IF m = small THEN 3 ELSE 6]

\* TWF_ANDW|TWF_CLR and TWF_ORW|TWF_BITCLR
TwoModes == {[orw |-> FALSE, clr |-> TRUE,  bitclr |-> FALSE],
             [orw |-> TRUE,  clr |-> FALSE, bitclr |-> TRUE]}

\* Two messages of one priority and one of a higher one.
Priorities == [m \in Msgs |-> IF m = m3 THEN 1 ELSE 2]

SomeAttributes == {[tpri |-> FALSE, nodiswai |-> FALSE], [tpri |-> TRUE, nodiswai |-> TRUE]}

OnePortEach == (p1 :> {[atr |-> [tpri |-> FALSE, nodiswai |-> FALSE], maxrmsz |-> 2]})
               @@ (p2 :> {[atr |-> [tpri |-> TRUE, nodiswai |-> FALSE], maxrmsz |-> 1]})

Symmetry == Permutations(Tasks)

\* Bound: one task at a time has its waits disabled.
OneMasked == Cardinality({t \in Tasks : waitmask[t]}) <= 1

=============================================================================
