----------------------------- MODULE MCServices -----------------------------
(***************************************************************************)
(* The services beside the waiting objects, one after the other: kind says *)
(* which of them the behaviour is about.                                   *)
(***************************************************************************)
EXTENDS Subsystem, Managers, KernelHeap, RecordFile, SmpCore

CONSTANTS Kinds, raised, raiser

VARIABLE kind

vars == <<kind, svcvars, procs, mem, devs, heap, fs, smp>>

Init == /\ kind \in Kinds
        /\ SvcInit /\ ManagersInit /\ HeapInit /\ FilesInit /\ SmpInit

Next == /\ UNCHANGED kind
        /\ \/ kind = "svc" /\ SvcNext /\ UNCHANGED <<procs, mem, devs, heap, fs, smp>>
           \/ kind = "prc" /\ ProcNext /\ UNCHANGED <<svcvars, mem, devs, heap, fs, smp>>
           \/ kind = "mbk" /\ MemNext /\ UNCHANGED <<svcvars, procs, devs, heap, fs, smp>>
           \/ kind = "dev" /\ DevNext /\ UNCHANGED <<svcvars, procs, mem, heap, fs, smp>>
           \/ kind = "heap" /\ HeapNext /\ UNCHANGED <<svcvars, procs, mem, devs, fs, smp>>
           \/ kind = "fil" /\ FilesNext /\ UNCHANGED <<svcvars, procs, mem, devs, heap, smp>>
           \/ kind = "smp" /\ SmpNext /\ UNCHANGED <<svcvars, procs, mem, devs, heap, fs>>

Spec == Init /\ [][Next]_vars

-----------------------------------------------------------------------------
\* Type correctness of every service.
TypeOK == SvcTypeOK /\ ManagersTypeOK /\ FilesTypeOK /\ SmpTypeOK

\* What is owned is accounted for exactly once: extended SVC locks by their
\* holders and queues, ids and memory blocks by their tables, the bytes of the
\* kernel heap by its list of blocks.
OwnedOnce == SvcLocksExact /\ HandlesExact /\ HeapTiled

\* Data moves within its bounds and in its order: device buffers, records of
\* files, and the signals of semaphores.
DataKept == DeviceBytesInOrder /\ RecordsBounded /\ SmpSignalsKept

-----------------------------------------------------------------------------
\* One task calls extended SVCs, the others of higher priority raise exceptions.
Priorities == [t \in SvcTasks |-> IF t = raised THEN 2 ELSE 1]
Frames2 == [t \in SvcTasks |-> IF t = raised THEN 2 ELSE 1]
Frames3 == [t \in SvcTasks |-> IF t = raised THEN 3 ELSE 1]

\* Bound: handlers are nested only while exception 0, the disabling of extended
\* SVCs and forgotten exceptions play no part, and only where an exception may
\* still come.
Nesting == Len(frames[raised]) > 1 =>
              /\ 0 \notin pendtex[raised] \cup exectex[raised] /\ "TEX0" \notin texflg[raised]
              /\ ~diswai[raised] /\ texmask[raised] # {} /\ forgotten[raised] = {}

AllOrNone == {{}, Codes}

=============================================================================
