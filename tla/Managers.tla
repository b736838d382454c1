------------------------------ MODULE Managers ------------------------------
(***************************************************************************)
(* The tables of the process, memory block and device managers             *)
(* (proc_mgr.c, mem_mgr.c, dev_mgr.c).  Each call is one critical section  *)
(* of the table's mutex; the launch message of a process is sent after it. *)
(***************************************************************************)
EXTENDS Tables

CONSTANTS MAX_PROCESSES, MAX_MEM_ALLOCS, MAX_DEVICES,
          MaxIds,      \* bound: ids that g_next_pid and g_next_dev_id reach
          Bases,       \* the addresses malloc returns
          NBlks,       \* sizes asked of get_mbk and chg_mbk
          BufSize,     \* sizeof(buffer) of a device, and of
          MaxSz,       \* bound: a transfer
          MaxBytes     \* bound: bytes written to one opening of a device

ASSUME ManagersAssumption ==
    /\ {MAX_PROCESSES, MAX_MEM_ALLOCS, MAX_DEVICES, MaxIds, BufSize, MaxSz, MaxBytes} \subseteq Nat \ {0}
    /\ NBlks \subseteq Nat \ {0} /\ NULL \notin [base_ptr : Bases, nblk : NBlks]

VARIABLES g_procs, g_next_pid,
          launching,   \* the processes whose launch message is still to be sent
          messages,    \* the processes it was sent to
          g_mem_table,
          malloced,    \* the blocks malloc has given out and free not taken back
          g_devs, g_next_dev_id

procs == <<g_procs, g_next_pid, launching, messages>>
mem   == <<g_mem_table, malloced>>
devs  == <<g_devs, g_next_dev_id>>

ProcSlots == 0..MAX_PROCESSES - 1
MemSlots  == 1..MAX_MEM_ALLOCS
DevSlots  == 1..MAX_DEVICES

\* proc_init_once: process 0 is the system.
ManagersInit == /\ g_procs = [i \in ProcSlots |-> IF i = 0 THEN 0 ELSE NULL]
                /\ g_next_pid = 1 /\ launching = {} /\ messages = {}
                /\ g_mem_table = [i \in MemSlots |-> NULL] /\ malloced = {}
                /\ g_devs = [i \in DevSlots |-> NULL] /\ g_next_dev_id = 1

-----------------------------------------------------------------------------
\* cre_prc, with or without a launch message
cre_prc(msg) ==
    LET i == first_free(g_procs) IN
    /\ g_next_pid <= MaxIds
    /\ free_slots(g_procs) # {}
    /\ g_procs' = [g_procs EXCEPT ![i] = g_next_pid]
    /\ g_next_pid' = g_next_pid + 1
    /\ launching' = IF msg /\ g_next_pid < MAX_PROCESSES THEN launching \cup {g_next_pid} ELSE launching
    /\ UNCHANGED messages

snd_launch(pid) == /\ pid \in launching
                   /\ launching' = launching \ {pid} /\ messages' = messages \cup {pid}
                   /\ UNCHANGED <<g_procs, g_next_pid>>

\* ter_prc: of ids below MAX_PROCESSES only.
ter_prc(pid) == /\ pid > 0 /\ pid < MAX_PROCESSES
                /\ \E i \in ProcSlots \ {0} :
                     /\ g_procs[i] = pid
                     /\ g_procs' = [g_procs EXCEPT ![i] = NULL]
                /\ UNCHANGED <<g_next_pid, launching, messages>>

-----------------------------------------------------------------------------
\* get_mbk: malloc may fail
get_mbk(nblk, adr) ==
    /\ free_slots(g_mem_table) # {} /\ adr \notin malloced
    /\ g_mem_table' = [g_mem_table EXCEPT ![first_free(g_mem_table)] = [base_ptr |-> adr, nblk |-> nblk]]
    /\ malloced' = malloced \cup {adr}

mbk(adr) == {i \in MemSlots : g_mem_table[i] # NULL /\ g_mem_table[i].base_ptr = adr}

rel_mbk(adr) == \E i \in mbk(adr) : /\ g_mem_table' = [g_mem_table EXCEPT ![i] = NULL]
                                   /\ malloced' = malloced \ {adr}

\* chg_mbk: the size is recorded, the block stays.
chg_mbk(adr, nblk) == \E i \in mbk(adr) :
    g_mem_table' = [g_mem_table EXCEPT ![i].nblk = nblk] /\ UNCHANGED malloced

-----------------------------------------------------------------------------
\* The bytes written to an opening of a device are numbered; buf is what the
\* buffer holds, rd and wr count what was read and written since the last flush.
opn_dev_mgr ==
    /\ g_next_dev_id <= MaxIds /\ free_slots(g_devs) # {}
    /\ g_devs' = [g_devs EXCEPT ![first_free(g_devs)] =
                    [dev_id |-> g_next_dev_id, buf |-> <<>>, rd |-> 0, wr |-> 0]]
    /\ g_next_dev_id' = g_next_dev_id + 1

dev(id) == {i \in DevSlots : g_devs[i] # NULL /\ g_devs[i].dev_id = id}

cls_dev_mgr(id) == \E i \in dev(id) : g_devs' = [g_devs EXCEPT ![i] = NULL] /\ UNCHANGED g_next_dev_id

\* Mutant: more is written than fits into the buffer.
to_write_all(d, sz) == sz
to_write(d, sz) == Min({sz, BufSize - Len(d.buf)})

wri_dev(id, sz) == \E i \in dev(id) :
    LET d == g_devs[i]  n == to_write(d, sz) IN
    /\ d.wr + n <= MaxBytes
    /\ g_devs' = [g_devs EXCEPT ![i] = [d EXCEPT !.buf = @ \o [k \in 1..n |-> d.wr + k], !.wr = @ + n]]
    /\ UNCHANGED g_next_dev_id

rea_dev(id, sz) == \E i \in dev(id) :
    LET d == g_devs[i]  n == Min({sz, Len(d.buf)}) IN
    /\ g_devs' = [g_devs EXCEPT ![i] = [d EXCEPT !.buf = SubSeq(@, n + 1, Len(@)), !.rd = @ + n]]
    /\ UNCHANGED g_next_dev_id

\* ctl_dev: DEV_CMD_FLUSH and DEV_CMD_RESET
flush(id) == \E i \in dev(id) :
    /\ g_devs' = [g_devs EXCEPT ![i].buf = <<>>, ![i].rd = g_devs[i].wr]
    /\ UNCHANGED g_next_dev_id

-----------------------------------------------------------------------------
ProcNext == \/ \E msg \in BOOLEAN : cre_prc(msg)
            \/ \E pid \in 1..MaxIds : ter_prc(pid) \/ snd_launch(pid)
MemNext == \E adr \in Bases : rel_mbk(adr) \/ \E nblk \in NBlks : get_mbk(nblk, adr) \/ chg_mbk(adr, nblk)
DevNext == \/ opn_dev_mgr
           \/ \E id \in 1..MaxIds : \/ cls_dev_mgr(id) \/ flush(id)
                                    \/ \E sz \in 0..MaxSz : wri_dev(id, sz) \/ rea_dev(id, sz)

-----------------------------------------------------------------------------
ManagersTypeOK == /\ g_procs \in [ProcSlots -> 0..MaxIds \cup {NULL}]
                  /\ g_next_pid \in 1..MaxIds + 1
                  /\ launching \cap messages = {}
                  /\ malloced \subseteq Bases
                  /\ \A i \in DevSlots : g_devs[i] # NULL => Len(g_devs[i].buf) <= BufSize

\* An id names one process or one opened device at a time; a block of memory is malloc'ed exactly while one entry of the table
\* tells its address (cre_prc, opn_dev_mgr, get_mbk, rel_mbk).
HandlesExact ==
    /\ \A i, j \in ProcSlots : i # j /\ g_procs[i] # NULL => g_procs[i] # g_procs[j]
    /\ \A i, j \in DevSlots : i # j /\ g_devs[i] # NULL /\ g_devs[j] # NULL => g_devs[i].dev_id # g_devs[j].dev_id
    /\ \A adr \in Bases : Cardinality(mbk(adr)) = IF adr \in malloced THEN 1 ELSE 0

\* A reader gets the bytes that wri_dev said it took, all of them and in their
\* order, however short the reads and the writes are.
DeviceBytesInOrder ==
    \A i \in DevSlots : g_devs[i] # NULL =>
        g_devs[i].buf = [k \in 1..g_devs[i].wr - g_devs[i].rd |-> g_devs[i].rd + k]

=============================================================================
