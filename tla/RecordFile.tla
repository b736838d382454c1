----------------------------- MODULE RecordFile -----------------------------
(***************************************************************************)
(* Files of records and the handles of open records (fs_record.c): their   *)
(* extents, not their bytes.  Each call is one critical section.           *)
(***************************************************************************)
EXTENDS Tables

CONSTANTS Paths,        \* file names
          startup,      \* "/sys/startup.tad"
          MAX_FS_FILES, MAX_RECS_PER_FILE, MAX_RECORD_SIZE, MAX_OPEN_RECS,
          FileSizes     \* lengths and offsets the callers pass

ASSUME FileAssumption ==
    /\ {MAX_FS_FILES, MAX_RECS_PER_FILE, MAX_RECORD_SIZE, MAX_OPEN_RECS} \subseteq Nat \ {0}
    /\ FileSizes \subseteq Nat /\ startup \in Paths /\ NULL \notin Paths

VARIABLES g_files,      \* of each slot: path (NULL: exists is FALSE), open, num_records
          records,      \* of each slot and record: in_use and size
          g_open_recs   \* of each handle: fd, rec_idx, offset, or NULL

fs == <<g_files, records, g_open_recs>>

Fds    == 1..MAX_FS_FILES
Recs   == 0..MAX_RECS_PER_FILE - 1
RecIds == 1..MAX_OPEN_RECS

NoFile == [path |-> NULL, open |-> FALSE, num_records |-> 0]

NoRecord == [in_use |-> FALSE, size |-> 0]

\* fs_init_once: the system file has one record, of size 1 here.
FilesInit == /\ g_files = [fd \in Fds |-> IF fd = 1 THEN [path |-> startup, open |-> FALSE, num_records |-> 1]
                                                    ELSE NoFile]
             /\ records = [fd \in Fds |-> [r \in Recs |-> IF fd = 1 /\ r = 0 THEN [in_use |-> TRUE, size |-> 1]
                                                                       ELSE NoRecord]]
             /\ g_open_recs = [id \in RecIds |-> NULL]

named(path) == {fd \in Fds : g_files[fd].path = path}

-----------------------------------------------------------------------------
\* opn_fil; with F_CREATE (cre_fil) a file that does not exist is created, in
\* the first free slot, over the records that a deleted file left there.
opn_fil(path, create) ==
    LET free == named(NULL) IN
    /\ IF named(path) # {}
         THEN g_files' = [g_files EXCEPT ![lowest(named(path))].open = TRUE]
         ELSE /\ create /\ free # {}
              /\ g_files' = [g_files EXCEPT ![lowest(free)] = [path |-> path, open |-> TRUE, num_records |-> 0]]
    /\ UNCHANGED <<records, g_open_recs>>

cls_fil(fd) == /\ g_files[fd].path # NULL /\ g_files[fd].open
               /\ g_files' = [g_files EXCEPT ![fd].open = FALSE]
               /\ UNCHANGED <<records, g_open_recs>>

\* del_fil: its records and their handles stay.
del_fil(path) == /\ named(path) # {}
                 /\ g_files' = [g_files EXCEPT ![lowest(named(path))].path = NULL, ![lowest(named(path))].open = FALSE]
                 /\ UNCHANGED <<records, g_open_recs>>

\* mov_fil
mov_fil(src, dst) == /\ named(src) # {}
                     /\ g_files' = [g_files EXCEPT ![lowest(named(src))].path = dst]
                     /\ UNCHANGED <<records, g_open_recs>>

-----------------------------------------------------------------------------
\* opn_rec: an unused record becomes an empty one, also if no handle is free.
opn_rec(fd, r) ==
    /\ g_files[fd].path # NULL
    /\ IF records[fd][r].in_use THEN UNCHANGED <<g_files, records>>
       ELSE /\ records' = [records EXCEPT ![fd][r] = [in_use |-> TRUE, size |-> 0]]
            /\ g_files' = [g_files EXCEPT ![fd].num_records = Max({@, r + 1})]
    /\ g_open_recs' = IF free_slots(g_open_recs) = {} THEN g_open_recs
                      ELSE [g_open_recs EXCEPT ![first_free(g_open_recs)] = [fd |-> fd, rec_idx |-> r, offset |-> 0]]

cls_rec(id) == /\ g_open_recs' = [g_open_recs EXCEPT ![id] = NULL]
               /\ UNCHANGED <<g_files, records>>

rec(id) == records[g_open_recs[id].fd][g_open_recs[id].rec_idx]

\* rd_rec moves the handle on.
rd_rec(id, sz) ==
    LET n == Min({sz, rec(id).size - g_open_recs[id].offset}) IN
    /\ g_open_recs[id] # NULL
    /\ g_open_recs' = [g_open_recs EXCEPT ![id].offset = IF n > 0 THEN @ + n ELSE @]
    /\ UNCHANGED <<g_files, records>>

room(id) == MAX_RECORD_SIZE - g_open_recs[id].offset

\* wr_rec over the record and beyond its end.
wr_rec(id, sz) ==
    LET o == g_open_recs[id]
        n == Min({sz, room(id)})
    IN  /\ o # NULL
        /\ IF n > 0
             THEN /\ g_open_recs' = [g_open_recs EXCEPT ![id].offset = @ + n]
                  /\ records' = [records EXCEPT ![o.fd][o.rec_idx].size = Max({@, o.offset + n})]
             ELSE UNCHANGED <<g_open_recs, records>>
        /\ UNCHANGED g_files

\* del_rec
del_rec(fd, r) == /\ records' = [records EXCEPT ![fd][r] = NoRecord]
                  /\ UNCHANGED <<g_files, g_open_recs>>

\* pos_rec from the beginning, the current offset or the end, kept within the record.
within(offset, size) == Max({0, Min({offset, size})})

pos_rec(id, offset, origin) ==
    LET o == g_open_recs[id]
        from == CASE origin = "SET" -> 0 [] origin = "CUR" -> o.offset [] origin = "END" -> rec(id).size
    IN  /\ o # NULL
        /\ g_open_recs' = [g_open_recs EXCEPT ![id].offset = within(from + offset, rec(id).size)]
        /\ UNCHANGED <<g_files, records>>

\* trn_rec sets the size, shorter or longer.
trn_rec(id, sz) == /\ g_open_recs[id] # NULL /\ sz <= MAX_RECORD_SIZE
                   /\ records' = [records EXCEPT ![g_open_recs[id].fd][g_open_recs[id].rec_idx].size = sz]
                   /\ UNCHANGED <<g_files, g_open_recs>>

FilesNext ==
    \/ \E p \in Paths : \/ del_fil(p) \/ \E q \in Paths : mov_fil(p, q)
                        \/ \E create \in BOOLEAN : opn_fil(p, create)
    \/ \E fd \in Fds : cls_fil(fd) \/ \E r \in Recs : opn_rec(fd, r) \/ del_rec(fd, r)
    \/ \E id \in RecIds : \/ cls_rec(id)
                          \/ \E sz \in FileSizes :
                               \/ rd_rec(id, sz) \/ wr_rec(id, sz) \/ trn_rec(id, sz)
                               \/ \E origin \in {"SET", "CUR", "END"} : pos_rec(id, sz, origin) \/ pos_rec(id, 0 - sz, origin)

-----------------------------------------------------------------------------
FilesTypeOK == /\ \A fd \in Fds : g_files[fd].path \in Paths \cup {NULL} /\ g_files[fd].num_records <= MAX_RECS_PER_FILE
               /\ \A id \in RecIds : g_open_recs[id] # NULL =>
                    g_open_recs[id].fd \in Fds /\ g_open_recs[id].rec_idx \in Recs

\* No handle and no record reaches beyond the MAX_RECORD_SIZE bytes of a record,
\* whatever other handles cut off, wrote or deleted under it (wr_rec, pos_rec,
\* trn_rec, del_rec); an open file has a name.
RecordsBounded ==
    /\ \A id \in RecIds : g_open_recs[id] # NULL => g_open_recs[id].offset \in 0..MAX_RECORD_SIZE
    /\ \A fd \in Fds, r \in Recs : records[fd][r].size \in 0..MAX_RECORD_SIZE
    /\ \A fd \in Fds : g_files[fd].open => g_files[fd].path # NULL

=============================================================================
