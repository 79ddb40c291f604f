------------------------------- MODULE SQLite -------------------------------
(***************************************************************************)
(* SQLite in WAL mode, as much of it as the store package relies on: the   *)
(* files at the path of the database, the write-ahead log beside them and  *)
(* the connections of the processes.  Transactions are serialised, each    *)
(* is in the log when it returns, and a reader sees the log's pages over   *)
(* the file's.  The log is found by the PATH of the database: nothing in   *)
(* it says which file it was written for.                                  *)
(***************************************************************************)
EXTENDS Integers, Sequences, FiniteSets

CONSTANTS Processes, MaxFiles

VARIABLES
    image,      \* image[f]: the pages of the f-th file the path has named
    db,         \* the file the path names, 0 if none
    wal,        \* the pages in the log
    conn        \* conn[p]: the file p has open, 0 if none

sqliteVars == <<image, db, wal, conn>>

NoLog == <<>>

\* Pages seen over others.
Over(pages, below) ==
    [x \in DOMAIN pages \cup DOMAIN below |->
        IF x \in DOMAIN pages THEN pages[x] ELSE below[x]]

\* What a connection to file f reads.
Reads(f) == Over(wal, image[f])

Connected(f) == {p \in Processes : conn[p] = f}

Connect(p, empty) ==
    /\ conn[p] = 0
    /\ db # 0 \/ Len(image) < MaxFiles
    /\ image' = IF db = 0 THEN Append(image, empty) ELSE image
    /\ db' = IF db = 0 THEN Len(image') ELSE db
    /\ conn' = [conn EXCEPT ![p] = db']
    /\ UNCHANGED wal

Commit(pages) ==
    /\ wal' = Over(pages, wal)
    /\ UNCHANGED <<image, db, conn>>

\* The log is copied into the file of a connection, and starts over.
Checkpoint(p) ==
    /\ conn[p] # 0
    /\ wal # NoLog
    /\ image' = [image EXCEPT ![conn[p]] = Reads(conn[p])]
    /\ wal' = NoLog
    /\ UNCHANGED <<db, conn>>

\* The last connection to close checkpoints, and deletes the log.
Disconnect(p) ==
    /\ conn' = [conn EXCEPT ![p] = 0]
    /\ UNCHANGED db
    /\ IF Connected(conn[p]) = {p}
         THEN /\ image' = [image EXCEPT ![conn[p]] = Reads(conn[p])]
              /\ wal' = NoLog
         ELSE UNCHANGED <<image, wal>>

\* A process that dies leaves the log as it is.
Abandon(p) ==
    /\ conn' = [conn EXCEPT ![p] = 0]
    /\ UNCHANGED <<image, db, wal>>

\* Another file takes the path, by a rename: the log beside it stays.
Replace(pages) ==
    /\ Len(image) < MaxFiles
    /\ image' = Append(image, pages)
    /\ db' = Len(image')
    /\ UNCHANGED <<wal, conn>>
=============================================================================
