------------------------------- MODULE Store -------------------------------
(***************************************************************************)
(* The decisions database (internal/store/store.go): processes open it,    *)
(* each statement of the migration a transaction of its own, record        *)
(* decisions, close it, or die at any point.                               *)
(***************************************************************************)
EXTENDS SQLite

CONSTANTS MaxDecisions

VARIABLES
    pc,         \* pc[p]: where p is in Open, "open" once it has returned
    col,        \* col[p]: the column p's migration looks at
    issued,     \* how many decisions have been recorded
    truth       \* history: the content of the database, by its transactions

storeVars == <<sqliteVars, pc, col, issued, truth>>

SchemaVersion == 2

Columns == <<"agent_session_id", "agent_name">>

NoMeta == [kind |-> "none"]

\* version 0 stands for an empty schema_version table.
Fresh == [schema |-> [version |-> 0, cols |-> {}, meta |-> NoMeta], rows |-> {}]

\* The content a process sees through its own connection.
Content(p) == Reads(conn[p])

Goto(p, where) == pc' = [pc EXCEPT ![p] = where]

Transact(p, pages) ==
    /\ Commit(pages)
    /\ truth' = IF conn[p] = db THEN Over(pages, truth) ELSE truth

OpenStore(p) ==
    /\ pc[p] = "closed"
    /\ Connect(p, Fresh)
    /\ truth' = IF db = 0 THEN Fresh ELSE truth
    /\ Goto(p, "columns")
    /\ UNCHANGED <<col, issued>>

\* A mutant: a migration that fails does not close the connections.
OpenFailsLeaks(p) ==
    /\ Goto(p, "closed")
    /\ col' = [col EXCEPT ![p] = 1]
    /\ UNCHANGED <<sqliteVars, issued, truth>>

OpenFails(p) ==
    /\ Disconnect(p)
    /\ Goto(p, "closed")
    /\ col' = [col EXCEPT ![p] = 1]
    /\ UNCHANGED <<issued, truth>>

\* A mutant: the last column is never looked at.
ProbeColumnShort(p) ==
    /\ pc[p] = "columns"
    /\ IF col[p] >= Len(Columns)
         THEN Goto(p, "version") /\ col' = [col EXCEPT ![p] = 1]
         ELSE IF Columns[col[p]] \in Content(p).schema.cols
           THEN col' = [col EXCEPT ![p] = @ + 1] /\ UNCHANGED pc
           ELSE Goto(p, "add") /\ UNCHANGED col
    /\ UNCHANGED <<sqliteVars, issued, truth>>

ProbeColumn(p) ==
    /\ pc[p] = "columns"
    /\ IF col[p] > Len(Columns)
         THEN Goto(p, "version") /\ col' = [col EXCEPT ![p] = 1]
         ELSE IF Columns[col[p]] \in Content(p).schema.cols
           THEN col' = [col EXCEPT ![p] = @ + 1] /\ UNCHANGED pc
           ELSE Goto(p, "add") /\ UNCHANGED col
    /\ UNCHANGED <<sqliteVars, issued, truth>>

\* ALTER TABLE ADD COLUMN fails if another process has added the column since
\* the probe.
AddColumn(p) ==
    LET schema == Content(p).schema  name == Columns[col[p]] IN
    /\ pc[p] = "add"
    /\ IF name \in schema.cols
         THEN OpenFails(p)
         ELSE /\ Transact(p, [schema |-> [schema EXCEPT !.cols = @ \cup {name}]])
              /\ col' = [col EXCEPT ![p] = @ + 1]
              /\ Goto(p, "columns")
              /\ UNCHANGED issued

ReadVersion(p) ==
    LET version == Content(p).schema.version IN
    /\ pc[p] = "version"
    /\ Goto(p, CASE version = 0 -> "insert"
                 [] version < SchemaVersion -> "bump"
                 [] OTHER -> "open")
    /\ UNCHANGED <<sqliteVars, col, issued, truth>>

\* The version is the primary key: the second of two processes that found no
\* row fails.
StampVersion(p) ==
    LET schema == Content(p).schema IN
    /\ pc[p] \in {"insert", "bump"}
    /\ IF pc[p] = "insert" /\ schema.version # 0
         THEN OpenFails(p)
         ELSE /\ Transact(p, [schema |-> [schema EXCEPT !.version = SchemaVersion]])
              /\ Goto(p, "open")
              /\ UNCHANGED <<col, issued>>

Migrate(p) == ProbeColumn(p) \/ AddColumn(p) \/ ReadVersion(p) \/ StampVersion(p)

RecordDecision(p) ==
    /\ pc[p] = "open"
    /\ issued < MaxDecisions
    /\ issued' = issued + 1
    /\ Transact(p, [rows |-> Content(p).rows \cup {issued'}])
    /\ UNCHANGED <<pc, col>>

CloseStore(p) ==
    /\ pc[p] = "open"
    /\ Disconnect(p)
    /\ Goto(p, "closed")
    /\ UNCHANGED <<col, issued, truth>>

Die(p) ==
    /\ Abandon(p)
    /\ Goto(p, "closed")
    /\ col' = [col EXCEPT ![p] = 1]
    /\ UNCHANGED <<issued, truth>>
=============================================================================
