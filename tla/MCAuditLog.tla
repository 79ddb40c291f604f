---------------------------- MODULE MCAuditLog ----------------------------
(***************************************************************************)
(* Instances of AuditLog for TLC, and its refinement of AuditSink.         *)
(***************************************************************************)
EXTENDS AuditLog

\* The rows of this writer: a one-shot writer's rows are never stamped.
Readable(line) == line.kind = IF Chained THEN "row" ELSE "bare"

Pending == (IF pc = "write" THEN <<hand.ev>> ELSE <<>>) \o queue

Places    == {i \in 1..Len(file) : Readable(file[i])}
Delivered == [i \in Places |-> file[i].ev]

Sink == INSTANCE AuditSink
            WITH offered <- issued, pending <- Pending, delivered <- Delivered

\* LogWriter implements the sink: whatever fails, rows are in the order of the
\* calls of Write, and none is written twice or after it was given up.
ImplementsSink == Sink!Spec
===========================================================================
