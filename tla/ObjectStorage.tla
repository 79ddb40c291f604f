--------------------------- MODULE ObjectStorage ---------------------------
(***************************************************************************)
(* The object-storage writer (internal/audit/object_storage.go): rows wait *)
(* in a buffer until it is large or old enough, then are put into the      *)
(* bucket as one object, named by the millisecond the first of them came.  *)
(*                                                                         *)
(* Every row has one unit of size.  A put may fail whenever its context is *)
(* cancelled or the bucket is not reachable, so at any time.  The          *)
(* .in-progress name is never set in the source and is left out.           *)
(***************************************************************************)
EXTENDS Emission, Sequences, FiniteSets, Functions

CONSTANTS
    Rotator,     \* the goroutine of tickLoop
    Closer,      \* the goroutine that calls Close
    SizeCap,     \* MaxSizeMB, in rows
    MaxPending,  \* MaxPendingRows
    Rotation,    \* RotationMinutes, in units of the clock
    MaxNow       \* bound: ticks of the clock

ASSUME ObjectStorageAssumption ==
    /\ Rotator \notin Writers /\ Closer \notin Writers /\ Rotator # Closer
    /\ SizeCap \in Nat \ {0} /\ MaxPending \in Nat \ {0} /\ Rotation \in Nat \ {0}
    /\ MaxNow \in Nat \ {0}

Flushers == Writers \cup {Rotator, Closer}
Zero == 0        \* the zero time

VARIABLES
    accepting,   \* started: Write takes rows
    closing,     \* progress of Close
    ticking,     \* tickLoop runs
    now,         \* the clock, in milliseconds
    buffer,      \* bufferLines
    firstSeen,   \* bufferFirstSeen
    job,         \* of each goroutine, its step inside Write or Flush
    bucket,      \* the rows of each object
    accepted,    \* history: rows appended to the buffer in this run
    failed,      \* history: rows of puts that failed, with lastError set
    batches,     \* history: the objects put in this run
    overlapped   \* history: a Write overlapped Close

storageVars == <<accepting, closing, ticking, now, buffer, firstSeen, job, bucket,
                 accepted, failed, batches, overlapped>>

Rest == [at |-> "rest", row |-> NoEvent, rows |-> <<>>, key |-> Zero]

StorageInit ==
    /\ accepting = FALSE /\ closing = "no" /\ ticking = FALSE
    /\ now = 1
    /\ buffer = <<>> /\ firstSeen = Zero
    /\ job = [f \in Flushers |-> Rest]
    /\ bucket = [k \in 1..MaxNow |-> <<>>]
    /\ accepted = {} /\ failed = {} /\ batches = {} /\ overlapped = FALSE

StorageTypeOK ==
    /\ accepting \in BOOLEAN /\ ticking \in BOOLEAN /\ overlapped \in BOOLEAN
    /\ closing \in {"no", "wait", "flush"}
    /\ now \in 1..MaxNow
    /\ buffer \in Seq(Events) /\ Len(buffer) <= MaxPending
    /\ firstSeen \in 0..now
    /\ job \in [Flushers -> [at : {"rest", "write", "flush", "put"}, row : Events \cup {NoEvent},
                             rows : Seq(Events), key : 0..MaxNow]]
    /\ bucket \in [1..MaxNow -> Seq(Events)]
    /\ accepted \subseteq Events /\ failed \subseteq accepted

\* Start probes the bucket and starts the rotator; a probe that fails keeps the
\* process from serving.
StartStorage ==
    /\ ~accepting /\ closing = "no"
    /\ accepting' = TRUE /\ ticking' = TRUE
    /\ UNCHANGED <<closing, now, buffer, firstSeen, job, bucket, accepted, failed,
                   batches, overlapped>>

\* Write tests started, and only then takes the buffer's lock.
Offer(w, e) ==
    /\ job[w] = Rest
    /\ job' = [job EXCEPT ![w] = IF accepting THEN [Rest EXCEPT !.at = "write", !.row = e] ELSE @]
    /\ overlapped' = (overlapped \/ (accepting /\ closing # "no"))
    /\ UNCHANGED <<accepting, closing, ticking, now, buffer, firstSeen, bucket, accepted,
                   failed, batches>>

\* Mutant of Full: the bound is taken for a maximal index.
FullPastCap == Len(buffer) > MaxPending

Full == Len(buffer) >= MaxPending

\* Under the lock: a full buffer drops the row; a large one is flushed by the
\* writer that filled it.
AppendRow(w) ==
    LET rows == Append(buffer, job[w].row) IN
    /\ job[w].at = "write"
    /\ buffer' = IF Full THEN buffer ELSE rows
    /\ firstSeen' = IF ~Full /\ firstSeen = Zero THEN now ELSE firstSeen
    /\ job' = [job EXCEPT ![w] = [Rest EXCEPT !.at = IF ~Full /\ Len(rows) >= SizeCap
                                                     THEN "flush" ELSE "rest"]]
    /\ accepted' = IF Full THEN accepted ELSE accepted \cup {job[w].row}
    /\ UNCHANGED <<accepting, closing, ticking, now, bucket, failed, batches, overlapped>>

\* flushOverdue looks at the age of the oldest row.
Tick ==
    /\ ticking /\ job[Rotator] = Rest
    /\ firstSeen # Zero /\ now - firstSeen >= Rotation
    /\ job' = [job EXCEPT ![Rotator].at = "flush"]
    /\ UNCHANGED <<accepting, closing, ticking, now, buffer, firstSeen, bucket, accepted,
                   failed, batches, overlapped>>

\* Mutant of Take: the buffer is cleared only after the upload.
TakeKeeps(f) ==
    /\ job[f].at = "flush" /\ buffer # <<>>
    /\ firstSeen' = Zero
    /\ job' = [job EXCEPT ![f].at = "put", ![f].rows = buffer,
                          ![f].key = IF firstSeen = Zero THEN now ELSE firstSeen]
    /\ UNCHANGED <<buffer, accepting, closing, ticking, now, bucket, accepted, failed, batches,
                   overlapped>>

\* Flush, under the lock: the rows are taken and the buffer is reset before
\* anything is uploaded.
Take(f) ==
    /\ job[f].at = "flush"
    /\ buffer' = <<>> /\ firstSeen' = Zero
    /\ job' = [job EXCEPT ![f] =
         IF buffer = <<>> THEN Rest
         ELSE [Rest EXCEPT !.at = "put", !.rows = buffer,
                           !.key = IF firstSeen = Zero THEN now ELSE firstSeen]]
    /\ UNCHANGED <<accepting, closing, ticking, now, bucket, accepted, failed, batches, overlapped>>

\* The rest of Flush: PutObject replaces an object of the same name.
Put(f) ==
    LET rows == job[f].rows
        k == job[f].key
    IN
    /\ job[f].at = "put"
    /\ job' = [job EXCEPT ![f] = Rest]
    /\ bucket' = [bucket EXCEPT ![k] = rows]
    /\ batches' = batches \cup {[key |-> k, rows |-> rows]}
    /\ UNCHANGED <<accepting, closing, ticking, now, buffer, firstSeen, accepted, failed, overlapped>>

\* PutObject fails: the rows are given up.
PutFails(f) ==
    /\ job[f].at = "put"
    /\ job' = [job EXCEPT ![f] = Rest]
    /\ failed' = failed \cup Range(job[f].rows)
    /\ UNCHANGED <<accepting, closing, ticking, now, buffer, firstSeen, bucket, accepted, batches,
                   overlapped>>

\* Close: no more rows, the rotator's context is cancelled.
CloseBegin ==
    /\ accepting
    /\ accepting' = FALSE /\ closing' = "wait"
    /\ overlapped' = (\E w \in Writers : job[w] # Rest)
    /\ UNCHANGED <<ticking, now, buffer, firstSeen, job, bucket, accepted, failed, batches>>

\* Mutant of CloseFlush: Close relies on the rotator for the last rows.
CloseFlushSkipped ==
    /\ closing = "wait" /\ job[Rotator] = Rest
    /\ ticking' = FALSE /\ closing' = "flush"
    /\ UNCHANGED <<job, accepting, now, buffer, firstSeen, bucket, accepted, failed, batches,
                   overlapped>>

\* The rotator leaves tickLoop, perhaps a tick after the cancellation; Close has
\* waited for it and flushes what is left.
CloseFlush ==
    /\ closing = "wait" /\ job[Rotator] = Rest
    /\ ticking' = FALSE /\ closing' = "flush"
    /\ job' = [job EXCEPT ![Closer].at = "flush"]
    /\ UNCHANGED <<accepting, now, buffer, firstSeen, bucket, accepted, failed, batches,
                   overlapped>>

Closed == closing = "flush" /\ job[Closer] = Rest

PassTime ==
    /\ now < MaxNow
    /\ now' = now + 1
    /\ UNCHANGED <<accepting, closing, ticking, buffer, firstSeen, job, bucket, accepted, failed,
                   batches, overlapped>>

\* The process is gone; the bucket stays.
StorageDown ==
    /\ accepting' = FALSE /\ closing' = "no" /\ ticking' = FALSE
    /\ buffer' = <<>> /\ firstSeen' = Zero
    /\ job' = [f \in Flushers |-> Rest]
    /\ accepted' = {} /\ failed' = {} /\ batches' = {} /\ overlapped' = FALSE
    /\ UNCHANGED <<now, bucket>>
=============================================================================
