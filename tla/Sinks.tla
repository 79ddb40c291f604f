------------------------------- MODULE Sinks -------------------------------
(***************************************************************************)
(* The two sinks a recorded request is copied to after the audit log, and  *)
(* the process around them (internal/proxy/proxy.go, recordWith and Serve; *)
(* internal/cli/cli.go, the run command).                                  *)
(*                                                                         *)
(* The handlers of hijacked connections (CONNECT, MITM) are not waited for *)
(* by Shutdown, and others only for five seconds: any of them may still be *)
(* recording while the sinks are stopped, until the process is gone.       *)
(***************************************************************************)
EXTENDS SessionRecorder, ObjectStorage

CONSTANTS
    MaxRuns,     \* bound: runs of the process
    MaxFaults    \* bound: failed writes, renames and uploads

ASSUME SinksAssumption == MaxRuns \in Nat /\ MaxFaults \in Nat

VARIABLES
    phase,       \* where the run command stands
    runs,        \* how often the process was started
    faults,      \* how many faults there were
    emitted,     \* how many events there were
    next         \* of each writer, the event it has still to offer to the storage

sinksVars == <<phase, runs, faults, emitted, next>>
vars == <<recorderVars, storageVars, sinksVars>>

Init ==
    /\ RecorderInit /\ StorageInit
    /\ phase = "down" /\ runs = 0 /\ faults = 0 /\ emitted = 0
    /\ next = [w \in Writers |-> NoEvent]

TypeOK ==
    /\ RecorderTypeOK /\ StorageTypeOK
    /\ phase \in {"down", "up", "stopping", "closing"}
    /\ runs \in 0..MaxRuns /\ faults \in 0..MaxFaults
    /\ emitted \in Events \cup {0}
    /\ next \in [Writers -> Events \cup {NoEvent}]

StartUp ==
    /\ phase = "down" /\ runs < MaxRuns
    /\ phase' = "up" /\ runs' = runs + 1
    /\ StartRecorder /\ StartStorage
    /\ UNCHANGED <<faults, emitted, next>>

\* recordWith: the recorder first.
Record(w) ==
    /\ phase # "down"
    /\ next[w] = NoEvent /\ job[w] = Rest
    /\ emitted + 1 \in Events
    /\ emitted' = emitted + 1
    /\ Enter(w, emitted')
    /\ next' = [next EXCEPT ![w] = emitted']
    /\ UNCHANGED <<storageVars, phase, runs, faults>>

\* Then the storage.
Store(w) ==
    /\ next[w] # NoEvent /\ recording[w] = NoEvent
    /\ Offer(w, next[w])
    /\ next' = [next EXCEPT ![w] = NoEvent]
    /\ UNCHANGED <<recorderVars, phase, runs, faults, emitted>>

\* Serve after a signal: the recorder is stopped by Serve, the storage by the
\* run command's deferred Close.
Signal ==
    /\ phase = "up" /\ phase' = "stopping"
    /\ StopBegin
    /\ UNCHANGED <<storageVars, runs, faults, emitted, next>>

ServeReturns ==
    /\ phase = "stopping" /\ stop.at = "done" /\ phase' = "closing"
    /\ CloseBegin
    /\ UNCHANGED <<recorderVars, runs, faults, emitted, next>>

\* Serve after an error of a listener returns without stopping the recorder.
ServeFails ==
    /\ phase = "up" /\ phase' = "closing"
    /\ CloseBegin
    /\ UNCHANGED <<recorderVars, runs, faults, emitted, next>>

\* The process ends, by itself or killed.
Down ==
    /\ phase' = "down"
    /\ RecorderDown /\ StorageDown
    /\ next' = [w \in Writers |-> NoEvent]
    /\ UNCHANGED <<runs, faults, emitted>>

Exit  == phase = "closing" /\ Closed /\ Down
Crash == phase # "down" /\ Down

RecorderStep ==
    /\ \/ \E w \in Writers : WriteEvent(w)
       \/ Detach \/ Finalise \/ StopEnd
    /\ UNCHANGED <<storageVars, sinksVars>>

StorageStep ==
    /\ \/ \E w \in Writers : AppendRow(w)
       \/ \E f \in Flushers : Take(f) \/ Put(f)
       \/ Tick \/ CloseFlush
       \/ phase # "down" /\ PassTime
    /\ UNCHANGED <<recorderVars, sinksVars>>

Fault ==
    /\ faults < MaxFaults /\ faults' = faults + 1
    /\ \/ (FinaliseFails \/ \E w \in Writers : RecordFails(w)) /\ UNCHANGED storageVars
       \/ (\E f \in Flushers : PutFails(f)) /\ UNCHANGED recorderVars
    /\ UNCHANGED <<phase, runs, emitted, next>>

Next ==
    \/ StartUp \/ Signal \/ ServeReturns \/ ServeFails \/ Exit \/ Crash
    \/ \E w \in Writers : Record(w) \/ Store(w)
    \/ RecorderStep \/ StorageStep \/ Fault

Spec == Init /\ [][Next]_vars

-----------------------------------------------------------------------------
\* Properties.

\* An event counted as recorded stays in the directory across stops, crashes,
\* restarts and handlers that record during Stop: a short write costs at most
\* one later event, and only a session finalised for the second time loses its
\* earlier recording (the rename replaces it, see README).
RecordedKept ==
    \A s \in Sessions :
        LET found == Range(Lines(partial[s])) \cup Range(Lines(final[s])) IN
        renames[s] <= 1 => Cardinality(Range(recorded[s]) \ found) <= tears[s]

\* A recording that was opened once and never cut short reads back as what was
\* recorded for the session, in order, with its header and without phantoms.
ReadsBack ==
    \A s \in Sessions :
        opens[s] = 1 /\ tears[s] = 0 =>
            LET read == ReadSession(s) IN read.ok /\ read.events = recorded[s]

\* What a recording promises to whoever replays it.
RecordingsHold == RecordedKept /\ ReadsBack

\* When Stop has returned, each event of this run is in the finalised file of
\* its session, unless a handler overlapped Stop, a rename failed, or a short
\* write spoilt the file.
FinalisedAtExit ==
    stop.at = "done" /\ ~raced =>
        \A e \in current : LET s == origin[e] IN
            s \in stuck \/ tears[s] > 0 \/ e \in Range(Lines(final[s]))

\* Whatever writers, rotator and Close interleave, a row the storage accepted
\* is in the buffer, in one upload, in the bucket or in a failed upload that
\* was reported, and in no two of them; only an object of the same millisecond
\* can replace it (see README).
RowsAccounted ==
    LET flying == {f \in Flushers : job[f].at = "put"}
        places(e) == {p \in {"buffer", "bucket", "failed"} \cup flying :
                        \/ p = "buffer" /\ e \in Range(buffer)
                        \/ p = "bucket" /\ \E k \in DOMAIN bucket : e \in Range(bucket[k])
                        \/ p = "failed" /\ e \in failed
                        \/ p \in flying /\ e \in Range(job[p].rows)}
    IN \A e \in accepted :
         \/ Cardinality(places(e)) = 1
         \/ /\ places(e) = {}
            /\ \E b, c \in batches : b # c /\ b.key = c.key /\ e \in Range(b.rows)

\* Once Close has returned nothing is left in memory, unless a request was
\* being recorded meanwhile.
ShutdownFlushes ==
    Closed /\ ~overlapped => buffer = <<>> /\ \A f \in Flushers : job[f] = Rest
=============================================================================
