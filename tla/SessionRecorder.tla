-------------------------- MODULE SessionRecorder --------------------------
(***************************************************************************)
(* The per-session recorder (internal/audit/recorder.go): the files of     *)
(* --record-sessions-dir, over runs of the process.                        *)
(*                                                                         *)
(* A session id has two names in the directory: the .partial file that is  *)
(* written and the .ndjson file it is renamed to when the recorder stops.  *)
(* A file is its lines; a descriptor keeps writing to its file under       *)
(* whatever name.  FinaliseIdle has no caller and is left out.             *)
(***************************************************************************)
EXTENDS Emission, Sequences, SequencesExt

CONSTANTS
    Sessions,    \* agent session ids
    NoSession    \* what ExtractSessionID returns for a request without a valid id

Header == 0      \* the _meta line
Torn == -1       \* a fragment without its newline, left by a short write
Garbled == -2    \* a line two writes share
NoFile == 0

VARIABLES
    origin,      \* the session of each event
    started,     \* SessionRecorder.started
    fds,         \* SessionRecorder.sessions: the file a session is written to
    partial,     \* <sid>.ndjson.partial
    final,       \* <sid>.ndjson
    data,        \* the lines of each file
    files,       \* how many files have been created
    recording,   \* the event each writer has inside Record
    stop,        \* progress of Stop: the ids left, the one being closed
    recorded,    \* history: of each session, the events counted, in order
    current,     \* history: those of this run of the process
    opens,       \* history: how often each session was opened
    tears,       \* history: short writes to each session
    renames,     \* history: how often each session was finalised
    raced,       \* history: a Record overlapped this run's Stop
    stuck        \* history: sessions whose rename failed in this run

history == <<recorded, current, opens, tears, renames, raced, stuck>>
recorderVars == <<origin, started, fds, partial, final, data, files, recording, stop, history>>

\* File numbers are fresh, and an event creates at most one.
Files == Events

Idle == [at |-> "no", todo |-> {}, id |-> NoSession]

RecorderInit ==
    /\ origin \in [Events -> Sessions \cup {NoSession}]
    /\ started = FALSE
    /\ fds = [s \in Sessions |-> NoFile]
    /\ partial = [s \in Sessions |-> NoFile] /\ final = [s \in Sessions |-> NoFile]
    /\ data = [f \in Files |-> <<>>] /\ files = 0
    /\ recording = [w \in Writers |-> NoEvent]
    /\ stop = Idle
    /\ recorded = [s \in Sessions |-> <<>>] /\ current = {} /\ raced = FALSE /\ stuck = {}
    /\ opens = [s \in Sessions |-> 0] /\ tears = [s \in Sessions |-> 0]
    /\ renames = [s \in Sessions |-> 0]

RecorderTypeOK ==
    /\ origin \in [Events -> Sessions \cup {NoSession}]
    /\ started \in BOOLEAN /\ raced \in BOOLEAN
    /\ fds \in [Sessions -> Files \cup {NoFile}]
    /\ partial \in [Sessions -> Files \cup {NoFile}]
    /\ final \in [Sessions -> Files \cup {NoFile}]
    /\ data \in [Files -> Seq(Events \cup {Header, Torn, Garbled})]
    /\ files \in Events \cup {0}
    /\ recording \in [Writers -> Events \cup {NoEvent}]
    /\ stop \in [at : {"no", "loop", "done"}, todo : SUBSET Sessions, id : Sessions \cup {NoSession}]
    /\ recorded \in [Sessions -> Seq(Events)] /\ current \subseteq Events /\ stuck \subseteq Sessions

-----------------------------------------------------------------------------
\* Files.

\* O_APPEND: what follows a fragment continues its line.
AppendLine(lines, line) ==
    IF lines # <<>> /\ Last(lines) = Torn
      THEN ReplaceAt(lines, Len(lines), IF line = Torn THEN Torn ELSE Garbled)
      ELSE Append(lines, line)

\* A write of one line: all of it, or an error with some or none of it written.
Written(lines, line) == AppendLine(lines, line)
FailedWrites(lines) == {lines, AppendLine(lines, Torn)}

\* finaliseStalePartials: Start renames every partial file whose last write is
\* older than the heartbeat; which those are depends on how long the process
\* was down.  A rename that fails leaves the file where it is.
StartRecorder ==
    /\ ~started
    /\ started' = TRUE
    /\ \E old \in SUBSET {s \in Sessions : partial[s] # NoFile} :
         /\ final' = [s \in Sessions |-> IF s \in old THEN partial[s] ELSE final[s]]
         /\ partial' = [s \in Sessions |-> IF s \in old THEN NoFile ELSE partial[s]]
         /\ renames' = [s \in Sessions |-> IF s \in old THEN renames[s] + 1 ELSE renames[s]]
    /\ UNCHANGED <<origin, fds, data, files, recording, stop, recorded, current,
                   opens, tears, raced, stuck>>

\* Record, before the lock: a stopped recorder and an event without a session
\* id are passed over.
Enter(w, e) ==
    LET in == started /\ origin[e] # NoSession IN
    /\ recording' = [recording EXCEPT ![w] = IF in THEN e ELSE NoEvent]
    /\ raced' = (raced \/ (in /\ stop.at # "no"))
    /\ UNCHANGED <<origin, started, fds, partial, final, data, files, stop, recorded,
                   current, opens, tears, renames, stuck>>

\* Mutant of Target: a session that is opened again starts its file anew.
TargetTruncates(s) == IF fds[s] # NoFile THEN fds[s] ELSE files + 1

\* The file writeEvent writes to: an open one, or the partial file, created if
\* missing.
Target(s) ==
    IF fds[s] # NoFile THEN fds[s]
    ELSE IF partial[s] # NoFile THEN partial[s] ELSE files + 1

\* The rest of Record fails: the open, the header's write or the row's write.
RecordFails(w) ==
    LET s == origin[recording[w]]
        f == Target(s)
        known == fds[s] # NoFile
    IN
    /\ recording[w] # NoEvent
    /\ recording' = [recording EXCEPT ![w] = NoEvent]
    /\ \/ ~known /\ UNCHANGED <<fds, partial, data, files, opens, tears>>
       \/ \E header \in BOOLEAN :
            /\ header => ~known
            /\ LET before == IF known \/ header THEN data[f] ELSE Written(data[f], Header) IN
               \E lines \in FailedWrites(before) :
                 /\ data' = [data EXCEPT ![f] = lines]
                 /\ tears' = [tears EXCEPT ![s] = IF lines = before THEN @ ELSE @ + 1]
            /\ fds' = [fds EXCEPT ![s] = IF header THEN NoFile ELSE f]
            /\ partial' = [partial EXCEPT ![s] = IF known THEN @ ELSE f]
            /\ files' = IF f > files THEN f ELSE files
            /\ opens' = [opens EXCEPT ![s] = IF known THEN @ ELSE @ + 1]
    /\ UNCHANGED <<origin, started, final, stop, recorded, current, renames, raced, stuck>>

\* The rest of Record, under the lock: openSessionLocked when the session is
\* not open, then the row.
WriteEvent(w) ==
    LET e == recording[w]
        s == origin[e]
        f == Target(s)
        known == fds[s] # NoFile
        before == IF known THEN data[f] ELSE Written(data[f], Header)
    IN
    /\ e # NoEvent
    /\ recording' = [recording EXCEPT ![w] = NoEvent]
    /\ data' = [data EXCEPT ![f] = Written(before, e)]
    /\ fds' = [fds EXCEPT ![s] = f]
    /\ partial' = [partial EXCEPT ![s] = IF known THEN @ ELSE f]
    /\ files' = IF f > files THEN f ELSE files
    /\ opens' = [opens EXCEPT ![s] = IF known THEN @ ELSE @ + 1]
    /\ recorded' = [recorded EXCEPT ![s] = Append(@, e)]
    /\ current' = current \cup {e}
    /\ UNCHANGED <<origin, started, final, stop, tears, renames, raced, stuck>>

-----------------------------------------------------------------------------
\* Stop.

\* The ids are collected under the lock.
StopBegin ==
    /\ started /\ stop.at = "no"
    /\ stop' = [at |-> "loop", todo |-> {s \in Sessions : fds[s] # NoFile}, id |-> NoSession]
    /\ raced' = (\E w \in Writers : recording[w] # NoEvent)
    /\ UNCHANGED <<origin, started, fds, partial, final, data, files, recording,
                   recorded, current, opens, tears, renames, stuck>>

\* finaliseSession, under the lock: the entry leaves the map.
Detach ==
    /\ stop.at = "loop" /\ stop.id = NoSession
    /\ \E s \in stop.todo :
         /\ stop' = [stop EXCEPT !.todo = @ \ {s}, !.id = s]
         /\ fds' = [fds EXCEPT ![s] = NoFile]
    /\ UNCHANGED <<origin, started, partial, final, data, files, recording, history>>

\* Mutant of Finalise: the rename is skipped when a recording of that id exists.
FinaliseOnce ==
    LET s == stop.id IN
    /\ stop.at = "loop" /\ s # NoSession
    /\ stop' = [stop EXCEPT !.id = NoSession]
    /\ final' = [final EXCEPT ![s] = IF @ = NoFile THEN partial[s] ELSE @]
    /\ partial' = [partial EXCEPT ![s] = IF final[s] = NoFile THEN NoFile ELSE @]
    /\ renames' = [renames EXCEPT ![s] = IF final[s] = NoFile THEN @ + 1 ELSE @]
    /\ UNCHANGED <<origin, started, fds, data, files, recording, recorded, current,
                   opens, tears, raced, stuck>>

\* finaliseSession, without the lock: close, then rename what the partial name
\* stands for by now.  The rename replaces an earlier recording of that id.
Finalise ==
    LET s == stop.id IN
    /\ stop.at = "loop" /\ s # NoSession
    /\ stop' = [stop EXCEPT !.id = NoSession]
    /\ final' = [final EXCEPT ![s] = IF partial[s] = NoFile THEN @ ELSE partial[s]]
    /\ partial' = [partial EXCEPT ![s] = NoFile]
    /\ renames' = [renames EXCEPT ![s] = IF partial[s] = NoFile THEN @ ELSE @ + 1]
    /\ UNCHANGED <<origin, started, fds, data, files, recording, recorded, current,
                   opens, tears, raced, stuck>>

\* The rename fails: the error is noted and Stop goes on.
FinaliseFails ==
    LET s == stop.id IN
    /\ stop.at = "loop" /\ s # NoSession /\ partial[s] # NoFile
    /\ stop' = [stop EXCEPT !.id = NoSession]
    /\ stuck' = stuck \cup {s}
    /\ UNCHANGED <<origin, started, fds, partial, final, data, files, recording, recorded,
                   current, opens, tears, renames, raced>>

StopEnd ==
    /\ stop.at = "loop" /\ stop.todo = {} /\ stop.id = NoSession
    /\ stop' = [stop EXCEPT !.at = "done"]
    /\ started' = FALSE
    /\ UNCHANGED <<origin, fds, partial, final, data, files, recording, history>>

\* The process is gone; the directory stays.
RecorderDown ==
    /\ started' = FALSE
    /\ fds' = [s \in Sessions |-> NoFile]
    /\ recording' = [w \in Writers |-> NoEvent]
    /\ stop' = Idle
    /\ current' = {} /\ raced' = FALSE /\ stuck' = {}
    /\ UNCHANGED <<origin, partial, final, data, files, recorded, opens, tears, renames>>

-----------------------------------------------------------------------------
\* Reading.

Lines(f) == IF f = NoFile THEN <<>> ELSE data[f]

\* Mutant of ReadSessionFile: the header is not told apart.
ReadSessionFileWhole(lines) ==
    [ok |-> \A i \in DOMAIN lines : lines[i] \notin {Torn, Garbled}, events |-> lines]

\* ReadSessionFile: the first line is the header; a header further down parses
\* as an event with no content, and a line that does not parse is an error.
ReadSessionFile(lines) ==
    [ok     |-> \A i \in DOMAIN lines : lines[i] \notin {Torn, Garbled},
     events |-> IF lines # <<>> /\ Head(lines) = Header THEN Tail(lines) ELSE lines]

\* ReadSession prefers the finalised file.
ReadSession(s) == ReadSessionFile(Lines(IF final[s] # NoFile THEN final[s] ELSE partial[s]))
=============================================================================
