---------------------------- MODULE DynamicDeny ----------------------------
(***************************************************************************)
(* The hot reload of dynamic-denies.yaml (internal/dynamicdeny): the loop  *)
(* that turns file system events into debounced reloads, the reload        *)
(* endpoint (internal/proxy/dynamic_deny_reload.go) that loads the same    *)
(* file on request, and the snapshot the proxy's deny decision reads.      *)
(*                                                                         *)
(* The file's content is absent, invalid (it does not parse or validate:   *)
(* half written, empty, wrong schema) or a version; each write of a valid  *)
(* file makes a fresh version.  Snapshot 0 is Empty().  The quiet period   *)
(* of the timer may end at any moment: the scheduler owes nobody 100 ms.   *)
(***************************************************************************)
EXTENDS Integers, Sequences, FiniteSets

CONSTANTS
    Handlers,   \* concurrent requests to the reload endpoint
    Situations, \* which of AllSituations the environment may produce
    MaxWrites,  \* bound: changes of the file
    MaxHttp     \* bound: requests to the reload endpoint

\* gap: a change between the first load and the watch; nodir: the directory is
\* created after the watch; overflow: the kernel's event queue overflows.
AllSituations == {"gap", "nodir", "overflow"}

ASSUME DynamicDenyAssumption ==
    /\ IsFiniteSet(Handlers)
    /\ Situations \subseteq AllSituations
    /\ MaxWrites \in Nat /\ MaxHttp \in Nat

Absent  == -1
Invalid == -2
Empty   == 0

VARIABLES
    dir,        \* the directory of the file exists
    file,       \* Absent, Invalid or a version
    filling,    \* an in-place writer has truncated the file
    writes,     \* how often the file changed; names the versions
    phase,      \* of the watcher: "new", "loaded", "running"
    attached,   \* the file system watch is on the file's own directory
    events,     \* fsw.Events: the reasons of classifyEvent
    pending,    \* pending, "none" when no timer runs
    loop,       \* what applyReload is about to commit; see Idle
    http,       \* of each handler, what ReloadNow is about to commit
    rs,         \* Watcher.rs
    asked,      \* history: how many requests came to the endpoint
    gone,       \* history: the file was absent at some time
    disturbed   \* history: which situations occurred, and "http"

fileVars == <<dir, file, filling, writes, gone, disturbed>>
vars == <<dir, file, filling, writes, phase, attached, events, pending, loop,
          http, rs, asked, gone, disturbed>>

\* A goroutine between LoadFile and commit holds a rule set.
Idle     == [at |-> "idle", set |-> Empty]
Hold(v)  == [at |-> "commit", set |-> v]

Versions == 1..MaxWrites
Reasons  == {"created", "modified", "removed"}

TypeOK ==
    /\ dir \in BOOLEAN
    /\ file \in {Absent, Invalid} \cup Versions
    /\ filling \in BOOLEAN
    /\ writes \in 0..MaxWrites
    /\ phase \in {"new", "loaded", "running"}
    /\ attached \in BOOLEAN
    /\ events \in Seq(Reasons)
    /\ pending \in Reasons \cup {"none"}
    /\ loop \in [at : {"idle", "commit"}, set : {Empty} \cup Versions]
    /\ http \in [Handlers -> [at : {"idle", "commit"}, set : {Empty} \cup Versions]]
    /\ rs \in {Empty} \cup Versions
    /\ asked \in 0..MaxHttp
    /\ gone \in BOOLEAN
    /\ disturbed \subseteq AllSituations \cup {"http"}

Init ==
    /\ dir \in {TRUE} \cup {"nodir" \notin Situations}
    /\ file = Absent /\ filling = FALSE /\ writes = 0
    /\ phase = "new" /\ attached = FALSE /\ events = <<>> /\ pending = "none"
    /\ loop = Idle /\ http = [h \in Handlers |-> Idle]
    /\ rs = Empty /\ asked = 0 /\ gone = FALSE /\ disturbed = {}

\* LoadFile: a missing file is an empty rule set, an invalid one an error.
Loads(f) == f # Invalid

\* Mutant of RulesOf: a missing file is no case of its own.
RulesOfRaw(f) == f

RulesOf(f) == IF f = Absent THEN Empty ELSE f

-----------------------------------------------------------------------------
\* The file.  An event reaches the watcher only from a directory it watches.

Notify(reason) ==
    \/ phase = "running" /\ attached /\ events' = Append(events, reason)
       /\ UNCHANGED disturbed
    \/ phase = "running" /\ attached /\ "overflow" \in Situations
       /\ disturbed' = disturbed \cup {"overflow"} /\ UNCHANGED events
    \/ phase = "running" /\ ~attached
       /\ disturbed' = disturbed \cup {"nodir"} /\ UNCHANGED events
    \/ phase = "loaded"
       /\ disturbed' = disturbed \cup {"gap"} /\ UNCHANGED events
    \/ phase = "new" /\ UNCHANGED <<events, disturbed>>

MayChange ==
    /\ dir /\ writes < MaxWrites
    /\ phase = "loaded" => "gap" \in Situations

Change(content, reason) ==
    /\ writes' = writes + 1
    /\ file' = content
    /\ gone' = (gone \/ content = Absent)
    /\ Notify(reason)
    /\ UNCHANGED <<dir, phase, attached, pending, loop, http, rs, asked>>

\* A temporary file is renamed onto the path: a valid file, or one that an
\* operator got wrong.
Replace ==
    /\ MayChange /\ ~filling
    /\ \E c \in {writes + 1, Invalid} : Change(c, "created")
    /\ UNCHANGED filling

\* In place: the file is truncated, and later holds the new content.
Truncate ==
    /\ MayChange /\ ~filling
    /\ Change(Invalid, IF file = Absent THEN "created" ELSE "modified")
    /\ filling' = TRUE

Fill ==
    /\ MayChange /\ filling
    /\ Change(writes + 1, "modified")
    /\ filling' = FALSE

Remove ==
    /\ MayChange /\ ~filling /\ file # Absent
    /\ \E reason \in {"removed", "modified"} : Change(Absent, reason)
    /\ UNCHANGED filling

MakeDir ==
    /\ ~dir
    /\ dir' = TRUE
    /\ UNCHANGED <<file, filling, writes, gone, disturbed, phase, attached, events, pending,
                   loop, http, rs, asked>>

-----------------------------------------------------------------------------
\* The watcher.

\* NewWatcher: the first load; an invalid file leaves an empty rule set.
New ==
    /\ phase = "new"
    /\ phase' = "loaded"
    /\ rs' = IF Loads(file) THEN RulesOf(file) ELSE Empty
    /\ gone' = (gone \/ file = Absent)
    /\ UNCHANGED <<dir, file, filling, writes, disturbed, attached, events,
                   pending, loop, http, asked>>

\* Start: the watch is put on the directory, or on its nearest ancestor, whose
\* events never name the file.
Start ==
    /\ phase = "loaded"
    /\ phase' = "running" /\ attached' = dir
    /\ UNCHANGED <<fileVars, events, pending, loop, http, rs, asked>>

\* Mutant of TakeEvent: the reason that started the timer is kept.
TakeEventKeepsReason ==
    /\ events # <<>> /\ loop = Idle
    /\ pending' = (IF pending = "none" THEN Head(events) ELSE pending)
    /\ events' = Tail(events)
    /\ UNCHANGED <<fileVars, phase, attached, loop, http, rs, asked>>

\* The loop takes an event: its reason replaces the pending one and the timer
\* starts again.
TakeEvent ==
    /\ events # <<>> /\ loop = Idle
    /\ pending' = Head(events) /\ events' = Tail(events)
    /\ UNCHANGED <<fileVars, phase, attached, loop, http, rs, asked>>

\* Mutant of TimerFires: an invalid file counts as an empty rule set.
TimerFiresFailOpen ==
    /\ pending # "none" /\ loop = Idle
    /\ pending' = "none"
    /\ loop' = IF pending = "removed" \/ ~Loads(file) THEN Hold(Empty)
               ELSE Hold(RulesOf(file))
    /\ UNCHANGED <<fileVars, phase, attached, events, http, rs, asked>>

\* The timer fires: applyReload reads the file, unless the last event was its
\* removal; a file that does not load keeps the snapshot.
TimerFires ==
    /\ pending # "none" /\ loop = Idle
    /\ pending' = "none"
    /\ loop' = IF pending = "removed" THEN Hold(Empty)
               ELSE IF Loads(file) THEN Hold(RulesOf(file)) ELSE Idle
    /\ UNCHANGED <<fileVars, phase, attached, events, http, rs, asked>>

\* commit; the counters and the emit callback that follow are left out.
LoopCommit ==
    /\ loop.at = "commit"
    /\ rs' = loop.set
    /\ loop' = Idle
    /\ UNCHANGED <<fileVars, phase, attached, events, pending, http, asked>>

-----------------------------------------------------------------------------
\* POST /admin/dynamic-denies/reload.

\* ReloadNow reads the file; a file that does not load answers 422.
HttpLoad(h) ==
    /\ phase = "running" /\ asked < MaxHttp /\ http[h] = Idle
    /\ asked' = asked + 1
    /\ disturbed' = disturbed \cup {"http"}
    /\ http' = IF Loads(file) THEN [http EXCEPT ![h] = Hold(RulesOf(file))] ELSE http
    /\ UNCHANGED <<dir, file, filling, writes, gone, phase, attached, events, pending, loop, rs>>

HttpCommit(h) ==
    /\ http[h].at = "commit"
    /\ rs' = http[h].set
    /\ http' = [http EXCEPT ![h] = Idle]
    /\ UNCHANGED <<fileVars, phase, attached, events, pending, loop, asked>>

LoopStep == TakeEvent \/ TimerFires \/ LoopCommit

Next ==
    \/ Replace \/ Truncate \/ Fill \/ Remove \/ MakeDir
    \/ New \/ Start \/ LoopStep
    \/ \E h \in Handlers : HttpLoad(h) \/ HttpCommit(h)

Spec == Init /\ [][Next]_vars

\* The goroutines of the process run; nobody is obliged to change the file.
\* TakeEvent gets its turn by itself: the select chooses among ready cases.
Fairness ==
    /\ WF_vars(New) /\ WF_vars(Start)
    /\ WF_vars(TakeEvent) /\ WF_vars(TimerFires) /\ WF_vars(LoopCommit)
    /\ \A h \in Handlers : WF_vars(HttpCommit(h))

FairSpec == Spec /\ Fairness

-----------------------------------------------------------------------------
\* Properties.

\* A bad edit never opens the proxy: once rules are enforced, only the absence
\* of the file, never an invalid or half-written one, takes all of them away.
NeverFailsOpen == [][rs # Empty /\ rs' = Empty => gone]_vars

Settled == file # Invalid => rs = RulesOf(file)

\* The header of watcher.go, "File created / removed / modified -> reload": when
\* the file stops changing, the snapshot ends up being its content, unless it
\* is invalid.  The loop alone keeps that promise; it breaks when an event is
\* lost, when nothing watches yet or ever, and through the reload endpoint.
Converges == <>[](disturbed = {} => Settled)

\* The same with requests to the reload endpoint and nothing else amiss.
ConvergesWithEndpoint == <>[](disturbed \subseteq {"http"} => Settled)
=============================================================================
