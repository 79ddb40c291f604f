----------------------------- MODULE AuditLog -----------------------------
(***************************************************************************)
(* The JSONL audit log of one gbounce installation: LogWriter              *)
(* (internal/audit/log.go) with its bounded queue and single worker, the   *)
(* hash chain (chain.go) and the signed manifests (manifest.go) the worker *)
(* drives, over successive runs of the process on one log directory.       *)
(*                                                                         *)
(* Concurrency.  Request goroutines call Write, which never blocks.  The   *)
(* worker owns the file, the chain and the signer.  The main goroutine     *)
(* calls Close when Serve returns, either because a signal cancelled the   *)
(* context the worker also watches or because a listener failed.  Handlers *)
(* still in flight (hijacked CONNECT and MITM connections are not waited   *)
(* for) may call Write until the process exits.  A crash is the kill of    *)
(* the process: what was handed to the kernel stays in the file.           *)
(***************************************************************************)
EXTENDS AuditChain

CONSTANTS
    QueueDepth,   \* capacity of LogWriter.queue
    SaveEveryN,   \* ChainState.saveEveryN
    Interval,     \* ManifestSigner.interval
    Chained,      \* --no-audit-chain absent: stamp rows, sign manifests
    Fsync,        \* --audit-log-fsync
    FaultKinds,   \* the faults the environment may inject
    MaxEvents,    \* bound: calls of Write, over all runs
    MaxRuns       \* bound: runs of the process

AllFaults == {"write", "torn", "sync", "save", "manifest", "crash", "oneshot"}

ASSUME ParamsAssumption ==
    /\ QueueDepth \in Nat \ {0}
    /\ SaveEveryN \in Nat \ {0}
    /\ Interval \in Nat \ {0}
    /\ Chained \in BOOLEAN
    /\ Fsync \in BOOLEAN
    /\ FaultKinds \subseteq AllFaults
    /\ MaxEvents \in Nat
    /\ MaxRuns \in Nat \ {0}

VARIABLES
    phase,        \* "up", "closing" (in Close), "closed", "down"
    ctxDone,      \* the signal context is cancelled
    queue,        \* LogWriter.queue
    dropped,      \* LogWriter.dropped
    total,        \* LogWriter.total
    pc,           \* the worker: "select", "write", "sync", "emit", "exited"
    draining,     \* the worker is in drainRemaining
    hand,         \* the line the worker is writing
    nextSeq,      \* ChainState.nextSeq
    lastHash,     \* ChainState.lastHash
    unsaved,      \* ChainState.eventsSinceSave
    lastEmitted,  \* ManifestSigner.LastEmittedSeq; -1 is nil
    file,         \* audit.jsonl
    state,        \* chain-state.json
    manifests,    \* the files under manifests/
    issued,       \* how many times Write was called: the next event's name
    owed,         \* history: the events queued when Close was called
    faults,       \* history: the kinds of fault that have happened
    runs          \* how many times the process was started

procVars  == <<phase, ctxDone, runs>>
queueVars == <<queue, dropped, issued>>
chainVars == <<nextSeq, lastHash, unsaved>>
diskVars  == <<file, state, manifests>>
vars == <<phase, ctxDone, queue, dropped, total, pc, draining, hand, nextSeq,
          lastHash, unsaved, lastEmitted, file, state, manifests, issued,
          owed, faults, runs>>

Idle == PlainLine("bare", 0)

\* Every variable keeps its type, and the queue its capacity.
TypeOK ==
    /\ phase \in {"up", "closing", "closed", "down"}
    /\ ctxDone \in BOOLEAN
    /\ queue \in Seq(Event) /\ Len(queue) <= QueueDepth
    /\ dropped \in Nat
    /\ total \in Nat
    /\ pc \in {"select", "write", "sync", "emit", "exited"}
    /\ draining \in BOOLEAN
    /\ hand \in Line
    /\ nextSeq \in Nat
    /\ lastHash \in Digest
    /\ unsaved \in Nat
    /\ lastEmitted \in Nat \cup {-1}
    /\ file \in Seq(Line)
    /\ state \in StateFile
    /\ manifests \subseteq Manifest
    /\ issued \in Nat
    /\ owed \subseteq Event
    /\ faults \subseteq FaultKinds
    /\ runs \in Nat

Init ==
    /\ phase = "down" /\ ctxDone = FALSE /\ runs = 0
    /\ queue = <<>> /\ dropped = 0 /\ issued = 0 /\ total = 0
    /\ pc = "exited" /\ draining = FALSE /\ hand = Idle
    /\ nextSeq = 0 /\ lastHash = NoDigest /\ unsaved = 0 /\ lastEmitted = -1
    /\ file = <<>> /\ state = NoState /\ manifests = {}
    /\ owed = {} /\ faults = {}

MayFail(kind) == kind \in FaultKinds
Record(kind)  == faults' = faults \cup {kind}

-----------------------------------------------------------------------------
\* The process.

\* Mutant of Start: the digest of the last row is not restored.
StartForgetsDigest ==
    /\ phase = "down" /\ runs < MaxRuns
    /\ phase' = "up" /\ ctxDone' = FALSE /\ runs' = runs + 1
    /\ queue' = <<>> /\ dropped' = 0 /\ total' = 0
    /\ pc' = "select" /\ draining' = FALSE /\ hand' = Idle
    /\ nextSeq' = state.nextSeq /\ lastHash' = NoDigest /\ unsaved' = 0
    /\ lastEmitted' = -1 /\ owed' = {}
    /\ UNCHANGED <<diskVars, issued, faults>>

\* The run command: LoadChainState, NewManifestSigner and NewLogWriter.  The
\* signer remembers nothing of the manifests of earlier runs.
Start ==
    /\ phase = "down" /\ runs < MaxRuns
    /\ phase' = "up" /\ ctxDone' = FALSE /\ runs' = runs + 1
    /\ queue' = <<>> /\ dropped' = 0 /\ total' = 0
    /\ pc' = "select" /\ draining' = FALSE /\ hand' = Idle
    /\ nextSeq' = state.nextSeq /\ lastHash' = state.lastHash /\ unsaved' = 0
    /\ lastEmitted' = -1 /\ owed' = {}
    /\ UNCHANGED <<diskVars, issued, faults>>

\* SIGINT or SIGTERM cancels the context Serve and the worker watch.
Signal ==
    /\ phase = "up" /\ ~ctxDone
    /\ ctxDone' = TRUE
    /\ UNCHANGED <<phase, runs, queueVars, total, pc, draining, hand, chainVars,
                   lastEmitted, diskVars, owed, faults>>

\* Serve has returned: the deferred Close closes the done channel.
CloseCall ==
    /\ phase = "up"
    /\ phase' = "closing"
    /\ owed' = {queue[i] : i \in 1..Len(queue)}
    /\ UNCHANGED <<ctxDone, runs, queueVars, total, pc, draining, hand,
                   chainVars, lastEmitted, diskVars, faults>>

\* ChainState.saveLocked replaces the state file atomically or, when the
\* temporary file cannot be written, leaves the previous one.  Every caller
\* ignores the error.
Save(seq, digest) ==
    \/ /\ state' = [nextSeq |-> seq, lastHash |-> digest]
       /\ UNCHANGED faults
    \/ /\ MayFail("save") /\ Record("save")
       /\ UNCHANGED state

\* Mutant of WorkerDone: Close does not wait for the worker.
CloseDoesNotWait == TRUE

WorkerDone == pc = "exited"

\* Mutant of CloseReturn: the chain head is not saved.
CloseWithoutSave ==
    /\ phase = "closing" /\ WorkerDone
    /\ phase' = "closed"
    /\ UNCHANGED <<ctxDone, runs, queueVars, total, pc, draining, hand,
                   chainVars, lastEmitted, diskVars, owed, faults>>

\* wg.Wait returns and Close saves the chain head.
CloseReturn ==
    /\ phase = "closing" /\ WorkerDone
    /\ phase' = "closed"
    /\ IF Chained THEN Save(nextSeq, lastHash) ELSE UNCHANGED <<state, faults>>
    /\ UNCHANGED <<ctxDone, runs, queueVars, total, pc, draining, hand,
                   chainVars, lastEmitted, file, manifests, owed>>

Lose == \* the memory of the process is gone
    /\ phase' = "down" /\ pc' = "exited"
    /\ queue' = <<>> /\ hand' = Idle /\ draining' = FALSE
    /\ UNCHANGED <<ctxDone, runs, dropped, issued, total, chainVars,
                   lastEmitted, diskVars, owed>>

Exit == phase = "closed" /\ Lose /\ UNCHANGED faults

Crash ==
    /\ MayFail("crash") /\ phase # "down"
    /\ Lose /\ Record("crash")

-----------------------------------------------------------------------------
\* LogWriter.Write, called by request goroutines.

\* Mutant of Full: one event more than the channel holds.
FullPastDepth == Len(queue) > QueueDepth

Full == Len(queue) >= QueueDepth

Write ==
    /\ phase # "down" /\ issued < MaxEvents
    /\ issued' = issued + 1
    /\ IF Full
         THEN dropped' = dropped + 1 /\ UNCHANGED queue
         ELSE queue' = Append(queue, issued + 1) /\ UNCHANGED dropped
    /\ UNCHANGED <<procVars, total, pc, draining, hand, chainVars, lastEmitted,
                   diskVars, owed, faults>>

-----------------------------------------------------------------------------
\* The worker: run, drainRemaining, writeOne.

\* Mutant of SaveDue: the counter is compared before it is advanced.
SaveLate == unsaved >= SaveEveryN

SaveDue == unsaved + 1 >= SaveEveryN

\* StampJSON: the chain advances, and may be saved, before the row is written.
Stamp(ev) ==
    /\ hand' = StampedRow(lastHash, nextSeq, ev)
    /\ lastHash' = hand'.hash
    /\ nextSeq' = nextSeq + 1
    /\ unsaved' = IF SaveDue THEN 0 ELSE unsaved + 1
    /\ IF SaveDue THEN Save(nextSeq', lastHash') ELSE UNCHANGED <<state, faults>>

\* An event is received, by run or by drainRemaining, and stamped.
Take ==
    /\ pc = "select" /\ queue # <<>>
    /\ queue' = Tail(queue)
    /\ pc' = "write"
    /\ IF Chained
         THEN Stamp(Head(queue))
         ELSE hand' = BareRow(Head(queue)) /\ UNCHANGED <<chainVars, state, faults>>
    /\ UNCHANGED <<procVars, dropped, issued, total, draining, lastEmitted,
                   file, manifests, owed>>

\* Mutant of StartDrain: run does not watch the channel Close closes.
DrainOnSignalOnly ==
    /\ pc = "select" /\ ~draining
    /\ ctxDone
    /\ draining' = TRUE
    /\ UNCHANGED <<procVars, queueVars, total, pc, hand, chainVars, lastEmitted,
                   diskVars, owed, faults>>

\* run sees the cancelled context or the closed channel.
StartDrain ==
    /\ pc = "select" /\ ~draining
    /\ ctxDone \/ phase = "closing"
    /\ draining' = TRUE
    /\ UNCHANGED <<procVars, queueVars, total, pc, hand, chainVars, lastEmitted,
                   diskVars, owed, faults>>

\* Mutant of DrainedAll: the worker leaves without draining.
ExitAtOnce == draining

DrainedAll == draining /\ queue = <<>>

WorkerExit ==
    /\ pc = "select" /\ DrainedAll
    /\ pc' = "exited"
    /\ UNCHANGED <<procVars, queueVars, total, draining, hand, chainVars,
                   lastEmitted, diskVars, owed, faults>>

HeadSeq == nextSeq - 1
\* Mutant of ShouldEmit: the head must pass the interval.
EmitLate ==
    IF lastEmitted = -1 THEN HeadSeq + 1 > Interval
                        ELSE HeadSeq - lastEmitted > Interval

\* ManifestSigner.ShouldEmit.
ShouldEmit ==
    IF lastEmitted = -1 THEN HeadSeq + 1 >= Interval
                        ELSE HeadSeq - lastEmitted >= Interval

\* The row counts as written; a manifest is emitted when one is due.
Finish ==
    /\ total' = total + 1
    /\ pc' = IF Chained /\ ShouldEmit THEN "emit" ELSE "select"

WriteRow ==
    /\ pc = "write"
    /\ file' = AppendLine(file, hand)
    /\ IF Fsync THEN pc' = "sync" /\ UNCHANGED total ELSE Finish
    /\ UNCHANGED <<procVars, queueVars, draining, hand, chainVars, lastEmitted,
                   state, manifests, owed, faults>>

\* Mutant of WriteFails: the checkpoint is taken although the row was not
\* written.
FailureStillEmits ==
    /\ pc = "write"
    /\ \/ MayFail("write") /\ Record("write") /\ UNCHANGED file
       \/ /\ MayFail("torn") /\ Record("torn")
          /\ file' = AppendLine(file, Torn(hand.ev))
    /\ pc' = IF Chained /\ ShouldEmit THEN "emit" ELSE "select"
    /\ UNCHANGED <<procVars, queueVars, total, draining, hand, chainVars,
                   lastEmitted, state, manifests, owed>>

\* Mutant of WriteFails: the event goes back to the queue to be tried again.
FailureRetries ==
    /\ pc = "write"
    /\ MayFail("write") /\ Record("write") /\ ~Full
    /\ queue' = Append(queue, hand.ev)
    /\ pc' = "select"
    /\ UNCHANGED <<procVars, dropped, issued, total, draining, hand, chainVars,
                   lastEmitted, diskVars, owed>>

\* f.Write fails: nothing, or a fragment of the row, reaches the file.
WriteFails ==
    /\ pc = "write"
    /\ \/ MayFail("write") /\ Record("write") /\ UNCHANGED file
       \/ /\ MayFail("torn") /\ Record("torn")
          /\ file' = AppendLine(file, Torn(hand.ev))
    /\ pc' = "select"
    /\ UNCHANGED <<procVars, queueVars, total, draining, hand, chainVars,
                   lastEmitted, state, manifests, owed>>

Sync ==
    /\ pc = "sync"
    /\ \/ Finish /\ UNCHANGED faults
       \/ MayFail("sync") /\ Record("sync") /\ pc' = "select" /\ UNCHANGED total
    /\ UNCHANGED <<procVars, queueVars, draining, hand, chainVars, lastEmitted,
                   diskVars, owed>>

\* Mutant of SeqStart: a manifest covers the last interval only.
LastIntervalOnly == IF HeadSeq < Interval THEN 0 ELSE HeadSeq - Interval + 1

\* The first seq the next manifest covers.
SeqStart == IF lastEmitted + 1 > HeadSeq THEN HeadSeq ELSE lastEmitted + 1

\* ManifestSigner.Emit; a manifest that cannot be written is only counted.
Emit ==
    /\ pc = "emit"
    /\ \/ /\ manifests' = manifests \cup
                {[start |-> SeqStart, end |-> HeadSeq, head |-> lastHash]}
          /\ lastEmitted' = HeadSeq
          /\ UNCHANGED faults
       \/ MayFail("manifest") /\ Record("manifest")
            /\ UNCHANGED <<manifests, lastEmitted>>
    /\ pc' = "select"
    /\ UNCHANGED <<procVars, queueVars, total, draining, hand, chainVars, file,
                   state, owed>>

-----------------------------------------------------------------------------
\* emitAdminAction of the CLI: another process appends one row to the same
\* file through a LogWriter that has no chain.
OneShotAppend ==
    /\ MayFail("oneshot") /\ issued < MaxEvents
    /\ issued' = issued + 1
    /\ file' = AppendLine(file, BareRow(issued + 1))
    /\ Record("oneshot")
    /\ UNCHANGED <<procVars, queue, dropped, total, pc, draining, hand,
                   chainVars, lastEmitted, state, manifests, owed>>

Worker == Take \/ StartDrain \/ WorkerExit \/ WriteRow \/ WriteFails \/ Sync \/ Emit

Next ==
    \/ Start \/ Signal \/ CloseCall \/ CloseReturn \/ Exit \/ Crash
    \/ Write \/ OneShotAppend
    \/ Worker

Spec == Init /\ [][Next]_vars

\* The Go scheduler runs a goroutine that can run: the worker, and the main
\* goroutine in Close.  Nothing obliges requests, signals or a stop.
Fairness == WF_vars(Worker) /\ WF_vars(CloseReturn)

FairSpec == Spec /\ Fairness
-----------------------------------------------------------------------------
\* Properties.

Rows == {i \in 1..Len(file) : file[i].kind = "row"}

\* Across any number of orderly stops and starts, whatever the interleaving of
\* requests, signals and the worker, the file is one chain from genesis: the
\* state Close saves is the one the last row left (log.go writeOne and Close,
\* chain.go StampJSON and LoadChainState).
LogLinked ==
    Chained /\ faults \subseteq {"sync", "manifest"} => Linked(file)

\* A failed write loses its seq and never hands it out again: as long as the
\* saved state is not lost, seqs only grow along the file (the chain advances
\* in StampJSON before the write in writeOne).
SeqsNeverReused ==
    faults \cap {"save", "crash"} = {} =>
        \A i, j \in Rows : i < j => file[i].seq < file[j].seq

\* A crash renumbers fewer than SaveEveryN rows: no row on disk is further
\* ahead of the saved state than the save cadence (chain.go saveEveryN).
RenumberBound ==
    "save" \notin faults =>
        \A i \in Rows : file[i].seq < state.nextSeq + SaveEveryN - 1

\* A manifest pins a row that is on disk, after crashes too: writeOne emits it
\* after the write, and a failed write emits none.
ManifestsPinRows ==
    "torn" \notin faults =>
        \A m \in manifests :
            \E i \in Rows : file[i].seq = m.end /\ file[i].hash = m.head

\* The manifests leave no seq below a pinned head uncovered, although a failed
\* emission is only counted and a restart forgets LastEmittedSeq.
ManifestsCover ==
    \A m \in manifests : \A s \in 0..m.end :
        \E n \in manifests : n.start <= s /\ s <= n.end

\* What the signer may promise of its checkpoints: the heads are rows of the
\* file, and the ranges leave nothing out.
ManifestsHold == ManifestsPinRows /\ ManifestsCover

\* Between two rows the tail no manifest pins is shorter than the interval,
\* after orderly restarts too, where the signer starts from nothing.
UnpinnedTailBounded ==
    Chained /\ faults = {} /\ phase # "down" /\ pc = "select" =>
        nextSeq < Interval \/ \E m \in manifests : nextSeq - 1 - m.end < Interval

\* When a listener failure ends Serve, Close returns only after the events
\* queued at its call have left the queue.
CloseDrainsUnlessSignalled ==
    phase = "closed" /\ ~ctxDone => \A i \in 1..Len(queue) : queue[i] \notin owed

\* log.go:210-212 of Close: "Blocks until the worker has drained any remaining
\* queued events."
CloseDrains ==
    phase = "closed" => \A i \in 1..Len(queue) : queue[i] \notin owed

InQueue(e) == \E i \in 1..Len(queue) : queue[i] = e

\* While the worker lives, an accepted event is taken: the worker does not
\* leave, nor starve the queue, with an event in it.
QueuedIsTaken ==
    \A e \in 1..MaxEvents : InQueue(e) /\ ~WorkerDone ~> ~InQueue(e)

\* Close terminates, whoever cancelled the context first.
CloseTerminates == phase = "closing" ~> phase # "closing"
===========================================================================
