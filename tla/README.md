# gbounce: a TLA+ verification project

gbounce is an HTTP and HTTPS forward proxy that decides, by an operator's
rules, what an agent may reach, and keeps a tamper-evident record of what it
did.  This directory holds a model of its state machines, the TLC
configurations that check them on small instances, and TLAPS proofs of what
matters most.  Paths below are relative to the repository; `internal/` is left
out where a package name is enough.

- [Inventory](#inventory): the parts of the system, their state and hazards
- [Modules](#modules): what models what, and how
- [Runs](#runs): what TLC checks, with which bounds and why they suffice
- [Fairness](#fairness)
- [Proofs](#proofs)
- [Disagreements found](#disagreements-found) and [observations](#observations)
- [Not modelled](#not-modelled)
- [Plan](#plan)

## Inventory

### Components

| component | state it keeps | operations | depends on |
|---|---|---|---|
| audit log writer (`audit/log.go`) | bounded channel, counters, the open file | Write (never blocks), worker, Close | chain, manifests |
| hash chain (`audit/chain.go`) | next seq, last hash, `chain-state.json` | StampJSON, Save, LoadChainState | |
| manifests (`audit/manifest.go`) | last seq emitted, files in `manifests/` | ShouldEmit, Emit | chain |
| verifier (`audit/chain_verify.go`, `cli/logs.go`) | none | walk, manifest cross-check, in two scopes | files of the above |
| rotation, purge, retention (`audit/rotation.go`, `retention.go`) | archives in three tiers, `.rotating` | Rotate, PurgeLogsOlderThan, ArchiveLogs, ApplyRetention | files |
| session recorder (`audit/recorder.go`) | descriptors per session, `.partial` and final files | Start, Record, Stop, ReadSession | |
| object storage (`audit/object_storage.go`) | row buffer, time of its first row | Start, Write, tick, Flush, Close | a bucket |
| disk pressure (`audit/disk_pressure.go`) | status, refuse flag | EvaluateAndReact every 60 s | archives |
| dynamic denies (`dynamicdeny/`) | snapshot of rules, pending timer | NewWatcher, Start, loop, ReloadNow | `dynamic-denies.yaml` |
| policy (`profile/`, `proxy/deny_hosts.go`) | compiled rules | parse, compile, match | `profiles.yaml` |
| server (`proxy/proxy.go`, `mitm_handler.go`) | active profile, three rule lists, counters | handle: forward, CONNECT, MITM; reload endpoints | all of the above |
| profile store (`profile/install.go`, `profileallow/`) | `profiles.yaml`, pending queue | install, allow, denies recent | database |
| decisions database (`store/store.go`) | SQLite file, WAL | Open with migration, RecordDecision, Close | |
| backup and restore (`store/backup.go`, `restore.go`) | `.tmp` files | Backup, Restore, probe | database |
| anomaly detector (`anomaly/`, `proxy/anomaly_wire.go`) | a baseline per key: agent, action, resource pattern | Decide, Observe | |
| configuration bundles (`cli/config.go`, `cli/deployment_presets.go`) | none | export, import, presets | log |
| scanners (`injectionscan/`, `toolcallvalidator/`) | none | pure functions | |
| TLS (`mitm/`) | CA files, LRU of leaves | GenerateCA, CertFor | |
| MCP server (`mcp/`), installer (`mcpinstall/`) | none beyond files | one call at a time; install | deny file, profiles, client files |
| management pages (`proxy/*_ui.go`, `audit_events.go`, ...) | none | read-only views | database, counters |
| reports (`cli/`, `posture/`, `caveats/`, `structureddeny/`) | none | read and format | |

### How they interact

A request enters `handle` in `proxy.go`.  The disk-pressure flag is read first.
`deny_hosts` (static list and the snapshot of the dynamic denies) is matched,
the detector is asked, and the upstream is dialed; in MITM mode the CONNECT is
hijacked and each decrypted request goes through allow rules, deny rules, the
body scanners and the upstream.  Each outcome calls `recordWith`, which writes
a row to the database and an event to the log's queue, then offers the event to
the recorder and the object storage.  The log's worker stamps it into the
chain, writes it, and from time to time saves the chain's state and emits a
manifest.  Meanwhile the watcher swaps the snapshot of dynamic denies, the
reload endpoints swap the profile, and the disk-pressure loop the flag.  On a
signal the context that everything watches is cancelled, Serve stops the
recorder and returns, and the deferred Closes of the run command stop the
log, the storage and the database, in this process or in the middle of a
hijacked connection nobody waits for.  One-shot commands (verify, purge,
backup, restore, config import, profile allow, mcp install) and the MCP servers
of the agents work on the same files from other processes, without locks.

### What is hard

- **Interleavings**: handlers against the worker and Close; two readers of one
  YAML file, and two writers of one; rule slices read without the writer's
  mutex; three processes over one SQLite file and its log; requests of one key
  scored before any of them is observed.
- **Crashes**: chain state saved every n rows, manifests whose counter is not
  persisted, partial recordings, a migration of several statements, a restore
  by rename beside a write-ahead log, a scrub that writes in place.
- **Partial failures**: short writes, saves whose error is ignored, a rotation
  that fails after its rename, uploads cancelled by the request that triggered
  them.
- **Order**: audit before action, deny before dial, drain before exit.
- **Time**: debounce, expiry, what is admitted between two ticks, the
  millisecond that names an object.
- **Two readings of one text**: deny entries, durations and windows of time are
  parsed by more than one piece of code.

`PROJECT.json` lists each hazard at its line with the property that would catch
it; a hazard without a property says why.

## Modules

Each model module carries, directly before an operation, the variants of it
with a plausible bug ("Mutant of ..."): substituted for the operation, each is
refuted by the property it is kept for, which shows that the property depends
on the code being right there.

| module | models | composed of |
|---|---|---|
| `AuditChain` | rows, digests, manifests, state file | |
| `AuditLog` | LogWriter, ChainState, ManifestSigner over runs of the process | `AuditChain` |
| `AuditSink` | what the log promises its callers (abstract) | |
| `MCAuditLog` | instances; the refinement of `AuditSink` | `AuditLog`, `AuditSink` |
| `AuditLogProofs` | proofs | `AuditLog` |
| `ChainVerify` | the walk and the manifest cross-check, as operators | `AuditChain` |
| `AuditDirectory`, `MCAuditDirectory` | files between writer and verifier | `ChainVerify` |
| `DynamicDeny`, `MCDynamicDeny` | file, watcher, reload endpoint | |
| `Enforcement`, `MCEnforcement` | every path of a request while rules change | |
| `EnforcementProofs` | proofs | `Enforcement` |
| `Emission` | what recorder and storage share: writers and events | |
| `SessionRecorder` | the recorder's files | `Emission` |
| `ObjectStorage` | buffer, flushes, Close | `Emission` |
| `Sinks`, `MCSinks` | both sinks and the process around them | the two above |
| `SQLite` | a database file, its log and connections (external) | |
| `Store` | Open with its migration, RecordDecision, Close | `SQLite` |
| `BackupRestore`, `MCBackupRestore` | run, backup and restore over one database | `Store` |
| `ProfileStore` | `profiles.yaml`, install, allow, the pending queue | |
| `McpServer` | the MCP tools that rewrite the dynamic-denies file | |
| `DiskPressure`, `MCDiskPressure` | the periodic check, its modes, what it drops | |
| `Anomaly` | baseline, window, cap, decision and observation | |
| `Retention` | tiers, scrub, purge and one bundle of archives | |
| `Selection` | the loop that appends what it keeps | |
| `Policy`, `PolicySweep` | rules and host matching, as operators; samples of them | `Selection` |
| `BodyScan` | both body scanners and the strip, over samples | |
| `McpConfig` | the entry of this server in a client's file, over samples | |
| `ConfigBundle` | export, import, schema, presets, over samples | |
| `Denials` | denies recent and the command it suggests, over samples | `Selection` |
| `MCControl` | the parts that decide, side by side | `DynamicDeny`, `ProfileStore`, `McpServer`, `DiskPressure`, `Anomaly`, and the five sampled ones |
| `MCHousekeeping` | directory, database and archives, side by side | `AuditDirectory`, `BackupRestore`, `Retention` |
| `SinksProofs`, `DiskPressureProofs`, `AnomalyProofs` | proofs | the module of the name |
| `ControlProofs` | proofs about `DynamicDeny`, `ProfileStore` and `McpServer`, and the state machines of `MCControl` together | `MCControl`, `DiskPressureProofs`, `AnomalyProofs` |
| `SampleProofs` | proofs about the five sampled modules | `MCControl` |
| `HousekeepingProofs` | proofs about all three parts | `MCHousekeeping` |

### AuditLog

| model | code |
|---|---|
| `queue`, `dropped`, `total` | the fields of LogWriter |
| `pc`, `draining`, `hand` | where the worker stands in run, drainRemaining and writeOne |
| `nextSeq`, `lastHash`, `unsaved`, `state` | ChainState and `chain-state.json` |
| `lastEmitted`, `manifests` | ManifestSigner and its directory |
| `Write` / `Take` `WriteRow` `WriteFails` `Sync` `Emit` / `StartDrain` `WorkerExit` | Write / writeOne, one action between two effects others can see / the ends of run |
| `Start`, `Signal`, `CloseCall`, `CloseReturn`, `Exit`, `Crash` | the run command around it |
| `OneShotAppend` | a CLI command that writes to the same file without a chain |

A digest is the history it commits to: a collision-free hash determines that
history and nothing else is ever done with one.  A torn write leaves a fragment
that the next row continues, as O_APPEND does.  `AuditSink` states the contract
(accepted events are delivered in order, once, or lost for good); the queue and
the row in the worker's hand map to `pending`, the readable rows to
`delivered`.  `delivered` is a function from places to events, so that a place
nothing readable was written at (a torn row) maps to nothing.

### AuditDirectory and ChainVerify

`Verify` is the walk over the concatenated lines of the archives and the active
file: a recursive function whose step is `CheckLine`, the body of the loop.  `FullOK` is
`verify-chain --manifest` in the directory scope; `VerifyIntegrity` is what
`logs verify` reports of a file.  `Damage` does what storage and hands may do
to lines: drop, edit, swap, strip of the chain block, garble, cut the tail, or
replace the file by a copy that diverged.

### DynamicDeny

The file's content is absent, invalid, or a version (each valid write is a new
version).  `TakeEvent`, `TimerFires` and `LoopCommit` are the three cases of the
watcher's loop, with the load and the commit apart because the endpoint's
`HttpLoad` and `HttpCommit` run between them.  The debounce period may end at
any moment.

### Enforcement

One client is one connection, its record says where the handler stands, and
there is one action per step between two reads or effects.  Hosts and classes
of requests are matched by identity; matching itself is in `Policy`.  `window`
is a history: the policies in force between the arrival of a request and its
decision.  Slices are read without `profileMu`, so `Reads` returns any list in
the window or, torn, the array of one with a shorter length of another; the
step is then marked `torn`.

### Sinks

`Record` and `Store` are the two halves of the end of recordWith; `Detach` and
`Finalise` are the two halves of finaliseSession, under the lock and without it.
`Take` and `Put` are Flush under the lock and the upload after it, by any writer
whose row filled the buffer, the rotator, or Close.

### BackupRestore

`SQLite` says of WAL mode what the store package relies on, and one thing it
does not expect: the log is found by the database's path.  A file is the pages
`schema` and `rows`.  Every statement of the migration is an action; so is
every step of Backup and Restore between which the process may be killed.

### ProfileStore

Every command is a process with two steps another can come between: the read,
after which it has decided (`Local` profiles may be edited, an install names the
profiles it replaces), and the rename.  It may be killed at any place, and the
file may be edited by hand, well or badly.  An agent's request goes to the queue
unless the operator set the self-grant variable.  `raced` marks a history in
which a rename came between another's read and rename.

### McpServer

One server per agent, one call at a time, each a read of the file, a change and
a rename; the operator edits the same file.  The loader's answer is what the
proxy would enforce: it refuses the file for one duration it cannot parse, and
drops what has expired.

### DiskPressure

Sizes are rows; the volume is shared by the active log, its archives and other
programs.  `Tick` is EvaluateAndReact as a whole, with the second statfs and the
loop that drops.  Between two ticks requests are admitted on the flag of the
last one, `MaxAdmitted` at once, and their rows are written later.

### Anomaly

A key's baseline is the number of observations of each hour in the window.
`Decide` and `Finish` are the two halves of a request, with the upstream
between them.  Means and deviations are compared as integers: both sides are
squared and multiplied out, so nothing is rounded.

### Retention

ApplyRetention is a loop over the names it listed when it began (`ApplyBegins`,
`ApplyStep`); a scrub is two steps, the copy without personal data in place and
the removal of the source (`ScrubEnds`), between which it may die.  ArchiveLogs
(`BundleBegins`, `BundleAdds`, `BundleAddsActive`) lists, then copies file by
file, while the log rotates and is purged.

### The sampled modules

`Policy`, `BodyScan`, `McpConfig`, `ConfigBundle` and `Denials` translate pure
functions.  A text is a record of what its parser tells apart (how many stars it
has, whether a scheme or port is in it), a host its labels, a body the matches
its lines hold.  Each sample is an initial state of `MCControl`, and a property
compares the operator with what the text means, which is stated without it: a
deny entry covers the host it names and, with a leading star, what ends in it; a
listing is the newest denials of its window.  The samples are small; that the
same holds of every entry, file, list and body is proved in `SampleProofs`.

### Conventions

Parts that share no state are checked in one run, side by side: the variable
`part`, which no step changes, says which of them a behaviour is of, and the
others stay where they began.  That adds states instead of multiplying them,
and hides no interaction: the parts that do interact are composed in `Sinks`,
`BackupRestore`, `AuditDirectory`, `DynamicDeny` and `Enforcement`.  The
watcher and the servers that write its file are apart because the watcher may
meet any change of the file whatever its author, and `DynamicDeny` gives it all
of them.

`map` in `PROJECT.json` names the lines each definition stands for, those whose
detail it abstracts included.  A definition whose lines lie inside the range of
another of the same module (the helper of an operation, the failing branch of
one, an environment step) is not listed a second time.

## Runs

Every run passes `-workers 2` in under three minutes.  Counters are capped by
guards, each a constant whose name begins with `Max`.  Because of those caps,
and because a stopped process may stay stopped, every behaviour can end:
deadlock checking is off, and what must happen is stated as a liveness property
instead.

| run | states | what it shows |
|---|---|---|
| `auditlog_orderly` | 71 k | stops and starts without crashes: one chain from genesis, short unpinned tail, Close drains, every queued event is taken, Close returns |
| `auditlog_faults` | 1.6 M | failed and short writes, failed saves and manifests, crashes, foreign rows: seqs are never reused while the state survives, a crash renumbers fewer than `saveEveryN`, manifests hold (they pin rows on disk and leave no gap); the writer implements `AuditSink` |
| `auditlog_signal` | violation | see D1 |
| `auditdir_truncate` | violation | see D2 |
| `dyndeny_endpoint` | violation | see D3 |
| `control_files` | 1.1 M | what the proxy decides by, part by part; see below |
| `diskpressure_floor` | violation | see D6 |
| `enforcement_swap` | 1.4 M | nothing is dialed that every policy in force meanwhile refuses; each finished request has the row that tells its outcome, written first; denials come from a rule; swaps are all or nothing |
| `enforcement_clidenies` | violation | see D4 |
| `sinks_shutdown` | 5.4 M | recordings hold (recorded events stay and read back), Stop finalises, each accepted row is in one place or reported, Close leaves nothing in memory |
| `database_stalelog` | violation | see D5 |
| `housekeeping_upkeep` | 2.4 M | directory, database and archives, part by part; see below |

`control_files`:

| property | of | says |
|---|---|---|
| `NeverFailsOpen`, `Converges` | `DynamicDeny` | a bad edit never takes the rules away; undisturbed, the snapshot becomes the file's content |
| `WritesStay` | `ProfileStore` | what a command reported written stays, if no two commands overlap, whatever is killed in between |
| `GrantsGenuine` | `ProfileStore` | no interleaving, overlaps included, puts a local rule into an installed profile or an agent's request into the file without the opt-in |
| `AcknowledgedDeniesStand` | `McpServer` | the file has the rules that were acknowledged and not removed, and they are enforced until they expire |
| `DiskPressureIsHandled` | `DiskPressure` | requests stop early enough for the rows of those admitted; the oldest archives go, and no more than needed |
| `AnomalyIsBounded` | `Anomaly` | the baseline is what was observed since eviction, the stalest key is evicted, a burst exceeds the score by no more than was in flight |
| `RulesMeanWhatTheySay` | `Policy` | two parsers of one entry agree, generated rules keep their meaning, a verdict before decryption uses nothing only decryption shows |
| `ScansHold` | `BodyScan` | each verdict has the evidence it needs; a strip takes what was found |
| `ConfigsAreSound` | `McpConfig`, `ConfigBundle`, `Denials` | an install keeps the rest of the file; an export passes the import's check and leaves its row; denials of the window are listed |

`housekeeping_upkeep`:

| property | of | says |
|---|---|---|
| `NoFalseAlarm` | `AuditDirectory` | what is intact verifies, and a purge is one finding, in both verifiers |
| `FirstFindingLocates` | | the first finding is where the chain departs |
| `CleanMeansWritten` | | a clean result is a prefix of what was written, with the rows a manifest pins |
| `OpenIsMigrated`, `BackupIsSnapshot`, `ReadsItsHistory` | `BackupRestore` | an Open that returned migrated; a backup is a snapshot and complete; only a transaction or a finished restore changes what the path reads |
| `RetentionHolds` | `Retention` | batches stay whole until their time, in the tier of their age, scrubbed where the policy says so; a bundle without an error has all |

Why the bounds are enough:

- *auditlog*: a queue of two fills and overflows with four events; saving and
  signing every two rows makes both due, twice, at odds with each other; two or
  three runs let the second start from a state the first left, and the third
  from one a restart left.
- *directory*: four rows in up to two archives and the active file put a damage
  at the head, inside, at a seam and at the tail; two damages let one hide
  another.
- *watcher*: four changes let a version be overwritten while one is pending and
  another is in a goroutine's hand; two requests and the loop are three
  committers.
- *enforcement*: one connection suffices, since connections share only the
  rules and the changes come from outside; three requests let a CONNECT be
  followed by two decrypted ones; three swaps put one between any two reads;
  the profiles differ in each list, in length and in order (which torn reads
  need), and one does not parse.
- *sinks*: two handlers, three events and a buffer of two make a size flush, a
  drop, and a flush that overlaps another; two runs let the second meet the
  partial file of the first.
- *database*: three processes, three files at the path and two decisions give a
  restore over a database with and without rows.  The state constraint
  `WellPaired` cuts what follows a restore over a log or an open connection:
  the properties of that part are stated for states before it, and the run
  `database_stalelog` looks at what lies behind.
- *profiles, MCP*: two processes and three commands put a whole command between
  another's read and its rename, and one after both; two names tell an
  installed from a local profile; one edit by hand can break the file at any
  moment.
- *disk*: a volume of eight rows with thresholds of 40, 50 and 60 per cent and
  floors of 3 and 2 puts both thresholds between two row counts; one admitted
  request and one row between ticks are what a tick can be late by; with two
  archives one of them can be dropped.
- *detector*: three keys against a cap of two make one eviction necessary and
  another possible; a window of three hours and six requests warm a baseline,
  let it age out, and leave two in flight.
- *archives*: policies of one to three days over three days and two batches let
  a batch pass every tier, or be purged in one.
- *samples*: hosts of up to three labels, entries with zero to two stars, each
  extra a parser looks at; two rules decide first match; bodies of few lines
  and calls give every count the confidence distinguishes.

Several properties are conditional, and each condition names a real limit of
the code, listed under the observations: overlapping writers of a file, a
duration the loader refuses, space taken by other programs, a second
finalisation of a session, an object of the same millisecond, a torn read, a
disturbed watch, a scrub that died.

## Fairness

- `AuditLog`: weak fairness of the worker as a whole and of the return of
  Close.  The worker is a goroutine that is never blocked except on its
  channel, so the Go scheduler runs it; requests, signals and stops are owed to
  nobody.
- `DynamicDeny`: weak fairness of each step of the watcher's goroutine and of
  each request already inside ReloadNow.  The `select` chooses among ready
  cases, and the debounce timer fires once events stop.  Nobody is obliged to
  change the file.
- `MCControl` takes over the fairness of `DynamicDeny`; it concerns no other
  part.
- The other modules state safety only and need none.

## Proofs

TLAPS checks these for every value of the constants that satisfies the
assumptions named beside them (TLC evaluates the assumptions on the instances).

| module | theorem | statement |
|---|---|---|
| `AuditLogProofs` | `TypeCorrect` | `[]TypeOK`; the queue never exceeds its depth |
| (`ParamsAssumption`) | `LogIsLinked` | `[]LogLinked` |
| | `SeqsAreUnique` | `[]SeqsNeverReused` |
| | `RenumberingIsBounded` | `[]RenumberBound` |
| | `CheckpointsHold` | `[]ManifestsHold` |
| | `TailIsPinned` | `[]UnpinnedTailBounded` |
| | `CloseDrainsTheQueue` | `[]CloseDrainsUnlessSignalled` |
| | `LogImplementsSink` | `Spec => ImplementsSink`, the refinement of `AuditSink` |
| `EnforcementProofs` | `TypeCorrect`, `Inductive` | `[]TypeOK`; the inductive invariant |
| (`EnforcementAssumption`) | `Enforced` | `[]DialsArePermitted` |
| | `TrailIsComplete` | `[]RowsTellTheOutcome` |
| | `RecordsComeFirst` | `[]RecordedFirst` |
| | `SwapsAreAtomic` | `[]SwapIsAllOrNothing` |
| | `DenialsHaveARule` | `[]DeniedOnlyByRule` |
| `SinksProofs` | `StorageInvHolds`, `RecorderInvHolds` | the inductive invariants |
| (`SinksAssumption`) | `RowsAreAccounted`, `NothingIsLeft` | `[]RowsAccounted`, `[]ShutdownFlushes` |
| | `StopFinalises`, `RecordingsAreKept` | `[]FinalisedAtExit`, `[]RecordingsHold` |
| | `SinksTyped` | `[]TypeOK` |
| `DiskPressureProofs` | `VolumeIsNeverOverfull`, `DiskIsHandled` | of the breaker by itself |
| `AnomalyProofs` | `AnomalyHolds`, `AnomalyIsTyped` | of the detector by itself |
| `ControlProofs` | `GrantsStayGenuine`, `WritesAreKept`, `StoreIsTyped` | of the profile store by itself |
| | `GrantsAreGenuine`, `WritesAreSafe` | `[]GrantsGenuine`, `[]WritesStay` |
| (`DynamicDenyAssumption`, | `DeniesAreKept` | `[]AcknowledgedDeniesStand` |
| `StoreAssumption`, | `DiskPressureHolds` | `[]DiskPressureIsHandled` |
| `McpAssumption`, | `AnomalyStaysBounded` | `[]AnomalyIsBounded` |
| `DiskAssumption`, | `ControlIsTyped` | `[]ControlTypeOK` |
| `DetectorAssumption`) | `FailsClosed` | `NeverFailsOpen`, an action property |
| `SampleProofs` | `EveryEntryMeansWhatItSays` | of any text, both parsers and what it denies |
| | `EveryFileMeansWhatItSays` | of a deny-hosts file of any length |
| | `EveryUndecryptedVerdictIsBlind` | of any rules and requests |
| | `EveryMergeKeepsMeaning` | of any profile and any number of generated rules |
| | `RulesHold` | `[]RulesMeanWhatTheySay` |
| | `EveryInstallKeepsTheRest` | of any client's file |
| | `EveryBundleTravels`, `EveryCommandIsOnRecord` | of any options and bundle, whatever fails |
| | `EveryPresetHolds` | of any flags |
| | `EveryListingIsTheNewest`, `ToolListsNoMore` | of any rows, newest first |
| | `ConfigsHold` | `[]ConfigsAreSound` |
| | `EveryVerdictHolds` | of any findings and configuration |
| | `EveryResponseHolds` | of a body of any length |
| | `EveryRequestHolds` | of any finite set of tool calls |
| | `ScansAreSound` | `[]ScansHold` |
| `HousekeepingProofs` | `NoAlarmIsFalse` | `[]NoFalseAlarm` |
| (`DirectoryAssumption`, | `TheFirstFindingLocates` | `[]FirstFindingLocates` |
| `DatabaseAssumption`, | `CleanIsWritten` | `[]CleanMeansWritten` |
| `TieringAssumption`) | `OpenedIsMigrated` | `[]OpenIsMigrated` |
| | `BackupsAreSnapshots` | `[]BackupIsSnapshot` |
| | `PathReadsItsHistory` | `[]ReadsItsHistory` |
| | `ArchivesAreKept` | `[]RetentionHolds` |
| | `HousekeepingIsTyped` | `[]HousekeepingTypeOK` |

*AuditLog.*  That the file is one chain does not follow from itself: the next
row extends it only if the chain in memory, or while the process is down the
state on disk, is the digest and seq of the last row.  `ChainTracksFile` says
which of them it is at each place the worker and the process can stand: between
stamp and write the chain is one row ahead of the file, while the row in hand is
exactly that row.  `Quiet` confines it to histories without failed writes, saves
and crashes, which are the ones `LogLinked` speaks of.  The other invariants
each keep less of that and under fewer conditions.  `SeqsBelowChain`: seqs in
the file are below the chain's, and a failed write only skips one.
`StateFollows`: the state on disk is behind by fewer rows than are counted as
unsaved.  `HeadOnDisk` and `EmittedKnown`: the row the signer is about to pin is
the last of the file, and the last end it remembers is a manifest's, which after
a restart it has forgotten and emits again.  `TailPinned` relates the unpinned
rows to the interval at each place of the worker.  `OwedLeaves` says that what
was queued when Close was called is taken before the worker leaves.  Digests
are opaque behind lemmas on their type.

*The refinement.*  A step of the log maps to a step of the sink: a stutter for
everything but `Write`, the write of a row, its failure, and the loss of the
queue at an exit or a crash.  The theorem has one hypothesis, `Chained \/
"oneshot" \notin FaultKinds`: without a chain nothing tells a row another
command appended from a row of the writer, and the mapping cannot know which
places are its own.

*Enforcement.*  `IInv` says, of each place a connection can stand at, what
its row, its answer and its window must be (`Progress`), and that past its
decision some policy in the window permits it (`Permission`).  Both speak of one
record, so each action is one lemma about the record it writes, and `StepGood`
carries it to all connections.  A swap only enlarges windows of undecided
requests, for which `Permission` promises nothing yet.  `BlameInv` is the
companion for denials; it also holds for torn reads, because the entries of a
mix are those of one of its lists.

*Sinks.*  Of the storage, `OnePlace` and `SomePlace` say that an accepted row is
in at most one, and at least one, of buffer, upload in a goroutine's hand,
bucket, and failed uploads; `HeldIsFresh` (what is in a hand was never put) makes
the first inductive through `Take` and `Put`.  `ClosingIsQuiet` says what is left
when Close passes each of its steps.  Of the recorder, `SessionKept` says for
each session what of its recorded events its two files hold, which descriptor
writes to which, and which of them ends torn; `StopInv` what Stop has finalised
so far; `FilesLeft` counts the files so that a name is free whenever one is
made.  The history `recorded` is kept per session, since that is how
`ReadSession` gives it back.

*The files of rules.*  `StoreInv`: the copy every command holds, whenever it was
read, is of genuine profiles, and a rename can only put such a copy in place; no
condition on overlaps is needed.  `CopiesInv`: until two commands have
overlapped, the copy a command holds is the current file with its own change.
`McpInv` says the same of a server's and the operator's copies of the denies.
`DenyInv` is why the watcher fails closed: an empty snapshot is loaded only from
an absent file, by whichever of the loop and the endpoint, at whatever moment.

*Disk pressure.*  `Needed`: what has been dropped was the oldest, and the volume
was over the threshold when it went.  `RoomIsLeft`, in the mode that refuses
requests: as long as they are admitted, the room is at least what the rows of
those admitted can take until the next tick; `Headroom`, which says that the
percentage leaves that room at all, is a hypothesis of the property itself.
The percentages are multiplied out, so that the arithmetic is linear in what a
step changes (`Numbers`).

*The detector.*  `Baseline`: a tracked key's hours within the window are those
observed since it was last evicted, and whoever is tracked was observed no
earlier than whoever is not, which makes the stalest key the one to go.  `Rate`
counts: from any hour on, the requests of a key let through on a warm baseline
are no more than those observed plus those in flight.  So when one more is let
through, the rate the score saw lacked only what was in flight, and the score
called that rate normal (`AllowedCovers`): the excess is less than the requests
in flight together.  The score itself, its sums, weights and squares, stays
opaque: the bound holds whatever it computes.  Sums over the hours are a recursive
function (`Total`), shown to exist and to grow with its terms.

*The directory and the verifier.*  `WalkInv` is about the operators alone: at
each line the state of the walk stands for the lines passed (they are linked if
there is no finding, and then it holds their digest and their number), and the
findings up to a line are those the walk had there.  So `FirstFindingLocates`
holds for lines of any origin.  `DirectoryInv` says what the files hold: the
written rows form a chain; a manifest pins one of them; while nothing was
damaged the directory is an end of what was written, all of it before a purge;
and damages other than divergence leave only written rows, such rows with another event, or lines
that are no rows.  A row among those whose digest is that of its contents is a
written one and its seq is its place, hence `CleanMeansWritten`; with a head
pinned, equal digests mean equal chains, down to genesis (`SameHeads`).

*The database.*  `Together`: every connection is to the file at the path, whose
content under the log is what the transactions made (`truth`).  `Progress`: at
each place in the migration the columns it has passed are in `truth`, which only
grows; that the schema of one process can only be helped by the others' is why
concurrent migrations are harmless.  `Snapshot`: from each step of the backup
on, the temporary file holds rows the database held since it started.  All three
hold until a restore has renamed over a log or a connection (`WellPaired`),
which is the condition of the three properties; what is behind it is D5.

*The archives.*  `KeptInv`, unless a scrub died: two archives of one batch, or
one that is not whole, are there only while that batch is being scrubbed, and a
batch whose time is not over has a whole one.  `SortedInv`, without scrubs: no
archive is further than its age, and those ApplyRetention has passed today are
where it says.  `BundleInv`: each archive listed is in the bundle or still to be
added.

*The parts together.*  A step of `MCControl` or `MCHousekeeping` is a step of
one part and a stutter of the others, so each part's invariant is kept and the
conjunction is the invariant of the whole.

*Induction over numbers* is available in spite of the library theorem for it
(which takes an operator): the set of numbers for which a formula fails has a
least element (`LeastNumber`, from the well-foundedness of `<`), and
`UpToTheBound` turns that into induction up to a bound, over sets.  With it a
recursive function over `0..n` or `1..n` is shown to exist and to be what it
says (`VerifyWalks`, `FlattenIs`, `TotalIsSum`); what the walk computes and what FlattenSeq
holds follow.  That is why `Verify` is such a function and not a fold, and why
`SQLite` has `Over` (pages seen over others) for the module TLC's `@@`, which the
provers cannot expand.

*The sampled modules.*  A sample never changes (`SampleStays`), so an invariant
about it says what the operators do with the samples.  That is the small half.
The theorems named `Every...` say it of all inputs: texts over any set of labels,
files with any number of lines, profiles and generated rules in any number,
members of a client's file of any names, bundles of any content, rows of any
number as long as the newest come first, bodies of any length, calls in any finite
set.  `RulesHold`, `ConfigsHold` and `ScansAreSound` then only show that a sample
is such an input.  What each rests on:

- *Entries and files.*  The two parsers ask the same of a text in other words and
  another order (`ParsersAgree`).
  A file is its lines' entries in one list (`FlattenSeq` is shown to hold the
  members of its parts) without what is no text (`SelectedMembers`).
- *Verdicts without decryption.*  The first rule that matches is the least place
  of a set of places, and which rules may be asked depends on host and port alone.
- *Merging.*  `DeniesAdded` and `AllowsAdded` say what a profile has after the
  first n rules: the members it had, and one per rule addressed to this product,
  as an entry of deny_hosts or as a rule.  The induction is over n; that one rule
  means what its author said (`Means`) is a lemma about a single rule.
- *Listings.*  `Shows` relates a listing to the rows by a growing function from
  places in the one to places in the other; both counting the hits (the images of
  that function are as many as its arguments) and their order follow from it.
- *Responses.*  The rules met in a prefix are among those met in the body, the
  high ones and the medium ones, and the score grows with the number of either
  (`ConfidenceGrows`); so a prefix scores no more, unless a line behind it is on
  the allowlist.
- *Requests.*  A breach is of one call and the corpus (`BreaksOnly`), and what the
  strip leaves is told call by call (`Left`): a flagged call remains only
  as a bare entry or beside a function_call that is flagged too.

Recursion and folds of the library over operators (`SelectSeq`, `FoldLeft`) are
beyond the provers, hence `Selected` and the functions in `mergeGeneratorRules`.
The attempt to prove what a merge does also showed that arms of two CASE
expressions of `Policy` overlapped, which left the value open where TLC took
the first arm; they exclude each other now, in the order of the code.

*Left to TLC.*  Liveness (`QueuedIsTaken`, `CloseTerminates`, `Converges`):
neither fairness nor ENABLED is within the provers' reach.  Every other
property of a passing run is stated by a theorem.

## Disagreements found

Each is a run that TLC refutes, of a sentence the repository says of itself.

- **D1** `auditlog_signal`.  `audit/log.go` says Close "blocks until the worker
  has drained any remaining queued events".  After SIGTERM the worker leaves by
  the cancelled context while handlers still write; Close then returns at once
  with their events in the queue.
- **D2** `auditdir_truncate`.  The comment on VerifyChainAndManifests says rows
  lopped off the end that a manifest covers are caught.  When no row is left
  there is no head and nothing is compared.
- **D3** `dyndeny_endpoint`.  `watcher.go` promises that a modified file is
  reloaded.  A request to the endpoint that loaded the file before the last
  change may commit after the loop did; the old rules stay until the next
  change.
- **D4** `enforcement_clidenies`.  `cli.go` says of the CLI's denies and a
  profile's: "union semantics; CLI denies always apply".  The run command
  installs the profile a second time, by itself, and drops them.
- **D5** `database_stalelog`.  `restore.go` says the operator "wants the backup
  file's state, period".  A process that died with the database open leaves its
  write-ahead log; SQLite replays it over the restored file.
- **D6** `diskpressure_floor`.  `audit/disk_pressure.go` says of percentage and
  free bytes: "Either threshold hit triggers warn/crit".  The second
  classification asks the percentages again: a volume critical by its free
  bytes is called degraded while its percentage is below crit, and nothing
  pauses.

## Observations

Met while reading for the models; not claims of a run.

*Audit log.*  A one-shot CLI command appends rows without a chain block to the
file of a chained writer, and the verifier reports them (`cli/config.go:775`,
`chain_verify.go:27`).  File-scoped verification of a file not named
`audit.jsonl` compares the manifests with a different set of files
(`cli/logs.go:133-135`).  Verify skips archives it cannot open and ignores
Scanner errors.  A Rotate whose compression fails leaves rows in `.rotating`,
which the next Rotate deletes (`rotation.go:115-124`); Rotate and ApplyRetention
have no caller.  The PII scrub removes its source although the scanner may have
failed (`retention.go`).

*Dynamic denies.*  Changes between NewWatcher and Start are not seen
(`watcher.go:228`).  When the directory is missing the watch stays on an
ancestor (`214-226`).  An overflow of the kernel's queue is only logged.
Expired rules stay until the next reload, as the source says.  A reload by the
endpoint counts twice in the server's counter and not in the watcher's; the
parse failure of the first load is missing from it.

*Requests.*  Rule slices are read without the mutex that guards their
assignment.  A MITM connection asks `deny_hosts` once, so a host denied later
stays reachable through it (the comment at `mitm_handler.go:232-234` says
otherwise).  A CONNECT splice does not end when the upstream closes
(`proxy.go:1118-1128`).  MITM never asks the detector nor AllowConnect; bodies
over 1 MiB are cut and the cut body is forwarded (`mitm_handler.go:39-43`
against `617-632`); client write failures after the hijack, failed handshakes
and the disk-pressure refusal leave no row; a denial by a body scanner is
answered before its row.  SetActiveProfile(nil) leaves the rules.  Allow rules
are parsed by ParseRule at startup and by ParseAllowRule on reload.  The deny
host "[::1]" is kept with its brackets and never matches, and "::1" is refused,
although the comment on MatchDenyHosts says the two match; a dynamic rule with
a bad glob is skipped silently.

*Recorder and storage.*  A session that continues after it was finalised loses
its first recording to the second rename.  The second header of a continued
file reads back as an event.  One torn line makes ReadSession fail and
ListSessions skip the session.  ReadSession prefers the final file over a newer
partial one.  Young partial files of a crash are not finalised by the next
Start (`proxy.go:700-702` says they are).  The error path of a listener does not
stop the recorder.  Rows of a failed upload are not counted as dropped
(`object_storage.go:461-463`).  A flush that a writer triggers runs under that
request's context, and Close cancels the rotator's upload.  Two objects of one
millisecond share a name.

*Database.*  A fresh installation is never "empty", since `schema_version` has a
row (`restore.go:27-30`).  The probe for a running process tries the default
ports, once, before the copy.  Two processes that migrate a fresh database at
the same time make one Open fail.  Two backups of one name share their
temporary file, and the target is looked at long before the rename.
`audit tail --follow` keeps its row id across a restore.

*Profiles and rules.*  profiles.yaml is read, changed and renamed into place
without a lock (`profile/install.go:592`): of two overlapping commands the
later rename drops the other's write, and allow replaces the whole profile by
the copy it read.  `METHOD:*` gives a path prefix of a literal star, which
matches nothing (`profileallow.go:301-302`).  `profile allow --target` writes
its target without parsing it, so a bad one makes the file unreadable to the
next load.  The suggested command lacks the required `--profile`, and with a
port in its target never matches; denials older than the scan limit are not
listed; the command line and the tool read blank and signed `--since` values
differently.  The scalar form `deny_hosts: host` is ignored without a word
(`proxy/deny_hosts.go:330-342`).  Of the generator's rules, one whose actions
are all blank constrains no method, and an allow rule of the prefix "/" alone
is accepted as allow-all.

*MCP.*  The tools rewrite dynamic-denies.yaml from an earlier copy
(`mcp/server.go:440` says so).  deny_add accepts a duration the loader refuses,
after which the whole file no longer loads, contrary to `mcp/server.go:434-437`.
`mcp install` on a file that holds `null` panics.  Export always exports the
same constants, and import persists nothing, as its comment says.

*Disk pressure.*  The drop loop tests the percentage alone
(`disk_pressure.go:434`); archive-and-purge drops in the tick that found the
volume critical; a failing statfs lifts the refusal; decrypted requests of a
standing connection do not pass the check, although `proxy.go:203` says "every
request".

*Retention.*  A scrub gives its result a fresh modification time, so the tiers'
days start again at each (`retention.go:8-9` counts them from the rotation),
and it rewrites and removes although the comment at `290-291` calls purge the
only destructive operation.  A death between its two steps leaves both files,
and the partial one is later renamed over the whole one.  Files of the warm and
cold tiers are outside the walk and outside `logs archive`; a bundle fails when
the active log grows under it and misses what rotated meanwhile.  `logs purge
--older-than 36h` purges from 24 hours; `logs verify --json` exits 0 on
failures.  ApplyRetention, the rotation triggers, Rotate and RecoverPartialTail
have no caller outside the tests.

*Detector.*  Refused requests are observed too (`anomaly/hook.go:283`), so
retries teach the baseline what it refused.  After a quiet hour a steady agent
is over its own rate.  Eviction resets a baseline, and with it the warm-up.
Events go to a ring, not to the log, although the comment near `proxy.go:1797`
says so.  Block mode is not asked for decrypted requests.

*Scanners.*  The allowlist is matched against the whole body and the rules
against the cut one; of each rule the first match alone is reported and
stripped, and one that spans lines survives; a strip of tool calls goes by
name, and leaves bare `tool_calls` entries; truncated JSON passes as not being
JSON; when both scanners find something, the row names only the response's.

## Not modelled

- TLS: the CA, the leaf cache, redaction.  A handshake succeeds or fails in
  `Enforcement`; the cache is a mutex around a list and its only hazard, two
  mints of one name, costs a signature.
- Regular expressions and JSON as text: a pattern is a kind of match, a body
  what its parser finds; whether an expression matches a phrase is out of a
  model checker's reach.
- The bytes of a tunnel and of a body, header rewriting, cryptography: data the
  properties do not look at.
- Management pages, event formatting, filters, exports, reports and version
  checks: they read once and format, and change no state that others read.
- Within modelled parts: FinaliseIdle, RecoverPartialTail and the rotation
  triggers (no caller), counters, permissions, row ids, retries of VACUUM INTO,
  the read-only commands and tools (list, show, doctor), provenance notes.
- `Enforcement` lets scanners and detector answer freely and matches hosts by
  identity, so its properties hold for whatever `BodyScan`, `Anomaly` and
  `Policy` would answer; the modules are not composed.

## Plan

Done: the log and its chain, the verifier, dynamic denies, the request paths,
the sinks, the database, both files of rules and their writers, disk pressure,
retention, the detector, and the pure functions of rules, scanners and
configuration; proofs of every safety property, of what the pure functions do
with every input, and of the refinement of `AuditSink`.

Next is the refinement without its hypothesis on foreign rows, which needs an
origin in the rows of an unchained log.

To model, if the code grows there: `LeafCache`, and the filter language of the
exports as operators.
