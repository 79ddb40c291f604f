--------------------------- MODULE AuditDirectory ---------------------------
(***************************************************************************)
(* The audit log directory between the writer that fills it and the        *)
(* verifier that reads it: the active file, the archives Rotate cuts off   *)
(* it (internal/audit/rotation.go), the purge of the oldest ones, the      *)
(* manifests, and what storage and hands may do to the lines in between.   *)
(* The writer is the undisturbed one of AuditLog: its rows form a chain.   *)
(***************************************************************************)
EXTENDS ChainVerify, FiniteSets

CONSTANTS
    DamageKinds,  \* what may happen to the files
    MaxRows,      \* bound: rows the writer appends
    MaxFiles,     \* bound: archives
    MaxDamage     \* bound: damages done

AllDamage == {"drop", "edit", "swap", "strip", "garble", "tail", "diverge"}

ASSUME DirectoryAssumption ==
    /\ DamageKinds \subseteq AllDamage
    /\ MaxRows \in Nat /\ MaxFiles \in Nat /\ MaxDamage \in Nat

VARIABLES
    archives,   \* the lines of each audit-*.jsonl.gz, in the order of names
    active,     \* the lines of the active file
    rotating,   \* the lines of <active>.rotating, a failed rotation's remains
    manifests,  \* the files under manifests/
    written,    \* history: every row the writer wrote, in order
    purged,     \* history: archives were purged
    stranded,   \* history: a rotation failed
    damage      \* history: the damages done, in order

vars == <<archives, active, rotating, manifests, written, purged, stranded, damage>>

TypeOK ==
    /\ archives \in Seq(Seq(Line)) /\ Len(archives) <= MaxFiles
    /\ active \in Seq(Line)
    /\ rotating \in Seq(Line)
    /\ manifests \subseteq Manifest
    /\ written \in Seq(Line)
    /\ purged \in BOOLEAN
    /\ stranded \in BOOLEAN
    /\ damage \in Seq(DamageKinds) /\ Len(damage) <= MaxDamage

Init ==
    /\ archives = <<>> /\ active = <<>> /\ rotating = <<>>
    /\ manifests = {} /\ written = <<>>
    /\ purged = FALSE /\ stranded = FALSE /\ damage = <<>>

\* chainSourceFiles: the archives in the order of their names, then the active
\* file (which the command's directory scope finds as audit.jsonl).
DirLines == FlattenSeq(archives) \o active

DirResult == Verify(DirLines)

\* VerifyIntegrity: every file parses, each by itself; a last line of the active
\* log without its newline is left out, and .rotating is not looked at.
VerifyIntegrity ==
    /\ \A a \in ToSet(archives) : \A line \in ToSet(a) : line.kind \notin {"torn", "garbled"}
    /\ \A line \in ToSet(active) : line.kind # "garbled"

\* The row the writer writes next, from the state it keeps in memory.
NextRow(ev) == StampedRow(TailDigest(written), Len(written), ev)

LogRow ==
    /\ Len(written) < MaxRows
    /\ active' = Append(active, NextRow(1))
    /\ written' = Append(written, NextRow(1))
    /\ UNCHANGED <<archives, rotating, manifests, purged, stranded, damage>>

\* Mutant of Checkpoint: a chain without rows is pinned too.
CheckpointAlways ==
    /\ \A m \in manifests : m.end < Len(written) - 1
    /\ manifests' = manifests \cup
         {[start |-> Cardinality({i \in 1..Len(written) :
                        \E m \in manifests : i - 1 <= m.end}),
           end |-> Len(written) - 1, head |-> TailDigest(written)]}
    /\ UNCHANGED <<archives, active, rotating, written, purged, stranded, damage>>

\* The signer pins the row just written; the ranges of manifests adjoin.
Checkpoint ==
    /\ written # <<>>
    /\ \A m \in manifests : m.end < Len(written) - 1
    /\ manifests' = manifests \cup
         {[start |-> Cardinality({i \in 1..Len(written) :
                        \E m \in manifests : i - 1 <= m.end}),
           end |-> Len(written) - 1, head |-> TailDigest(written)]}
    /\ UNCHANGED <<archives, active, rotating, written, purged, stranded, damage>>

\* Mutant of Rotate: the active file is copied, not moved.
RotateCopies ==
    /\ active # <<>> /\ Len(archives) < MaxFiles
    /\ archives' = Append(archives, active)
    /\ rotating' = <<>>
    /\ UNCHANGED <<active, manifests, written, purged, stranded, damage>>

\* Rotate: a leftover .rotating is removed, the active file takes its place,
\* is compressed under a name later than every archive's, and removed.
Rotate ==
    /\ active # <<>> /\ Len(archives) < MaxFiles
    /\ archives' = Append(archives, active)
    /\ active' = <<>> /\ rotating' = <<>>
    /\ UNCHANGED <<manifests, written, purged, stranded, damage>>

\* gzipFile fails before it has written (the archive's name, which has the
\* resolution of a second, is taken): the rows stay in .rotating.
RotateFails ==
    /\ active # <<>> /\ archives # <<>>
    /\ rotating' = active /\ active' = <<>>
    /\ stranded' = TRUE
    /\ UNCHANGED <<archives, manifests, written, purged, damage>>

\* PurgeLogsOlderThan: every archive older than the cutoff is removed.
Purge ==
    \E n \in 1..Len(archives) :
        /\ archives' = SubSeq(archives, n + 1, Len(archives))
        /\ purged' = TRUE
        /\ UNCHANGED <<active, rotating, manifests, written, stranded, damage>>

-----------------------------------------------------------------------------
\* What may happen to a file outside the program.

RemoveLine(s, i) == SubSeq(s, 1, i - 1) \o SubSeq(s, i + 1, Len(s))
SwapLines(s, i)  == [s EXCEPT ![i] = s[i+1], ![i+1] = s[i]]

\* A copy of the log in which the row after the first n is another one.
Diverged(s, n) ==
    LET last == s[n + 1] IN Append(SubSeq(s, 1, n), StampedRow(last.prev, last.seq, 2))

Damages(s) ==
    {<<"drop", RemoveLine(s, i)>> : i \in 1..Len(s)}
    \cup {<<"edit", [s EXCEPT ![i].ev = 2]>> : i \in 1..Len(s)}
    \cup {<<"swap", SwapLines(s, i)>> : i \in 1..Len(s) - 1}
    \cup {<<"strip", [s EXCEPT ![i] = BareRow(1)]>> : i \in 1..Len(s)}
    \cup {<<"garble", [s EXCEPT ![i] = Garbled(1)]>> : i \in 1..Len(s)}
    \cup {<<"tail", SubSeq(s, 1, n)>> : n \in 0..Len(s) - 1}
    \cup {<<"diverge", Diverged(s, n)>> :
            n \in {k \in 0..Len(s) - 1 : s[k + 1].kind = "row"}}

\* An archive or the active file is changed.
Damage ==
    /\ Len(damage) < MaxDamage
    /\ \E kind \in DamageKinds :
         /\ damage' = Append(damage, kind)
         /\ \/ \E d \in Damages(active) :
                   d[1] = kind /\ active' = d[2] /\ UNCHANGED archives
            \/ \E i \in 1..Len(archives) : \E d \in Damages(archives[i]) :
                   /\ d[1] = kind
                   /\ archives' = [archives EXCEPT ![i] = d[2]]
                   /\ UNCHANGED active
    /\ UNCHANGED <<rotating, manifests, written, purged, stranded>>

Next == LogRow \/ Checkpoint \/ Rotate \/ RotateFails \/ Purge \/ Damage

Spec == Init /\ [][Next]_vars

-----------------------------------------------------------------------------
\* Properties.

\* No false alarm: whatever was rotated and whichever rows were pinned, a
\* directory nothing happened to verifies clean, manifests included; purging
\* the oldest archives costs the findings of one line, the oldest one left, so
\* that later damage is still told from it; and `logs verify` never reports a
\* file of a chain that `logs verify-chain` finds whole.
NoFalseAlarm ==
    /\ damage = <<>> /\ ~purged /\ ~stranded => FullOK(DirLines, manifests)
    /\ damage = <<>> /\ ~stranded =>
          \A f \in DirResult.found : f[1] = 1 /\ f[2] # "hash mismatch"
    /\ damage = <<>> \/ ChainOK(DirResult) => VerifyIntegrity

\* The first finding is at the first line where the file departs from a chain:
\* the running state of the walk stands for the whole history it has passed, and
\* it accepts exactly the files that are one chain from genesis.
FirstFindingLocates ==
    \A n \in 1..Len(DirLines) :
        (\E f \in DirResult.found : f[1] <= n) <=> ~Linked(SubSeq(DirLines, 1, n))

\* A directory that verifies clean holds a prefix of what was written, unless
\* it is a copy that diverged from it.
CleanIsPrefix ==
    ChainOK(DirResult) /\ "diverge" \notin ToSet(damage) => IsPrefix(DirLines, written)

\* While a row is left, a clean verification with manifests shows that every
\* row a manifest covers is there; and when a manifest pins the head, that they
\* are the very rows that were written, even against a copy that diverged.
PinnedRowsPresent ==
    FullOK(DirLines, manifests) /\ DirLines # <<>> =>
        /\ \A m \in manifests : Len(DirLines) > m.end
        /\ (\E m \in manifests : m.end = DirResult.headSeq) => IsPrefix(DirLines, written)

\* What a clean verification is worth.
CleanMeansWritten == CleanIsPrefix /\ PinnedRowsPresent

\* Claimed by the comment on VerifyChainAndManifests: rows lopped off the end
\* that a manifest covers are caught.
TailTruncationCaught ==
    FullOK(DirLines, manifests) =>
        \A m \in manifests : Len(DirLines) > m.end
=============================================================================
