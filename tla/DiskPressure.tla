---------------------------- MODULE DiskPressure ----------------------------
(***************************************************************************)
(* The disk-pressure circuit breaker (internal/audit/disk_pressure.go, and *)
(* the statfs it asks, internal/audit/rotation.go): a tick a minute that   *)
(* classifies the volume of the audit log, and, when it is critical, makes *)
(* the proxy refuse requests or drops the oldest archives.  Between two    *)
(* ticks requests are admitted on what the last one saw, their rows are    *)
(* written later, and other programs use the same volume.                  *)
(* Sizes are counted in rows; a percentage is compared without rounding.   *)
(***************************************************************************)
EXTENDS Integers, Sequences

CONSTANTS
    Volumes,                        \* sizes the volume may have
    WarnPct, CritPct, EmergencyPct, \* the thresholds of NewDiskPressureStateFull
    WarnFree, CritFree,             \* its floors on the free space
    MaxInFlight,                    \* requests at once
    MaxBurst,                       \* bound: rows between two ticks
    MaxArchives                     \* bound: archives made

VARIABLES
    setup,      \* the flags: mode, ignore (the check is off), mitm; and total
    other,      \* what other programs hold of the volume
    active,     \* rows in the active log
    archives,   \* the archives, oldest first: [id, size]
    status,     \* currentStatus
    refusing,   \* refuseRequests
    inflight,   \* requests admitted whose row is not written
    since,      \* rows since the last tick
    made,       \* archives made so far
    ticked,     \* history: how the last tick saw the volume: "no", "blind", "seen"
    disturbed,  \* history: statfs failed, another program took space, or the
                \* volume was critical from the start
    cut,        \* history: of the drop of the last tick, what it freed last, what it left
                \* used, and whether it left an archive
    lost        \* history: a row found no room

diskVars == <<setup, other, active, archives, status, refusing, inflight, since, made,
              ticked, disturbed, cut, lost>>

Modes    == {"pause-requests", "rotate-aggressively", "archive-and-purge"}
Statuses == {"ok", "ignored", "degraded", "critical", "emergency"}

Size(as) == LET size[n \in 0..Len(as)] == IF n = 0 THEN 0 ELSE size[n-1] + as[n].size
            IN size[Len(as)]

Used(as, rows) == other + rows + Size(as)

AtLeast(used, pct) == used * 100 >= pct * setup.total

NoDrop == [freed |-> 0, left |-> 0, more |-> FALSE]

DiskTypeOK ==
    /\ setup \in [mode : Modes, ignore : BOOLEAN, mitm : BOOLEAN, total : Volumes]
    /\ other \in Nat /\ active \in Nat
    /\ \A i \in DOMAIN archives : archives[i].id \in 1..made /\ archives[i].size > 0
    /\ Used(archives, active) <= setup.total
    /\ status \in Statuses /\ refusing \in BOOLEAN
    /\ inflight \in 0..MaxInFlight /\ since \in 0..MaxBurst /\ made \in 0..MaxArchives
    /\ ticked \in {"no", "blind", "seen"} /\ disturbed \in BOOLEAN /\ lost \in BOOLEAN

DiskInit ==
    /\ setup \in [mode : Modes, ignore : BOOLEAN, mitm : BOOLEAN, total : Volumes]
    /\ other \in 0..setup.total
    /\ active = 0 /\ archives = <<>>
    /\ status = "ok" /\ refusing = FALSE
    /\ inflight = 0 /\ since = 0 /\ made = 0
    /\ ticked = "no" /\ disturbed = FALSE /\ lost = FALSE
    /\ cut = NoDrop

-----------------------------------------------------------------------------
\* classifyDiskStatusFull: either the percentage or the floor.
classifyDiskStatusFull(used) ==
    LET free == setup.total - used
    IN CASE AtLeast(used, CritPct) -> "critical"
         [] ~AtLeast(used, CritPct) /\ free <= CritFree -> "critical"
         [] ~AtLeast(used, CritPct) /\ free > CritFree /\ (AtLeast(used, WarnPct) \/ free <= WarnFree) -> "degraded"
         [] OTHER -> "ok"

\* classifyDiskStatusWithEmergencyDP: of a volume that is not ok, the percentage
\* first, and what classifyDiskStatusFull found only below every threshold.
Classify(used) ==
    LET found == classifyDiskStatusFull(used)
    IN CASE found = "ok"                -> "ok"
         [] found # "ok" /\ AtLeast(used, EmergencyPct) -> "emergency"
         [] found # "ok" /\ ~AtLeast(used, EmergencyPct) /\ AtLeast(used, CritPct) -> "critical"
         [] found # "ok" /\ ~AtLeast(used, CritPct) /\ AtLeast(used, WarnPct) -> "degraded"
         [] OTHER -> found

\* Mutant of RefuseRequests: an emergency is not taken for critical.
RefuseWhenCritical(mode, st) == mode = "pause-requests" /\ st = "critical"

RefuseRequests(mode, st) == mode = "pause-requests" /\ st \in {"critical", "emergency"}

\* Mutant of dropOldestArchives: everything older than the newest goes.
DropAllButOne(as, rows) == IF Len(as) <= 1 THEN as ELSE <<as[Len(as)]>>

\* dropOldestArchivesDP: one after the other, until the percentage is below the
\* warning; statfs is asked before each, and a statfs that fails stops it too.
dropOldestArchives(as, rows) ==
    LET enough == {n \in 0..Len(as) :
                      ~AtLeast(Used(SubSeq(as, n + 1, Len(as)), rows), WarnPct)}
        n == IF enough = {} THEN Len(as) ELSE CHOOSE k \in enough : \A j \in enough : k <= j
    IN SubSeq(as, n + 1, Len(as))

\* EvaluateAndReact.  A transition is reported by a row of its own, through the
\* log writer; a failed statfs reads as degraded.
Tick(blind) ==
    /\ since' = 0
    /\ ticked' = IF blind /\ ~setup.ignore THEN "blind" ELSE "seen"
    /\ LET used   == Used(archives, active)
           next   == CASE setup.ignore -> "ignored"
                       [] ~setup.ignore /\ blind -> "degraded"
                       [] ~setup.ignore /\ ~blind -> Classify(used)
           report == ~setup.ignore /\ next # status
           rows   == active + (IF report /\ used < setup.total THEN 1 ELSE 0)
           drops  == next \in {"critical", "emergency"} /\ setup.mode # "pause-requests"
           rest   == IF drops THEN dropOldestArchives(archives, rows) ELSE archives
           gone   == Len(archives) - Len(rest)
       IN /\ status' = next
          /\ disturbed' = (disturbed \/ blind \/ (ticked = "no" /\ AtLeast(used, CritPct)))
          /\ refusing' = RefuseRequests(setup.mode, next)
          /\ active' = rows
          /\ archives' = rest
          /\ cut' = IF gone = 0 THEN NoDrop
                    ELSE [freed |-> archives[gone].size, left |-> Used(rest, rows),
                          more |-> rest # <<>>]
    /\ UNCHANGED <<setup, other, inflight, made, lost>>

\* handle: the breaker is asked before anything else; an admitted request's row
\* comes when it ends.
Admit ==
    /\ ~refusing /\ inflight < MaxInFlight /\ since + inflight < MaxBurst
    /\ inflight' = inflight + 1
    /\ UNCHANGED <<setup, other, active, archives, status, refusing, since, made,
                   ticked, disturbed, cut, lost>>

\* A row that finds no room is lost: the writer reports and goes on.
Row ==
    /\ IF Used(archives, active) < setup.total
       THEN active' = active + 1 /\ lost' = lost
       ELSE active' = active /\ lost' = (lost \/ ticked # "no")
    /\ UNCHANGED <<setup, other, archives, status, refusing, made, ticked, disturbed, cut>>

Finish == inflight > 0 /\ inflight' = inflight - 1 /\ since < MaxBurst /\ since' = since + 1 /\ Row

\* A request inside a decrypted connection does not pass handle again.
Inner == setup.mitm /\ since < MaxBurst /\ since' = since + 1 /\ inflight' = inflight /\ Row

\* What runs the rotation cuts the active log off; its size stays.
Cut ==
    /\ active > 0 /\ made < MaxArchives
    /\ made' = made + 1
    /\ archives' = Append(archives, [id |-> made + 1, size |-> active])
    /\ active' = 0
    /\ UNCHANGED <<setup, other, status, refusing, inflight, since, ticked, disturbed, cut, lost>>

\* Other programs, and the operator, who also takes archives away.
Others ==
    /\ \/ /\ Used(archives, active) < setup.total
          /\ other' = other + 1 /\ disturbed' = TRUE
       \/ other > 0 /\ other' = other - 1 /\ UNCHANGED disturbed
    /\ UNCHANGED <<setup, active, archives, status, refusing, inflight, since, made, ticked, cut, lost>>

DiskNext ==
    \/ \E blind \in BOOLEAN : Tick(blind)
    \/ Admit \/ Finish \/ Inner \/ Cut \/ Others

DiskSpec == DiskInit /\ [][DiskNext]_diskVars

-----------------------------------------------------------------------------
\* Properties.

\* Room between the critical percentage and a full volume for what may still be
\* written once a tick has seen less: the rows until the next tick, those of the
\* requests then in flight, and the reports of the transitions.
Headroom == \A u \in 0..setup.total :
                ~AtLeast(u, CritPct) => setup.total - u >= MaxBurst + MaxInFlight + 3

\* With the default mode, and as long as the log is all that grows, no row of a
\* request is lost: what was admitted before the pause still finds its room.
RowsFit ==
    setup.mode = "pause-requests" /\ ~setup.ignore /\ ~setup.mitm /\ ~disturbed /\ Headroom
        => ~lost

\* Archives go oldest first, only in the modes that say so, and as many of them
\* as it takes to come below the warning threshold, no more and no fewer.
DropsAreNeeded ==
    /\ \A i \in DOMAIN archives : archives[i].id = made - Len(archives) + i
    /\ setup.mode = "pause-requests" => Len(archives) = made
    /\ cut.freed > 0 => AtLeast(cut.left + cut.freed, WarnPct)
    /\ cut.more => ~AtLeast(cut.left, WarnPct)

DiskPressureIsHandled == RowsFit /\ DropsAreNeeded

\* disk_pressure.go:106-107, of the percentages and the floors: "Either
\* threshold hit triggers warn/crit."  (The report of the tick may have taken one
\* row of the space the tick saw.)
EitherThresholdTriggers ==
    /\ setup.mode = "pause-requests" /\ ~setup.ignore /\ ticked = "seen"
    /\ since = 0 /\ ~disturbed
    /\ setup.total - Used(archives, active) <= CritFree - 1
    => refusing
=============================================================================
