----------------------------- MODULE Retention -----------------------------
(***************************************************************************)
(* The rotated archives of the audit log after rotation                    *)
(* (internal/audit/retention.go; ArchiveLogs and PurgeLogsOlderThan of     *)
(* internal/audit/rotation.go, run by `gbounce logs archive` and `purge`): *)
(* ApplyRetention moves them from hot to warm to cold by their age, takes  *)
(* personal data out of them on the way, and removes them at the end;      *)
(* meanwhile one bundle is made of the directory, the operator purges, and *)
(* the log grows and rotates.  Time is counted in days.  A batch is what   *)
(* one archive holds, and keeps its number whatever tier it moves to.      *)
(***************************************************************************)
EXTENDS Integers

CONSTANTS
    PolicyDays,   \* days a policy may ask for
    MaxDay,       \* bound: days
    MaxBatches    \* bound: archives made

VARIABLES
    policy,     \* HotDays, WarmDays, ColdDays, PurgeAfterDays, GDPRPIIPurge
    day,
    files,      \* the archives: from <<tier, batch>> to [whole, scrubbed, at]
    batches,    \* archives rotated so far; the active log holds the next batch
    now,        \* the day ApplyRetention was called with
    todo,       \* names it has still to look at
    scrubbing,  \* the name being scrubbed, or none
    bundle,     \* of ArchiveLogs: its state, the names left, and what it holds
    born,       \* history: the day each batch was rotated
    purged,     \* history: batches the operator purged
    cut,        \* history: ApplyRetention died in a scrub
    applied     \* history: an ApplyRetention of this day is complete

retentionVars == <<policy, day, files, batches, now, todo, scrubbing, bundle,
                   born, purged, cut, applied>>

Tiers    == {"hot", "warm", "cold"}
Batch    == 1..MaxBatches
ArchiveNames == Tiers \X Batch
File     == [whole : BOOLEAN, scrubbed : BOOLEAN, at : 0..MaxDay]
NoName   == <<"none", 0>>
Active   == <<"active", 0>>
NoBundle == [st |-> "none", left |-> {}, listed |-> {}, live |-> 0, got |-> {}]

\* PolicyForFramework: what it accepts; -1 keeps archives for ever.
Policies ==
    {p \in [hot : PolicyDays, warm : PolicyDays, cold : PolicyDays,
            purge : PolicyDays \cup {-1}, gdpr : BOOLEAN] :
        /\ p.hot > 0 /\ p.warm >= p.hot /\ p.cold >= p.warm
        /\ p.purge >= 0 => p.purge >= p.cold}

RetentionTypeOK ==
    /\ policy \in Policies /\ day \in 0..MaxDay
    /\ DOMAIN files \subseteq ArchiveNames /\ \A n \in DOMAIN files : files[n] \in File
    /\ batches \in 0..MaxBatches
    /\ now \in 0..MaxDay /\ todo \subseteq ArchiveNames /\ scrubbing \in ArchiveNames \cup {NoName}
    /\ bundle.st \in {"none", "open", "done", "failed"}
    /\ born \in [Batch -> 0..MaxDay] /\ purged \subseteq Batch
    /\ cut \in BOOLEAN /\ applied \in BOOLEAN

RetentionInit ==
    /\ policy \in Policies /\ day = 0
    /\ files = [n \in {} |-> [whole |-> TRUE, scrubbed |-> FALSE, at |-> 0]]
    /\ batches = 0
    /\ now = 0 /\ todo = {} /\ scrubbing = NoName /\ bundle = NoBundle
    /\ born = [b \in Batch |-> 0] /\ purged = {} /\ cut = FALSE /\ applied = FALSE

-----------------------------------------------------------------------------
Without(fs, n) == [m \in DOMAIN fs \ {n} |-> fs[m]]
With(fs, n, f) == [m \in DOMAIN fs \cup {n} |-> IF m = n THEN f ELSE fs[m]]

\* ageDays is the age of the file, which a rename keeps and a scrub resets.
Age(n, at) == at - files[n].at

\* targetTier: cold before warm; a tier of no width is skipped.
targetTier(age) ==
    CASE age > policy.warm /\ policy.cold > policy.warm -> "cold"
      [] ~(age > policy.warm /\ policy.cold > policy.warm)
         /\ age > policy.hot /\ policy.warm > policy.hot -> "warm"
      [] OTHER -> "hot"

Moves == {<<"hot", "warm">>, <<"hot", "cold">>, <<"warm", "cold">>}

\* Mutant of Scrubs: an archive that goes straight to cold is renamed.
ScrubsWarmOnly(from, to) == policy.gdpr /\ from = "hot" /\ to = "warm"

\* transition, against the bare atomicRename of warm to cold.
Scrubs(from, to) == policy.gdpr /\ from = "hot"

Rank(n) == n[2] + MaxBatches * (CASE n[1] = "hot" -> 0 [] n[1] = "cold" -> 1 [] n[1] = "warm" -> 2)
First(ns) == CHOOSE n \in ns : \A m \in ns : Rank(n) <= Rank(m)

\* ApplyRetention reads the directory once and goes through the names in order.
ApplyBegins ==
    /\ todo = {} /\ scrubbing = NoName /\ ~applied /\ DOMAIN files # {}
    /\ todo' = DOMAIN files /\ now' = day
    /\ UNCHANGED <<policy, day, files, batches, scrubbing, bundle, born, purged, cut, applied>>

\* The loop's body, for a name that is still there: purge first, then the move.
\* A rename replaces what the target name held.
ApplyStep ==
    /\ todo # {} /\ scrubbing = NoName
    /\ LET n  == First(todo)
           to == targetTier(Age(n, now))
           gone   == n \notin DOMAIN files
           purge  == ~gone /\ policy.purge >= 0 /\ Age(n, now) >= policy.purge
           moves  == ~gone /\ ~purge /\ <<n[1], to>> \in Moves
           dst    == <<to, n[2]>>
           scrubs == moves /\ Scrubs(n[1], to) /\ files[n].whole
       IN /\ scrubbing' = IF scrubs THEN n ELSE NoName
          /\ files' = CASE purge  -> Without(files, n)
                        [] scrubs -> With(files, dst, [whole |-> FALSE, scrubbed |-> TRUE, at |-> day])
                        [] moves /\ ~Scrubs(n[1], to) -> With(Without(files, n), dst, files[n])
                        [] OTHER  -> files
          /\ todo' = todo \ {n}
          /\ applied' = IF todo' = {} /\ ~scrubs THEN now = day ELSE applied
    /\ UNCHANGED <<policy, day, batches, now, bundle, born, purged, cut>>

\* scrubArchivePII, its end: the copy is complete, and only then the source is
\* removed.  The source stays readable while it is open, purged or not.
ScrubEnds ==
    /\ scrubbing # NoName
    /\ LET to  == CHOOSE t \in {"warm", "cold"} : <<t, scrubbing[2]>> \in DOMAIN files
                                                  /\ ~files[<<t, scrubbing[2]>>].whole
           dst == <<to, scrubbing[2]>>
       IN files' = Without([files EXCEPT ![dst].whole = TRUE, ![dst].at = day], scrubbing)
    /\ scrubbing' = NoName
    /\ applied' = IF todo = {} THEN now = day ELSE applied
    /\ UNCHANGED <<policy, day, batches, now, todo, bundle, born, purged, cut>>

\* The process that applies the policy dies: a scrub leaves both files behind.
Dies ==
    /\ todo # {} \/ scrubbing # NoName
    /\ todo' = {} /\ scrubbing' = NoName
    /\ cut' = (cut \/ scrubbing # NoName)
    /\ UNCHANGED <<policy, day, files, batches, now, bundle, born, purged, applied>>

\* PurgeLogsOlderThan, from `logs purge`: hot names only, strictly older.
Purge ==
    \E days \in PolicyDays \ {0} :
        LET old == {n \in DOMAIN files : n[1] = "hot" /\ Age(n, day) > days} IN
        /\ old # {}
        /\ files' = [n \in DOMAIN files \ old |-> files[n]]
        /\ purged' = purged \cup {n[2] : n \in old}
        /\ UNCHANGED <<policy, day, batches, now, todo, scrubbing, bundle, born, cut, applied>>

-----------------------------------------------------------------------------
\* ArchiveLogs reads the directory once; warm- and cold- names are not audit
\* names to it.
BundleBegins ==
    /\ bundle.st = "none"
    /\ LET hot == {n \in DOMAIN files : n[1] = "hot"}
       IN bundle' = [st |-> "open", left |-> hot \cup {Active},
                     listed |-> {n[2] : n \in hot}, live |-> batches + 1, got |-> {}]
    /\ UNCHANGED <<policy, day, files, batches, now, todo, scrubbing, born, purged, cut, applied>>

\* addTarFile of an archive: gone under its name, the command fails.
BundleAdds ==
    /\ bundle.st = "open" /\ bundle.left # {Active} /\ bundle.left # {}
    /\ LET n == First(bundle.left \ {Active})
       IN bundle' = IF n \in DOMAIN files
                    THEN [bundle EXCEPT !.left = @ \ {n}, !.got = @ \cup {n[2]}]
                    ELSE [NoBundle EXCEPT !.st = "failed"]
    /\ UNCHANGED <<policy, day, files, batches, now, todo, scrubbing, born, purged, cut, applied>>

\* addTarFile of the active log, last: its header has the size it saw, and a row
\* written before the copy is done makes the copy too long.
BundleAddsActive ==
    /\ bundle.st = "open" /\ bundle.left = {Active}
    /\ \E grown \in BOOLEAN :
         bundle' = IF grown THEN [NoBundle EXCEPT !.st = "failed"]
                   ELSE [bundle EXCEPT !.st = "done", !.left = {}, !.got = @ \cup {batches + 1}]
    /\ UNCHANGED <<policy, day, files, batches, now, todo, scrubbing, born, purged, cut, applied>>

\* The log is rotated.
Rotates ==
    /\ batches < MaxBatches /\ batches' = batches + 1
    /\ files' = With(files, <<"hot", batches + 1>>, [whole |-> TRUE, scrubbed |-> FALSE, at |-> day])
    /\ born' = [born EXCEPT ![batches + 1] = day]
    /\ UNCHANGED <<policy, day, now, todo, scrubbing, bundle, purged, cut, applied>>

Day ==
    /\ day < MaxDay /\ day' = day + 1 /\ applied' = FALSE
    /\ UNCHANGED <<policy, files, batches, now, todo, scrubbing, bundle, born, purged, cut>>

RetentionNext ==
    \/ ApplyBegins \/ ApplyStep \/ ScrubEnds \/ Dies \/ Purge
    \/ BundleBegins \/ BundleAdds \/ BundleAddsActive \/ Rotates \/ Day

RetentionSpec == RetentionInit /\ [][RetentionNext]_retentionVars

-----------------------------------------------------------------------------
\* Properties.

\* Unless ApplyRetention died in a scrub, every batch that nobody purged and
\* whose time is not over is there whole, in one tier (in two while it is
\* scrubbed); a policy that removes personal data has no tier with it but hot.
KeptWholeAndScrubbed ==
    ~cut =>
    /\ \A b \in 1..batches :
          (b \notin purged /\ (policy.purge = -1 \/ day - born[b] < policy.purge)) =>
              /\ \E t \in Tiers : <<t, b>> \in DOMAIN files /\ files[<<t, b>>].whole
              /\ scrubbing[2] # b => \E t \in Tiers : {u \in Tiers : <<u, b>> \in DOMAIN files} = {t}
    /\ policy.gdpr => \A n \in DOMAIN files : n[1] # "hot" => files[n].scrubbed

\* When ApplyRetention is through, every archive it saw is in the tier of its
\* age in the log, where no scrub has made the file younger.
InTheTierOfItsAge ==
    applied /\ todo = {} /\ ~policy.gdpr =>
        \A n \in DOMAIN files : born[n[2]] < day => n[1] = targetTier(day - born[n[2]])

\* A bundle that is made without an error holds every archive that was listed,
\* and the rows of the active log unless they were rotated away meanwhile.
BundlesAreComplete ==
    bundle.st = "done" =>
        /\ bundle.listed \subseteq bundle.got
        /\ bundle.live \in bundle.got \/ bundle.live <= batches

RetentionHolds == KeptWholeAndScrubbed /\ InTheTierOfItsAge /\ BundlesAreComplete
=============================================================================
