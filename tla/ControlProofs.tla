--------------------------- MODULE ControlProofs ---------------------------
(***************************************************************************)
(* Proofs about the parts MCControl composes, as parts of the composition: *)
(* the commands that write profiles.yaml, the dynamic-denies file, its     *)
(* watcher and the MCP servers that write it, and what DiskPressureProofs  *)
(* and AnomalyProofs show of their components.                             *)
(***************************************************************************)
EXTENDS MCControl, TLAPS

DiskP  == INSTANCE DiskPressureProofs WITH
             MaxInFlight <- MaxAdmitted, inflight <- admitted, disturbed <- meddled
DetP   == INSTANCE AnomalyProofs WITH MaxInFlight <- MaxDeciding, inflight <- deciding

-----------------------------------------------------------------------------
\* The parts of the composition.

\* A step of the composition is a step of each part, or leaves the part alone.
LEMMA PartsStep ==
    ASSUME [ControlNext]_allVars
    PROVE  /\ [Next]_vars
           /\ [Store!Next]_storeVars
           /\ [Mcp!McpNext]_mcpVars
           /\ [Disk!DiskNext]_diskVars
           /\ [Detector!AnomalyNext]_detectorVars
  BY DEF ControlNext, allVars

\* The two instances of the disk-pressure breaker have the same steps and
\* properties.
LEMMA SameDisk ==
    /\ Disk!DiskInit <=> DiskP!DiskInit
    /\ [Disk!DiskNext]_diskVars <=> [DiskP!DiskNext]_DiskP!diskVars
    /\ Disk!DiskPressureIsHandled <=> DiskP!DiskPressureIsHandled
    /\ Disk!DiskTypeOK <=> DiskP!DiskTypeOK
<1>1. \A ar, rows : Disk!Used(ar, rows) = DiskP!Used(ar, rows)
  BY DEF Disk!Used, DiskP!Used, Disk!Size, DiskP!Size
<1>2. \A u, p : Disk!AtLeast(u, p) <=> DiskP!AtLeast(u, p)
  BY DEF Disk!AtLeast, DiskP!AtLeast
<1>3. \A u : Disk!Classify(u) = DiskP!Classify(u)
  BY <1>2 DEF Disk!Classify, DiskP!Classify, Disk!classifyDiskStatusFull,
     DiskP!classifyDiskStatusFull
<1>4. \A ar, rows : Disk!dropOldestArchives(ar, rows) = DiskP!dropOldestArchives(ar, rows)
  BY DEF Disk!dropOldestArchives, DiskP!dropOldestArchives, Disk!AtLeast, DiskP!AtLeast,
     Disk!Used, DiskP!Used, Disk!Size, DiskP!Size
<1>5. Disk!DiskInit <=> DiskP!DiskInit
  BY DEF Disk!DiskInit, DiskP!DiskInit, Disk!Modes, DiskP!Modes, Disk!NoDrop, DiskP!NoDrop
<1>6. \A blind : Disk!Tick(blind) <=> DiskP!Tick(blind)
  <2> SUFFICES ASSUME NEW blind PROVE Disk!Tick(blind) <=> DiskP!Tick(blind)
    OBVIOUS
  <2> DEFINE Next1(found) == CASE setup.ignore -> "ignored"
                               [] ~setup.ignore /\ blind -> "degraded"
                               [] ~setup.ignore /\ ~blind -> found
             Rows(used, next) == active + (IF ~setup.ignore /\ next # status /\ used < setup.total
                                           THEN 1 ELSE 0)
             Rest(next, left) == IF next \in {"critical", "emergency"}
                                    /\ setup.mode # "pause-requests" THEN left ELSE archives
             used == Disk!Used(archives, active)
             next == Next1(Disk!Classify(used))
             rows == Rows(used, next)
             rest == Rest(next, Disk!dropOldestArchives(archives, rows))
             usedP == DiskP!Used(archives, active)
             nextP == Next1(DiskP!Classify(usedP))
             rowsP == Rows(usedP, nextP)
             restP == Rest(nextP, DiskP!dropOldestArchives(archives, rowsP))
             Reacts(nx, rw, rst, left, crit) ==
                /\ since' = 0
                /\ ticked' = IF blind /\ ~setup.ignore THEN "blind" ELSE "seen"
                /\ status' = nx
                /\ meddled' = (meddled \/ blind \/ (ticked = "no" /\ crit))
                /\ refusing' = (setup.mode = "pause-requests" /\ nx \in {"critical", "emergency"})
                /\ active' = rw
                /\ archives' = rst
                /\ cut' = IF Len(archives) - Len(rst) = 0
                          THEN [freed |-> 0, left |-> 0, more |-> FALSE]
                          ELSE [freed |-> archives[Len(archives) - Len(rst)].size, left |-> left,
                                more |-> rst # <<>>]
                /\ UNCHANGED <<setup, other, admitted, made, lost>>
  <2>1. Disk!Tick(blind) <=>
           Reacts(next, rows, rest, Disk!Used(rest, rows), Disk!AtLeast(used, CritPct))
    BY DEF Disk!Tick, Disk!RefuseRequests, Disk!NoDrop
  <2>2. DiskP!Tick(blind) <=>
           Reacts(nextP, rowsP, restP, DiskP!Used(restP, rowsP), DiskP!AtLeast(usedP, CritPct))
    BY DEF DiskP!Tick, DiskP!RefuseRequests, DiskP!NoDrop
  <2>3. used = usedP
    BY <1>1
  <2>4. next = nextP
    BY <1>3, <2>3
  <2>5. rows = rowsP
    <3> HIDE DEF used, usedP, next, nextP
    <3> QED
      BY <2>3, <2>4
  <2>6. rest = restP
    <3> HIDE DEF next, nextP, rows, rowsP
    <3> QED
      BY <1>4, <2>4, <2>5
  <2> HIDE DEF used, next, rows, rest, usedP, nextP, rowsP, restP, Reacts
  <2>7. /\ Disk!Used(rest, rows) = DiskP!Used(restP, rowsP)
        /\ Disk!AtLeast(used, CritPct) <=> DiskP!AtLeast(usedP, CritPct)
    BY <1>1, <1>2, <2>3, <2>5, <2>6
  <2> QED
    BY <2>1, <2>2, <2>4, <2>5, <2>6, <2>7 DEF Reacts
<1>7. Disk!Row <=> DiskP!Row
  BY <1>1 DEF Disk!Row, DiskP!Row
<1>8. Disk!DiskNext <=> DiskP!DiskNext
  BY <1>1, <1>6, <1>7
     DEF Disk!DiskNext, DiskP!DiskNext, Disk!Admit, DiskP!Admit, Disk!Finish, DiskP!Finish,
         Disk!Inner, DiskP!Inner, Disk!Cut, DiskP!Cut, Disk!Others, DiskP!Others
<1>9. Disk!DiskPressureIsHandled <=> DiskP!DiskPressureIsHandled
  BY <1>2 DEF Disk!DiskPressureIsHandled, DiskP!DiskPressureIsHandled, Disk!RowsFit,
     DiskP!RowsFit, Disk!Headroom, DiskP!Headroom, Disk!DropsAreNeeded, DiskP!DropsAreNeeded
<1>10. Disk!DiskTypeOK <=> DiskP!DiskTypeOK
  BY <1>1 DEF Disk!DiskTypeOK, DiskP!DiskTypeOK, Disk!Modes, DiskP!Modes, Disk!Statuses,
     DiskP!Statuses
<1> QED
  BY <1>5, <1>8, <1>9, <1>10 DEF diskVars, DiskP!diskVars

\* And the two instances of the anomaly detector.
LEMMA SameDetector ==
    /\ Detector!AnomalyInit <=> DetP!AnomalyInit
    /\ [Detector!AnomalyNext]_detectorVars <=> [DetP!AnomalyNext]_DetP!anomalyVars
    /\ Detector!AnomalyIsBounded <=> DetP!AnomalyIsBounded
    /\ Detector!AnomalyTypeOK <=> DetP!AnomalyTypeOK
<1> USE DEF Detector!Hours, DetP!Hours, Detector!Nothing, DetP!Nothing, Detector!Tracked,
        DetP!Tracked
<1>1. \A S : Detector!Cardinality(S) = DetP!Cardinality(S) /\ Detector!Max(S) = DetP!Max(S)
  BY DEF Detector!Cardinality, DetP!Cardinality, Detector!Max, DetP!Max
<1>2. \A obs, from : Detector!Total(obs, from) = DetP!Total(obs, from)
  BY DEF Detector!Total, DetP!Total
<1>3. \A n : Detector!Weight(n) = DetP!Weight(n)
  BY DEF Detector!Weight, DetP!Weight, Detector!FoldSet, DetP!FoldSet, Detector!MapThenFoldSet,
     DetP!MapThenFoldSet
<1>4. \A k : Detector!Observations(k) = DetP!Observations(k)
  BY DEF Detector!Observations, DetP!Observations
<1>5. \A k, decayed : Detector!Summary(k, decayed) = DetP!Summary(k, decayed)
  BY <1>2, <1>3, <1>4 DEF Detector!Summary, DetP!Summary
<1>6. \A s, rate : Detector!FrequencyDeviates(s, rate) <=> DetP!FrequencyDeviates(s, rate)
  BY DEF Detector!FrequencyDeviates, DetP!FrequencyDeviates
<1>7. \A s : Detector!HourDeviates(s) <=> DetP!HourDeviates(s)
  BY DEF Detector!HourDeviates, DetP!HourDeviates
<1>8. \A k, rate : Detector!ScoreAnomaly(k, rate) = DetP!ScoreAnomaly(k, rate)
  BY <1>2, <1>4, <1>5, <1>6, <1>7 DEF Detector!ScoreAnomaly, DetP!ScoreAnomaly
<1>9. \A k : Detector!RecentRate(k) = DetP!RecentRate(k)
  BY <1>2, <1>4 DEF Detector!RecentRate, DetP!RecentRate
<1>10. \A k : Detector!Allowed(k) = DetP!Allowed(k)
  BY <1>1, <1>5, <1>6 DEF Detector!Allowed, DetP!Allowed
<1>11. Detector!Victim = DetP!Victim
  BY DEF Detector!Victim, DetP!Victim
<1>12. \A k : Detector!Observe(k) <=> DetP!Observe(k)
  <2> SUFFICES ASSUME NEW k PROVE Detector!Observe(k) <=> DetP!Observe(k)
    OBVIOUS
  <2> DEFINE Does(size, victim, before, nothing) ==
               LET full == k \notin DOMAIN rolling /\ size >= MaxKeys
                   kept == IF full THEN DOMAIN rolling \ {victim} ELSE DOMAIN rolling
                   obs  == [before EXCEPT ![clock] = @ + 1]
                   fresh == [t \in 0..MaxClock |-> IF t >= clock - Window THEN obs[t] ELSE 0]
                   past(f) == IF full THEN [f EXCEPT ![victim] = nothing] ELSE f
               IN /\ rolling' = [j \in kept \cup {k} |-> IF j = k THEN fresh ELSE rolling[j]]
                  /\ lastSeen' = [j \in kept \cup {k} |-> IF j = k THEN clock ELSE lastSeen[j]]
                  /\ seen' = [past(seen) EXCEPT ![k][clock] = @ + 1]
                  /\ warm' = past(warm)
                  /\ seenAt' = [seenAt EXCEPT ![k] = clock]
  <2>1. Detector!Observe(k) <=> Does(Detector!Cardinality(DOMAIN rolling), Detector!Victim,
                                     Detector!Observations(k), Detector!Nothing)
    BY DEF Detector!Observe
  <2>2. DetP!Observe(k) <=> Does(DetP!Cardinality(DOMAIN rolling), DetP!Victim,
                                 DetP!Observations(k), DetP!Nothing)
    BY DEF DetP!Observe
  <2> HIDE DEF Does
  <2>3. /\ Detector!Cardinality(DOMAIN rolling) = DetP!Cardinality(DOMAIN rolling)
        /\ Detector!Observations(k) = DetP!Observations(k) /\ Detector!Nothing = DetP!Nothing
    BY <1>1, <1>4
  <2> QED
    BY <1>11, <2>1, <2>2, <2>3
<1>13. \A k : Detector!Decide(k) <=> DetP!Decide(k)
  BY <1>1, <1>2, <1>8, <1>9, <1>10, <1>12 DEF Detector!Decide, DetP!Decide
<1>14. Detector!AnomalyNext <=> DetP!AnomalyNext
  BY <1>12, <1>13 DEF Detector!AnomalyNext, DetP!AnomalyNext, Detector!Finish, DetP!Finish,
     Detector!RuleDenies, DetP!RuleDenies, Detector!Hour, DetP!Hour
<1>15. Detector!AnomalyInit <=> DetP!AnomalyInit
  BY DEF Detector!AnomalyInit, DetP!AnomalyInit
<1>16. Detector!AnomalyIsBounded <=> DetP!AnomalyIsBounded
  BY <1>1 DEF Detector!AnomalyIsBounded, DetP!AnomalyIsBounded, Detector!BaselineIsTheWindow,
     DetP!BaselineIsTheWindow, Detector!BurstsAreBounded, DetP!BurstsAreBounded
<1>17. Detector!AnomalyTypeOK <=> DetP!AnomalyTypeOK
  BY DEF Detector!AnomalyTypeOK, DetP!AnomalyTypeOK
<1> QED
  BY <1>14, <1>15, <1>16, <1>17 DEF detectorVars, DetP!anomalyVars

-----------------------------------------------------------------------------
\* The commands that write profiles.yaml.

\* A profile as it may stand in the file.
AnyProfile ==
    [source : Nat, rules : SUBSET [by : {"cli", "mcp"}, cmd : Nat, valid : BOOLEAN]]

Genuine(p) ==
    /\ p \in AnyProfile
    /\ p.source # Store!Local => p.rules = {}
    /\ ~selfGrant => \A r \in p.rules : r.by = "cli"

\* What a writer carries from its reads to its rename.
Installing(c) ==
    c \in [at : {"check", "merge"}, names : SUBSET Names, force : BOOLEAN, id : Nat \ {0}]

CarriesGenuine(c) ==
    /\ c.at \in {"check", "merge"} => Installing(c)
    /\ c.at = "upsert" => Genuine(c.p) /\ c.p.source = Store!Local
    /\ c.at = "rename" => \A n \in DOMAIN c.all : Genuine(c.all[n])

(***************************************************************************)
(* Why no interleaving makes a profile that is not genuine: what is not    *)
(* genuine would have to be in some writer's copy first, and every copy is *)
(* made from a genuine file by one of two steps that keep it so.           *)
(***************************************************************************)
StoreInv ==
    /\ profiles = Store!Yaml(profiles.parses, profiles.all)
    /\ writer = [w \in Writers |-> writer[w]]
    /\ commands \in Nat
    /\ \A n \in DOMAIN profiles.all : Genuine(profiles.all[n])
    /\ \A w \in Writers : CarriesGenuine(writer[w])
    /\ queue = [c \in Store!Commands |-> queue[c]]
    /\ \A c \in Store!Commands : queue[c] \in {0, 1} /\ (c > commands => queue[c] = 0)

\* What the documents an install accepts may name.
LEMMA InstallableNames == Store!Installable \subseteq SUBSET Names
  BY DEF Store!Installable, Store!Payload, Store!Documents

\* A rule a request asks for parses, or does not.
LEMMA AskedRulesType == Store!AskedRules \subseteq BOOLEAN
<1> SUFFICES ASSUME NEW valid \in Store!AskedRules PROVE valid \in BOOLEAN
  OBVIOUS
<1>1. PICK q \in {q \in Store!Requests : Store!Asked(q)} : valid = (q.target = "host")
  BY Zenon DEF Store!AskedRules
<1> QED
  BY <1>1, Zenon

\* The two profiles a command may put into its copy.
LEMMA NewProfilesGenuine ==
    ASSUME NEW id \in Nat \ {0}
    PROVE  Genuine([source |-> id, rules |-> {}])
  BY DEF Genuine, AnyProfile, Store!Local

\* A local profile stays genuine with a rule that needs no approval.
LEMMA AllowedProfileGenuine ==
    ASSUME NEW p, Genuine(p), p.source = Store!Local, NEW by \in {"cli", "mcp"}, ~Store!Queued(by),
           NEW cmd \in Nat, NEW valid \in BOOLEAN
    PROVE  LET rule == [by |-> by, cmd |-> cmd, valid |-> valid]
           IN  /\ Genuine([p EXCEPT !.rules = @ \cup {rule}])
               /\ [p EXCEPT !.rules = @ \cup {rule}].source = Store!Local
  BY DEF Genuine, AnyProfile, Store!Queued, Store!Local

\* Merging a genuine profile into genuine profiles.
LEMMA MergedGenuine ==
    ASSUME NEW all, NEW names, NEW p, Genuine(p), \A n \in DOMAIN all : Genuine(all[n])
    PROVE  \A n \in DOMAIN Store!Merged(all, names, p) : Genuine(Store!Merged(all, names, p)[n])
  BY DEF Store!Merged

\* selfGrant is fixed while the system runs, and with it what is genuine.
LEMMA GenuineStays ==
    ASSUME [Store!Next]_storeVars
    PROVE  /\ selfGrant' = selfGrant
           /\ \A p : Genuine(p)' <=> Genuine(p)
           /\ \A c : CarriesGenuine(c)' <=> CarriesGenuine(c)
<1>1. selfGrant' = selfGrant
  BY DEF Store!Next, storeVars, Store!Install, Store!InstallCheck, Store!InstallMerge,
     Store!ProfileAllowCommand, Store!toolProfileAllow,
     Store!Allow, Store!AllowUpsert, Store!Rename, Store!Kill, Store!Edit, Store!Files
<1>2. \A p : Genuine(p)' <=> Genuine(p)
  BY <1>1 DEF Genuine
<1> QED
  BY <1>1, <1>2 DEF CarriesGenuine, Installing

\* One writer moves, the others keep what they carry.
LEMMA GoesGenuine ==
    ASSUME StoreInv, NEW w \in Writers, NEW c, Store!Goes(w, c), CarriesGenuine(c)
    PROVE  /\ writer' = [v \in Writers |-> writer'[v]]
           /\ \A v \in Writers : CarriesGenuine(writer'[v])
  BY DEF StoreInv, Store!Goes

\* A writer that does nothing holds no copy.
LEMMA IdleGenuine == CarriesGenuine(Store!Idle)
  BY DEF Store!Idle, CarriesGenuine

\* Every copy of the file is of genuine profiles, throughout.
LEMMA StoreInvInductive ==
    /\ Store!Init => StoreInv
    /\ StoreInv /\ [Store!Next]_storeVars => StoreInv'
<1>1. Store!Init => StoreInv
  <2> SUFFICES ASSUME Store!Init PROVE StoreInv
    OBVIOUS
  <2>1. PICK have \in SUBSET Names :
            profiles = Store!Yaml(TRUE, [n \in have |-> [source |-> Store!Local, rules |-> {}]])
    BY DEF Store!Init
  <2>2. /\ profiles.parses = TRUE
        /\ profiles.all = [n \in have |-> [source |-> Store!Local, rules |-> {}]]
    BY <2>1 DEF Store!Yaml
  <2>3. \A n \in DOMAIN profiles.all : Genuine(profiles.all[n])
    BY <2>2 DEF Genuine, AnyProfile, Store!Local
  <2> QED
    BY <2>1, <2>2, <2>3, IdleGenuine DEF Store!Init, StoreInv
<1>2. StoreInv /\ [Store!Next]_storeVars => StoreInv'
  <2> SUFFICES ASSUME StoreInv, [Store!Next]_storeVars PROVE StoreInv'
    OBVIOUS
  <2> DEFINE FilesOK   == /\ profiles' = Store!Yaml(profiles'.parses, profiles'.all)
                          /\ \A n \in DOMAIN profiles'.all : Genuine(profiles'.all[n])
             WritersOK == /\ writer' = [w \in Writers |-> writer'[w]]
                          /\ \A w \in Writers : CarriesGenuine(writer'[w])
             QueueOK   == /\ commands' \in Nat
                          /\ queue' = [c \in Store!Commands |-> queue'[c]]
                          /\ \A c \in Store!Commands :
                                queue'[c] \in {0, 1} /\ (c > commands' => queue'[c] = 0)
  <2>1. FilesOK /\ WritersOK /\ QueueOK => StoreInv'
    BY GenuineStays DEF StoreInv
  <2>2. UNCHANGED profiles => FilesOK
    BY DEF StoreInv
  <2>3. UNCHANGED <<queue, commands>> => QueueOK
    BY DEF StoreInv
  <2>4. UNCHANGED queue /\ commands' = commands + 1 => QueueOK
    BY DEF StoreInv, Store!Commands
  <2>5. \A w \in Writers : \A c : Store!Goes(w, c) /\ CarriesGenuine(c) => WritersOK
    BY GoesGenuine
  <2> HIDE DEF FilesOK, WritersOK, QueueOK
  <2>6. CASE UNCHANGED storeVars
    <3>1. WritersOK
      BY <2>6 DEF StoreInv, WritersOK, storeVars
    <3> QED
      BY <2>1, <2>2, <2>3, <2>6, <3>1 DEF storeVars
  <2>7. CASE Store!Edit
    <3>1. WritersOK
      BY <2>7 DEF StoreInv, WritersOK, Store!Edit
    <3>2. FilesOK
      <4>1. profiles'.all = profiles.all /\ profiles' = [profiles EXCEPT !.parses = ~@]
        BY <2>7 DEF StoreInv, Store!Yaml, Store!Edit
      <4> QED
        BY <4>1 DEF StoreInv, Store!Yaml, FilesOK
    <3> QED
      BY <2>1, <2>3, <2>7, <3>1, <3>2 DEF Store!Edit
  <2> SUFFICES ASSUME NEW w \in Writers,
                      \/ Store!Install(w) \/ Store!InstallCheck(w) \/ Store!InstallMerge(w)
                      \/ Store!ProfileAllowCommand(w) \/ Store!toolProfileAllow(w)
                      \/ Store!AllowUpsert(w)
                      \/ Store!Rename(w) \/ Store!Kill(w)
               PROVE  StoreInv'
    BY <2>6, <2>7 DEF Store!Next
  <2>8. CarriesGenuine(writer[w])
    BY DEF StoreInv
  <2>9. CASE Store!Install(w)
    <3>1. PICK names \in Store!Installable, force \in BOOLEAN :
              Store!Goes(w, [at |-> "check", names |-> names, force |-> force, id |-> commands'])
      BY <2>9 DEF Store!Install
    <3>2. commands' \in Nat \ {0} /\ commands' = commands + 1
      BY <2>9 DEF Store!Install, Store!Begin, StoreInv
    <3>3. CarriesGenuine([at |-> "check", names |-> names, force |-> force, id |-> commands'])
      BY <3>2, InstallableNames DEF CarriesGenuine, Installing
    <3> QED
      BY <2>1, <2>2, <2>4, <2>5, <2>9, <3>1, <3>2, <3>3 DEF Store!Install, Store!Files
  <2>10. CASE Store!InstallCheck(w)
    <3>1. CarriesGenuine([writer[w] EXCEPT !.at = "merge"])
      BY <2>8, <2>10 DEF Store!InstallCheck, CarriesGenuine, Installing
    <3> QED
      BY <2>1, <2>2, <2>3, <2>5, <2>10, <3>1, IdleGenuine DEF Store!InstallCheck, Store!Files
  <2>11. CASE Store!InstallMerge(w)
    <3> DEFINE c == writer[w]
               all == Store!Merged(profiles.all, c.names, [source |-> c.id, rules |-> {}])
    <3>1. c.id \in Nat \ {0}
      BY <2>8, <2>11 DEF Store!InstallMerge, CarriesGenuine, Installing
    <3>2. \A n \in DOMAIN all : Genuine(all[n])
      BY <3>1, NewProfilesGenuine, MergedGenuine DEF StoreInv
    <3>3. CarriesGenuine([at |-> "rename", names |-> c.names, id |-> c.id, rule |-> {},
                          all |-> all])
      BY <3>2 DEF CarriesGenuine
    <3> QED
      BY <2>1, <2>2, <2>3, <2>5, <2>11, <3>3, IdleGenuine DEF Store!InstallMerge, Store!Files
  <2>12. ASSUME NEW by \in {"cli", "mcp"}, Store!Allow(w, by) PROVE StoreInv'
    <3>1. PICK n \in Names, valid \in Store!AskedRules :
             LET rule == [by |-> by, cmd |-> commands', valid |-> valid]
                 ok == /\ Store!LoadProfiles(profiles) /\ n \in DOMAIN profiles.all
                       /\ Store!IsLocalSource(profiles.all[n])
             IN /\ Store!Goes(w, IF ok /\ ~Store!Queued(by)
                           THEN [at |-> "upsert", name |-> n, rule |-> {rule},
                                 p |-> [profiles.all[n] EXCEPT !.rules = @ \cup {rule}]]
                           ELSE Store!Idle)
                /\ queue' = IF ok /\ Store!Queued(by)
                              THEN [queue EXCEPT ![commands'] = @ + 1] ELSE queue
      BY <2>12 DEF Store!Allow
    <3>2. /\ commands' \in Nat /\ commands' = commands + 1 /\ commands \in Nat
          /\ valid \in BOOLEAN
      BY <2>12, AskedRulesType DEF Store!Allow, Store!Begin, StoreInv
    <3> DEFINE rule == [by |-> by, cmd |-> commands', valid |-> valid]
               p == [profiles.all[n] EXCEPT !.rules = @ \cup {rule}]
    <3>3. ASSUME n \in DOMAIN profiles.all, Store!IsLocalSource(profiles.all[n]), ~Store!Queued(by)
          PROVE  CarriesGenuine([at |-> "upsert", name |-> n, rule |-> {rule}, p |-> p])
      <4>1. Genuine(profiles.all[n]) /\ profiles.all[n].source = Store!Local
        BY <3>3 DEF StoreInv, Store!IsLocalSource
      <4>2. Genuine(p) /\ p.source = Store!Local
        BY <3>2, <3>3, <4>1, AllowedProfileGenuine
      <4> HIDE DEF p, rule
      <4> QED
        BY <4>2 DEF CarriesGenuine
    <3>4. QueueOK
      <4>1. CASE queue' = queue
        BY <2>4, <3>2, <4>1
      <4>2. CASE queue' = [queue EXCEPT ![commands'] = @ + 1]
        <5>1. \A c \in Store!Commands : c \in Int /\ (c > commands => queue[c] = 0)
          BY DEF StoreInv, Store!Commands
        <5>2. \A c \in Store!Commands :
                 queue'[c] = queue[c] \/ (c = commands' /\ queue'[c] = queue[c] + 1)
          BY <4>2 DEF StoreInv
        <5>3. \A c \in Store!Commands : queue'[c] \in {0, 1} /\ (c > commands' => queue'[c] = 0)
          BY <3>2, <5>1, <5>2 DEF StoreInv
        <5>4. queue' = [c \in Store!Commands |-> queue'[c]]
          BY <4>2 DEF StoreInv
        <5> QED
          BY <3>2, <5>3, <5>4 DEF QueueOK
      <4> QED
        BY <3>1, <4>1, <4>2
    <3>5. WritersOK
      BY <2>5, <3>1, <3>3, IdleGenuine
    <3> QED
      BY <2>1, <2>2, <2>12, <3>4, <3>5 DEF Store!Allow
  <2>13. CASE Store!AllowUpsert(w)
    <3> DEFINE c == writer[w]
               all == Store!Merged(profiles.all, {c.name}, c.p)
    <3>1. \A n \in DOMAIN all : Genuine(all[n])
      BY <2>8, <2>13, MergedGenuine DEF Store!AllowUpsert, CarriesGenuine, StoreInv
    <3>2. CarriesGenuine([at |-> "rename", names |-> {c.name}, id |-> Store!Local, rule |-> c.rule,
                          all |-> all])
      BY <3>1 DEF CarriesGenuine
    <3> QED
      BY <2>1, <2>2, <2>3, <2>5, <2>13, <3>2, IdleGenuine DEF Store!AllowUpsert, Store!Files
  <2>14. CASE Store!Rename(w)
    <3>1. FilesOK
      <4>1. profiles' = Store!Yaml(TRUE, writer[w].all)
            /\ \A n \in DOMAIN writer[w].all : Genuine(writer[w].all[n])
        BY <2>8, <2>14 DEF Store!Rename, CarriesGenuine
      <4>2. profiles'.all = writer[w].all /\ profiles'.parses = TRUE
        BY <4>1 DEF Store!Yaml
      <4> QED
        BY <4>1, <4>2 DEF FilesOK
    <3> QED
      BY <2>1, <2>3, <2>5, <2>14, <3>1, IdleGenuine DEF Store!Rename
  <2>15. CASE Store!Kill(w)
    BY <2>1, <2>2, <2>3, <2>5, <2>15, IdleGenuine DEF Store!Kill, Store!Files
  <2> QED
    BY <2>9, <2>10, <2>11, <2>12, <2>13, <2>14, <2>15 DEF Store!ProfileAllowCommand,
       Store!toolProfileAllow
<1> QED
  BY <1>1, <1>2

\* No interleaving of the commands that write profiles.yaml puts a rule into an
\* installed profile or an unapproved request of an agent into any (install.go,
\* profileallow.go).
THEOREM GrantsStayGenuine == Store!Spec => []Store!GrantsGenuine
<1>1. StoreInv => Store!GrantsGenuine
  BY DEF StoreInv, Store!GrantsGenuine, Genuine
<1> QED
  BY StoreInvInductive, <1>1, PTL DEF Store!Spec, storeVars, Store!vars

-----------------------------------------------------------------------------
\* What was reported done stays.

(***************************************************************************)
(* Why a write stays: while no rename has come between another command's   *)
(* read and its rename, every copy a writer holds is the file as it is     *)
(* now, with that command's change made to it; and a rename that races     *)
(* with no other leaves no copy behind.                                    *)
(***************************************************************************)
UpsertIsCurrent(c) ==
    /\ c.name \in DOMAIN profiles.all /\ profiles.all[c.name].source = Store!Local
    /\ c.p.source = Store!Local /\ profiles.all[c.name].rules \cup c.rule \subseteq c.p.rules

AllowIsCurrent(c, p) ==
    /\ p.source = Store!Local
    /\ \A n \in c.names : /\ n \in DOMAIN profiles.all /\ profiles.all[n].source = Store!Local
                          /\ profiles.all[n].rules \cup c.rule \subseteq p.rules

InstallIsCurrent(c, p) == c.rule = {} /\ p.source = c.id

RenameIsCurrent(c) ==
    \E p : /\ c.all = Store!Merged(profiles.all, c.names, p)
           /\ IF c.id = Store!Local THEN AllowIsCurrent(c, p) ELSE InstallIsCurrent(c, p)

WriterIsCurrent(c) ==
    /\ c.at = "upsert" => UpsertIsCurrent(c)
    /\ c.at = "rename" => RenameIsCurrent(c)

CopiesInv ==
    /\ StoreInv
    /\ raced \in BOOLEAN
    /\ ~raced => Store!WritesStay /\ \A w \in Writers : WriterIsCurrent(writer[w])

\* As long as the file keeps its profiles, a copy is as current as it was.
LEMMA CurrentStays ==
    ASSUME NEW c, profiles'.all = profiles.all, WriterIsCurrent(c)
    PROVE  WriterIsCurrent(c)'
  BY DEF WriterIsCurrent, UpsertIsCurrent, RenameIsCurrent, AllowIsCurrent, InstallIsCurrent

\* A copy nobody reads for a rename is current.
LEMMA NotHeldIsCurrent ==
    ASSUME NEW c, c.at \notin {"upsert", "rename"}
    PROVE  WriterIsCurrent(c) /\ WriterIsCurrent(c)'
  BY DEF WriterIsCurrent

\* A step that leaves the files alone keeps the invariant when the writer's next
\* copy is current.
LEMMA CopiesStay ==
    ASSUME CopiesInv, StoreInv', UNCHANGED <<profiles, raced, granted, installed>>,
           NEW w \in Writers, NEW c, Store!Goes(w, c), ~raced => WriterIsCurrent(c)
    PROVE  CopiesInv'
<1> SUFFICES ASSUME ~raced PROVE Store!WritesStay' /\ \A v \in Writers : WriterIsCurrent(writer[v])'
  BY DEF CopiesInv
<1>1. Store!WritesStay'
  BY DEF CopiesInv, Store!WritesStay
<1>2. ASSUME NEW v \in Writers PROVE WriterIsCurrent(writer'[v])
  BY DEF CopiesInv, StoreInv, Store!Goes
<1>3. ASSUME NEW v \in Writers PROVE WriterIsCurrent(writer[v])'
  BY <1>2 DEF WriterIsCurrent, UpsertIsCurrent, RenameIsCurrent, AllowIsCurrent, InstallIsCurrent
<1> QED
  BY <1>1, <1>3

\* A rename that nobody races with makes the file what its command reported.
LEMMA RenameKeepsWrites ==
    ASSUME CopiesInv, NEW w \in Writers, Store!Rename(w), ~raced
    PROVE  /\ \A g \in granted' : /\ g[1] \in DOMAIN profiles'.all
                                  /\ g[2] \in profiles'.all[g[1]].rules
           /\ \A n \in Names : installed'[n] # Store!Local =>
                 n \in DOMAIN profiles'.all /\ profiles'.all[n].source = installed'[n]
<1> DEFINE c == writer[w]
<1>1. /\ \A g \in granted : /\ g[1] \in DOMAIN profiles.all
                            /\ g[2] \in profiles.all[g[1]].rules
      /\ \A n \in Names : installed[n] # Store!Local =>
            n \in DOMAIN profiles.all /\ profiles.all[n].source = installed[n]
  BY DEF CopiesInv, Store!WritesStay
<1>2. PICK p : /\ c.all = Store!Merged(profiles.all, c.names, p)
               /\ IF c.id = Store!Local THEN AllowIsCurrent(c, p) ELSE InstallIsCurrent(c, p)
  BY DEF CopiesInv, WriterIsCurrent, RenameIsCurrent, Store!Rename
<1>3. /\ profiles'.all = c.all
      /\ granted' = (IF c.id = Store!Local THEN granted
                     ELSE {g \in granted : g[1] \notin c.names}) \cup (c.names \X c.rule)
      /\ installed' = IF c.id = Store!Local THEN installed
                      ELSE [n \in Names |-> IF n \in c.names THEN c.id ELSE installed[n]]
  BY DEF Store!Rename, Store!Yaml
<1>4. /\ DOMAIN profiles'.all = DOMAIN profiles.all \cup c.names
      /\ \A n \in DOMAIN profiles'.all :
            profiles'.all[n] = IF n \in c.names THEN p ELSE profiles.all[n]
  BY <1>2, <1>3 DEF Store!Merged
<1> HIDE DEF c
<1>5. CASE c.id = Store!Local
  BY <1>1, <1>2, <1>3, <1>4, <1>5 DEF AllowIsCurrent
<1>6. CASE c.id # Store!Local
  <2>1. c.names \X c.rule = {}
    BY <1>2, <1>6 DEF InstallIsCurrent
  <2> QED
    BY <1>1, <1>2, <1>3, <1>4, <1>6, <2>1 DEF InstallIsCurrent
<1> QED
  BY <1>5, <1>6

\* Whatever fails or is killed, a granted rule and an installed profile stay
\* until the next install of the profile, as long as no two commands overlap
\* (writeInstalledProfiles, UpsertProfile).
THEOREM WritesAreKept == Store!Spec => []Store!WritesStay
<1>1. Store!Init => CopiesInv
  <2> SUFFICES ASSUME Store!Init PROVE CopiesInv
    OBVIOUS
  <2>1. \A w \in Writers : WriterIsCurrent(writer[w])
    BY NotHeldIsCurrent DEF Store!Init, Store!Idle
  <2>2. Store!WritesStay
    BY DEF Store!Init, Store!WritesStay
  <2> QED
    BY <2>1, <2>2, StoreInvInductive DEF Store!Init, CopiesInv
<1>2. CopiesInv /\ [Store!Next]_storeVars => CopiesInv'
  <2> SUFFICES ASSUME CopiesInv, [Store!Next]_storeVars PROVE CopiesInv'
    OBVIOUS
  <2>0. StoreInv /\ StoreInv'
    BY StoreInvInductive DEF CopiesInv
  <2>1. CASE UNCHANGED storeVars
    BY <2>0, <2>1 DEF storeVars, CopiesInv, Store!WritesStay, WriterIsCurrent, UpsertIsCurrent,
       RenameIsCurrent,
       AllowIsCurrent, InstallIsCurrent
  <2>2. CASE Store!Edit
    <3>1. /\ profiles'.all = profiles.all /\ UNCHANGED <<writer, granted, installed>>
          /\ raced' = (raced \/ \E v \in Writers : Store!HoldsRead(v))
      BY <2>0, <2>2 DEF Store!Edit, StoreInv, Store!Yaml
    <3>2. raced' \in BOOLEAN
      BY <3>1 DEF CopiesInv
    <3> SUFFICES ASSUME ~raced'
                 PROVE  Store!WritesStay' /\ \A v \in Writers : WriterIsCurrent(writer[v])'
      BY <2>0, <3>2 DEF CopiesInv
    <3>3. Store!WritesStay'
      BY <3>1 DEF CopiesInv, Store!WritesStay
    <3>4. ASSUME NEW v \in Writers PROVE WriterIsCurrent(writer[v])'
      BY <3>1 DEF Store!HoldsRead, WriterIsCurrent
    <3> QED
      BY <3>3, <3>4
  <2> SUFFICES ASSUME NEW w \in Writers,
                      \/ Store!Install(w) \/ Store!InstallCheck(w) \/ Store!InstallMerge(w)
                      \/ Store!ProfileAllowCommand(w) \/ Store!toolProfileAllow(w)
                      \/ Store!AllowUpsert(w)
                      \/ Store!Rename(w) \/ Store!Kill(w)
               PROVE  CopiesInv'
    BY <2>1, <2>2 DEF Store!Next
  <2> DEFINE c == writer[w]
  <2>3. WriterIsCurrent(Store!Idle)
    BY NotHeldIsCurrent DEF Store!Idle
  <2>4. CASE Store!Install(w) \/ Store!InstallCheck(w) \/ Store!Kill(w)
    <3>1. PICK d : Store!Goes(w, d) /\ d.at \in {"idle", "check", "merge"}
      <4>0. Store!Idle.at = "idle"
        BY DEF Store!Idle
      <4>1. CASE Store!InstallCheck(w)
        <5>1. [c EXCEPT !.at = "merge"].at = "merge"
          BY <2>0, <4>1 DEF Store!InstallCheck, StoreInv, CarriesGenuine, Installing
        <5>2. Store!Goes(w, [c EXCEPT !.at = "merge"]) \/ Store!Goes(w, Store!Idle)
          BY <4>1 DEF Store!InstallCheck
        <5> QED
          BY <4>0, <5>1, <5>2
      <4>2. CASE Store!Install(w)
        <5>1. PICK names \in Store!Installable, force \in BOOLEAN :
                  Store!Goes(w, [at |-> "check", names |-> names, force |-> force, id |-> commands'])
          BY <4>2 DEF Store!Install
        <5>2. [at |-> "check", names |-> names, force |-> force, id |-> commands'].at = "check"
          OBVIOUS
        <5> QED
          BY <5>1, <5>2
      <4>3. CASE Store!Kill(w)
        BY <4>0, <4>3 DEF Store!Kill
      <4> QED
        BY <2>4, <4>1, <4>2, <4>3
    <3>2. WriterIsCurrent(d)
      BY <3>1, NotHeldIsCurrent
    <3> QED
      BY <2>0, <2>4, <3>1, <3>2, CopiesStay DEF Store!Install, Store!InstallCheck, Store!Kill,
         Store!Files
  <2>5. CASE Store!InstallMerge(w)
    <3> DEFINE p == [source |-> c.id, rules |-> {}]
               d == [at |-> "rename", names |-> c.names, id |-> c.id, rule |-> {},
                     all |-> Store!Merged(profiles.all, c.names, p)]
    <3>1. c.id # Store!Local
      BY <2>0, <2>5 DEF Store!InstallMerge, StoreInv, CarriesGenuine, Installing, Store!Local
    <3>2. WriterIsCurrent(d)
      <4>1. /\ d.at = "rename" /\ d.id = c.id /\ InstallIsCurrent(d, p)
            /\ d.all = Store!Merged(profiles.all, d.names, p)
        BY DEF InstallIsCurrent
      <4> HIDE DEF d, p
      <4> QED
        BY <3>1, <4>1 DEF WriterIsCurrent, RenameIsCurrent
    <3>3. Store!Goes(w, IF profiles.parses THEN d ELSE Store!Idle)
      BY <2>5 DEF Store!InstallMerge
    <3> HIDE DEF d
    <3> QED
      BY <2>0, <2>3, <2>5, <3>2, <3>3, CopiesStay DEF Store!InstallMerge, Store!Files
  <2>6. ASSUME NEW by \in {"cli", "mcp"}, Store!Allow(w, by) PROVE CopiesInv'
    <3>1. PICK n \in Names, valid \in Store!AskedRules :
             LET rule == [by |-> by, cmd |-> commands', valid |-> valid]
                 ok == /\ Store!LoadProfiles(profiles) /\ n \in DOMAIN profiles.all
                       /\ Store!IsLocalSource(profiles.all[n])
             IN Store!Goes(w, IF ok /\ ~Store!Queued(by)
                        THEN [at |-> "upsert", name |-> n, rule |-> {rule},
                              p |-> [profiles.all[n] EXCEPT !.rules = @ \cup {rule}]]
                        ELSE Store!Idle)
      BY <2>6 DEF Store!Allow
    <3> DEFINE rule == [by |-> by, cmd |-> commands', valid |-> valid]
               p == [profiles.all[n] EXCEPT !.rules = @ \cup {rule}]
               d == [at |-> "upsert", name |-> n, rule |-> {rule}, p |-> p]
    <3>2. ASSUME n \in DOMAIN profiles.all, Store!IsLocalSource(profiles.all[n])
          PROVE  WriterIsCurrent(d)
      <4>1. profiles.all[n] \in AnyProfile /\ profiles.all[n].source = Store!Local
        BY <2>0, <3>2 DEF StoreInv, Genuine, Store!IsLocalSource
      <4>2. p.source = Store!Local /\ p.rules = profiles.all[n].rules \cup {rule}
        BY <4>1 DEF AnyProfile
      <4>3. d.at = "upsert" /\ d.name = n /\ d.rule = {rule} /\ d.p = p
        OBVIOUS
      <4> HIDE DEF d, p, rule
      <4> QED
        BY <3>2, <4>1, <4>2, <4>3 DEF WriterIsCurrent, UpsertIsCurrent
    <3>3. (Store!Goes(w, d) /\ WriterIsCurrent(d)) \/ Store!Goes(w, Store!Idle)
      BY <3>1, <3>2
    <3> HIDE DEF d
    <3> QED
      BY <2>0, <2>3, <2>6, <3>3, CopiesStay DEF Store!Allow
  <2>7. CASE Store!AllowUpsert(w)
    <3> DEFINE d == [at |-> "rename", names |-> {c.name}, id |-> Store!Local, rule |-> c.rule,
                     all |-> Store!Merged(profiles.all, {c.name}, c.p)]
    <3>1. ASSUME ~raced PROVE WriterIsCurrent(d)
      <4>1. UpsertIsCurrent(c)
        BY <2>7, <3>1 DEF Store!AllowUpsert, CopiesInv, WriterIsCurrent
      <4>2. /\ d.at = "rename" /\ d.id = Store!Local /\ d.names = {c.name} /\ d.rule = c.rule
            /\ d.all = Store!Merged(profiles.all, d.names, c.p)
        OBVIOUS
      <4> HIDE DEF d, c
      <4> QED
        BY <4>1, <4>2 DEF WriterIsCurrent, RenameIsCurrent, AllowIsCurrent, UpsertIsCurrent
    <3>2. Store!Goes(w, d) \/ Store!Goes(w, Store!Idle)
      BY <2>7 DEF Store!AllowUpsert
    <3> HIDE DEF d
    <3> QED
      BY <2>0, <2>3, <2>7, <3>1, <3>2, CopiesStay DEF Store!AllowUpsert, Store!Files
  <2>8. CASE Store!Rename(w)
    <3>1. /\ raced' = (raced \/ \E v \in Writers \ {w} : Store!HoldsRead(v))
          /\ writer' = [writer EXCEPT ![w] = Store!Idle]
      BY <2>8 DEF Store!Rename, Store!Goes
    <3>2. raced' \in BOOLEAN
      BY <3>1 DEF CopiesInv
    <3> SUFFICES ASSUME ~raced'
                 PROVE  Store!WritesStay' /\ \A v \in Writers : WriterIsCurrent(writer[v])'
      BY <2>0, <3>2 DEF CopiesInv
    <3>3. Store!WritesStay'
      BY <2>8, <3>1, RenameKeepsWrites DEF Store!WritesStay
    <3>4. ASSUME NEW v \in Writers PROVE WriterIsCurrent(writer[v])'
      <4>1. writer'[v].at \notin {"upsert", "rename"}
        BY <2>0, <3>1 DEF StoreInv, Store!HoldsRead, Store!Idle
      <4> QED
        BY <4>1 DEF WriterIsCurrent
    <3> QED
      BY <3>3, <3>4
  <2> QED
    BY <2>4, <2>5, <2>6, <2>7, <2>8 DEF Store!ProfileAllowCommand, Store!toolProfileAllow
<1>3. CopiesInv => Store!WritesStay
  BY DEF CopiesInv, Store!WritesStay
<1> QED
  BY <1>1, <1>2, <1>3, PTL DEF Store!Spec, storeVars, Store!vars

-----------------------------------------------------------------------------
\* The types.

\* What a writer carries from its reads to its rename, with its types.
Carried(c) ==
    /\ c.at \in {"idle", "check", "merge", "upsert", "rename"}
    /\ c.at \in {"check", "merge"} =>
          c \in [at : {"check", "merge"}, names : SUBSET Names, force : BOOLEAN, id : Store!Commands]
    /\ c.at = "upsert" => c.name \in Names /\ c.rule \subseteq Store!Rules /\ c.p \in Store!Profile
    /\ c.at = "rename" =>
          /\ c.names \subseteq Names /\ c.rule \subseteq Store!Rules
          /\ c.id \in {Store!Local} \cup Store!Commands
          /\ DOMAIN c.all \subseteq Names /\ \A n \in DOMAIN c.all : c.all[n] \in Store!Profile

(***************************************************************************)
(* Why the file keeps its types: what a command renames into place is what *)
(* it read with a profile of its own put in, and that profile was read     *)
(* too, or is named after the command.                                     *)
(***************************************************************************)
StoreTyped ==
    /\ StoreInv /\ Store!TypeOK
    /\ \A w \in Writers : Carried(writer[w])

\* A copy of the file with a profile put in has the types of the file.
LEMMA MergedTyped ==
    ASSUME NEW all, DOMAIN all \subseteq Names, \A n \in DOMAIN all : all[n] \in Store!Profile,
           NEW names \in SUBSET Names, NEW p \in Store!Profile
    PROVE  LET m == Store!Merged(all, names, p)
           IN  DOMAIN m \subseteq Names /\ \A n \in DOMAIN m : m[n] \in Store!Profile
  BY DEF Store!Merged

\* The rule a command asks for, and a profile with one more rule.
LEMMA RuleTyped ==
    ASSUME NEW by \in {"cli", "mcp"}, NEW c \in Store!Commands, NEW valid \in BOOLEAN,
           NEW p \in Store!Profile
    PROVE  LET rule == [by |-> by, cmd |-> c, valid |-> valid]
           IN  rule \in Store!Rules /\ [p EXCEPT !.rules = @ \cup {rule}] \in Store!Profile
<1> DEFINE rule == [by |-> by, cmd |-> c, valid |-> valid]
<1>1. rule \in Store!Rules
  BY DEF Store!Rules
<1>2. p.rules \cup {rule} \in SUBSET Store!Rules
  BY <1>1 DEF Store!Profile
<1> HIDE DEF rule
<1>3. [p EXCEPT !.rules = @ \cup {rule}] \in Store!Profile
  BY <1>2 DEF Store!Profile
<1> QED
  BY <1>1, <1>3 DEF rule

\* What the writers carry keeps its types when one of them takes a new state.
LEMMA GoesTyped ==
    ASSUME StoreTyped, NEW w \in Writers, NEW c, Store!Goes(w, c), Carried(c)
    PROVE  /\ \A v \in Writers : Carried(writer'[v])
           /\ \A v \in Writers : writer'[v].at \in {"idle", "check", "merge", "upsert", "rename"}
<1>1. \A v \in Writers : writer'[v] = writer[v] \/ writer'[v] = c
  BY DEF StoreTyped, StoreInv, Store!Goes
<1>2. \A v \in Writers : Carried(writer'[v])
  BY <1>1 DEF StoreTyped
<1> QED
  BY <1>2 DEF Carried

\* An idle writer carries nothing.
LEMMA IdleTyped == Carried(Store!Idle)
  BY DEF Store!Idle, Carried

\* The types hold at first.
LEMMA StoreTypedStart == Store!Init => StoreTyped
<1> SUFFICES ASSUME Store!Init PROVE StoreTyped
  OBVIOUS
<1>1. StoreInv
  BY StoreInvInductive
<1>2. PICK have \in SUBSET Names :
          profiles = Store!Yaml(TRUE, [n \in have |-> [source |-> Store!Local, rules |-> {}]])
  BY DEF Store!Init
<1>3. profiles.parses \in BOOLEAN /\ DOMAIN profiles.all \subseteq Names
      /\ \A n \in DOMAIN profiles.all : profiles.all[n] \in Store!Profile
  BY <1>2 DEF Store!Yaml, Store!Profile
<1>4. 0 \in 0..MaxCommands /\ 0 \in 0..MaxEdits
  BY StoreAssumption
<1>5. \A w \in Writers : writer[w] = Store!Idle
  BY DEF Store!Init
<1>6. \A w \in Writers : Carried(writer[w])
                         /\ writer[w].at \in {"idle", "check", "merge", "upsert", "rename"}
  BY <1>5, IdleTyped DEF Carried
<1> QED
  BY <1>1, <1>3, <1>4, <1>6 DEF StoreTyped, Store!TypeOK, Store!Init

\* They survive each step.
LEMMA StoreTypedStep ==
    ASSUME StoreTyped, [Store!Next]_storeVars
    PROVE  StoreTyped'
<1>0. StoreInv /\ StoreInv' /\ Store!TypeOK /\ \A w \in Writers : Carried(writer[w])
  BY StoreInvInductive DEF StoreTyped
<1> DEFINE FileTyped == /\ profiles'.parses \in BOOLEAN /\ DOMAIN profiles'.all \subseteq Names
                        /\ \A n \in DOMAIN profiles'.all : profiles'.all[n] \in Store!Profile
           WritersTyped ==
              /\ \A v \in Writers : Carried(writer'[v])
              /\ \A v \in Writers : writer'[v].at \in {"idle", "check", "merge", "upsert", "rename"}
           RestTyped == /\ commands' \in 0..MaxCommands /\ edits' \in 0..MaxEdits
                        /\ selfGrant' \in BOOLEAN /\ raced' \in BOOLEAN
                        /\ granted' \subseteq (Names \X Store!Rules)
                        /\ installed' \in [Names -> {Store!Local} \cup Store!Commands]
<1>1. queue' \in [Store!Commands -> 0..MaxCommands]
  <2>1. queue' = [c \in Store!Commands |-> queue'[c]] /\ \A c \in Store!Commands : queue'[c] \in {0, 1}
    BY <1>0 DEF StoreInv
  <2>2. \A c \in Store!Commands : {0, 1} \subseteq 0..MaxCommands
    BY StoreAssumption DEF Store!Commands
  <2> QED
    BY <2>1, <2>2
<1>2. FileTyped /\ WritersTyped /\ RestTyped => StoreTyped'
  <2> SUFFICES ASSUME FileTyped, WritersTyped, RestTyped PROVE StoreTyped'
    OBVIOUS
  <2>1. Store!TypeOK'
    BY <1>1 DEF Store!TypeOK
  <2>2. \A w \in Writers : Carried(writer[w])'
    BY DEF Carried
  <2> QED
    BY <1>0, <2>1, <2>2 DEF StoreTyped
<1>3. UNCHANGED profiles => FileTyped
  BY <1>0 DEF Store!TypeOK
<1>4. \A w \in Writers : \A c : Store!Goes(w, c) /\ Carried(c) => WritersTyped
  BY GoesTyped DEF StoreTyped
<1>5. UNCHANGED <<edits, selfGrant, raced, granted, installed>>
         /\ commands' \in {commands, commands + 1} /\ commands' \in 0..MaxCommands => RestTyped
  BY <1>0 DEF Store!TypeOK
<1>6. UNCHANGED <<edits, selfGrant, raced, granted, installed, commands>> => RestTyped
  BY <1>0 DEF Store!TypeOK
<1> HIDE DEF FileTyped, WritersTyped, RestTyped
<1>7. ASSUME NEW w \in Writers, Store!Begin(w)
      PROVE  commands' = commands + 1 /\ commands' \in Store!Commands /\ commands' \in 0..MaxCommands
  BY <1>0, <1>7, StoreAssumption DEF Store!Begin, Store!TypeOK, Store!Commands
<1>8. CASE UNCHANGED storeVars
  <2>1. WritersTyped
    BY <1>0, <1>8 DEF storeVars, Store!TypeOK, WritersTyped
  <2> QED
    BY <1>2, <1>3, <1>6, <1>8, <2>1 DEF storeVars
<1>9. CASE Store!Edit
  <2>1. WritersTyped
    BY <1>0, <1>9 DEF Store!Edit, Store!TypeOK, WritersTyped
  <2>2. profiles'.all = profiles.all /\ profiles'.parses = ~profiles.parses
    BY <1>0, <1>9 DEF Store!Edit, StoreInv, Store!Yaml
  <2>3. FileTyped
    BY <1>0, <2>2 DEF Store!TypeOK, FileTyped
  <2>4. edits' \in 0..MaxEdits
    BY <1>0, <1>9, StoreAssumption DEF Store!Edit, Store!TypeOK
  <2>5. RestTyped
    BY <1>0, <1>9, <2>4 DEF Store!Edit, Store!TypeOK, RestTyped
  <2> QED
    BY <1>2, <2>1, <2>3, <2>5
<1> SUFFICES ASSUME NEW w \in Writers,
                    \/ Store!Install(w) \/ Store!InstallCheck(w) \/ Store!InstallMerge(w)
                    \/ Store!ProfileAllowCommand(w) \/ Store!toolProfileAllow(w)
                    \/ Store!AllowUpsert(w)
                    \/ Store!Rename(w) \/ Store!Kill(w)
             PROVE  StoreTyped'
  BY <1>8, <1>9 DEF Store!Next
<1>10. Carried(writer[w])
  BY <1>0
<1>11. CASE Store!Install(w)
  <2>1. PICK names \in Store!Installable, force \in BOOLEAN :
            Store!Goes(w, [at |-> "check", names |-> names, force |-> force, id |-> commands'])
    BY <1>11 DEF Store!Install
  <2>2. Carried([at |-> "check", names |-> names, force |-> force, id |-> commands'])
    BY <1>7, <1>11, InstallableNames DEF Store!Install, Carried
  <2> QED
    BY <1>2, <1>3, <1>4, <1>5, <1>7, <1>11, <2>1, <2>2 DEF Store!Install, Store!Files
<1>12. CASE Store!InstallCheck(w)
  <2>1. Carried([writer[w] EXCEPT !.at = "merge"])
    BY <1>10, <1>12 DEF Store!InstallCheck, Carried
  <2> QED
    BY <1>2, <1>3, <1>4, <1>6, <1>12, <2>1, IdleTyped DEF Store!InstallCheck, Store!Files
<1>13. CASE Store!InstallMerge(w)
  <2> DEFINE c == writer[w]
             p == [source |-> c.id, rules |-> {}]
             all == Store!Merged(profiles.all, c.names, p)
  <2>1. c.names \subseteq Names /\ c.id \in Store!Commands
    BY <1>10, <1>13 DEF Store!InstallMerge, Carried
  <2>2. p \in Store!Profile
    BY <2>1 DEF Store!Profile
  <2>3. DOMAIN all \subseteq Names /\ \A n \in DOMAIN all : all[n] \in Store!Profile
    BY <1>0, <2>1, <2>2, MergedTyped DEF Store!TypeOK
  <2>4. Carried([at |-> "rename", names |-> c.names, id |-> c.id, rule |-> {}, all |-> all])
    BY <2>1, <2>3 DEF Carried
  <2> QED
    BY <1>2, <1>3, <1>4, <1>6, <1>13, <2>4, IdleTyped DEF Store!InstallMerge, Store!Files
<1>14. ASSUME NEW by \in {"cli", "mcp"}, Store!Allow(w, by) PROVE StoreTyped'
  <2>1. PICK n \in Names, valid \in Store!AskedRules :
           LET rule == [by |-> by, cmd |-> commands', valid |-> valid]
               ok == /\ Store!LoadProfiles(profiles) /\ n \in DOMAIN profiles.all
                     /\ Store!IsLocalSource(profiles.all[n])
           IN Store!Goes(w, IF ok /\ ~Store!Queued(by)
                      THEN [at |-> "upsert", name |-> n, rule |-> {rule},
                            p |-> [profiles.all[n] EXCEPT !.rules = @ \cup {rule}]]
                      ELSE Store!Idle)
    BY <1>14 DEF Store!Allow
  <2> DEFINE rule == [by |-> by, cmd |-> commands', valid |-> valid]
             p == [profiles.all[n] EXCEPT !.rules = @ \cup {rule}]
  <2>2. commands' \in Store!Commands /\ commands' = commands + 1 /\ commands' \in 0..MaxCommands
        /\ valid \in BOOLEAN
    BY <1>7, <1>14, AskedRulesType DEF Store!Allow
  <2>3. n \in DOMAIN profiles.all => rule \in Store!Rules /\ p \in Store!Profile
    BY <1>0, <2>2, RuleTyped DEF Store!TypeOK
  <2>4. n \in DOMAIN profiles.all =>
           Carried([at |-> "upsert", name |-> n, rule |-> {rule}, p |-> p])
    <3> HIDE DEF rule, p
    <3> QED
      BY <2>3 DEF Carried
  <2>5. WritersTyped
    BY <1>4, <2>1, <2>4, IdleTyped
  <2> QED
    BY <1>2, <1>3, <1>5, <1>14, <2>2, <2>5 DEF Store!Allow
<1>15. CASE Store!AllowUpsert(w)
  <2> DEFINE c == writer[w]
             all == Store!Merged(profiles.all, {c.name}, c.p)
  <2>1. c.name \in Names /\ c.rule \subseteq Store!Rules /\ c.p \in Store!Profile
    BY <1>10, <1>15 DEF Store!AllowUpsert, Carried
  <2>2. DOMAIN all \subseteq Names /\ \A n \in DOMAIN all : all[n] \in Store!Profile
    BY <1>0, <2>1, MergedTyped DEF Store!TypeOK
  <2>3. Carried([at |-> "rename", names |-> {c.name}, id |-> Store!Local, rule |-> c.rule,
                 all |-> all])
    BY <2>1, <2>2 DEF Carried
  <2> QED
    BY <1>2, <1>3, <1>4, <1>6, <1>15, <2>3, IdleTyped DEF Store!AllowUpsert, Store!Files
<1>16. CASE Store!Rename(w)
  <2> DEFINE c == writer[w]
  <2>1. /\ c.names \subseteq Names /\ c.rule \subseteq Store!Rules
        /\ c.id \in {Store!Local} \cup Store!Commands
        /\ DOMAIN c.all \subseteq Names /\ \A n \in DOMAIN c.all : c.all[n] \in Store!Profile
    BY <1>10, <1>16 DEF Store!Rename, Carried
  <2>2. /\ profiles' = Store!Yaml(TRUE, c.all)
        /\ raced' = (raced \/ \E v \in Writers \ {w} : Store!HoldsRead(v))
        /\ granted' = (IF c.id = Store!Local THEN granted
                       ELSE {g \in granted : g[1] \notin c.names}) \cup (c.names \X c.rule)
        /\ installed' = IF c.id = Store!Local THEN installed
                        ELSE [n \in Names |-> IF n \in c.names THEN c.id ELSE installed[n]]
        /\ Store!Goes(w, Store!Idle)
        /\ UNCHANGED <<queue, commands, edits, selfGrant>>
    BY <1>16 DEF Store!Rename
  <2> HIDE DEF c
  <2>3. FileTyped
    <3>1. profiles'.parses = TRUE /\ profiles'.all = c.all
      BY <2>2 DEF Store!Yaml
    <3> QED
      BY <2>1, <3>1 DEF FileTyped
  <2>4. granted' \subseteq (Names \X Store!Rules)
    BY <1>0, <2>1, <2>2 DEF Store!TypeOK
  <2>5. installed' \in [Names -> {Store!Local} \cup Store!Commands]
    BY <1>0, <2>1, <2>2 DEF Store!TypeOK
  <2>6. raced' \in BOOLEAN
    BY <1>0, <2>2 DEF Store!TypeOK
  <2>7. RestTyped
    BY <1>0, <2>2, <2>4, <2>5, <2>6 DEF Store!TypeOK, RestTyped
  <2> QED
    BY <1>2, <1>4, <2>2, <2>3, <2>7, IdleTyped
<1>17. CASE Store!Kill(w)
  BY <1>2, <1>3, <1>4, <1>6, <1>17, IdleTyped DEF Store!Kill, Store!Files
<1> QED
  BY <1>11, <1>12, <1>13, <1>14, <1>15, <1>16, <1>17 DEF Store!ProfileAllowCommand,
     Store!toolProfileAllow

\* profiles.yaml, the queue and what the commands carry keep their types: every
\* profile names a source there is and holds rules a command asked for.
THEOREM StoreIsTyped == Store!Spec => []Store!TypeOK
<1>1. Store!Init => StoreTyped
  BY StoreTypedStart
<1>2. StoreTyped /\ [Store!Next]_storeVars => StoreTyped'
  BY StoreTypedStep
<1>3. StoreTyped => Store!TypeOK
  BY DEF StoreTyped
<1> QED
  BY <1>1, <1>2, <1>3, PTL DEF Store!Spec, storeVars, Store!vars

-----------------------------------------------------------------------------
\* The parts with proofs of their own, in the composition.

\* A behaviour of the composition is one of each of them.
LEMMA PartsRun ==
    /\ ControlSpec => Store!Spec
    /\ ControlSpec => DiskP!DiskSpec
    /\ ControlSpec => DetP!AnomalySpec
<1>1. ControlInit => Store!Init /\ DiskP!DiskInit /\ DetP!AnomalyInit
  BY SameDisk, SameDetector DEF ControlInit
<1>2. [ControlNext]_allVars =>
         /\ [Store!Next]_storeVars
         /\ [DiskP!DiskNext]_DiskP!diskVars
         /\ [DetP!AnomalyNext]_DetP!anomalyVars
  BY PartsStep, SameDisk, SameDetector
<1> QED
  BY <1>1, <1>2, PTL DEF ControlSpec, Store!Spec, storeVars, Store!vars, DiskP!DiskSpec, DetP!AnomalySpec

\* Whatever the commands that write profiles.yaml do to one another, no local
\* rule gets into an installed profile and no unapproved request of an agent
\* into any (install.go, profileallow.go).
THEOREM GrantsAreGenuine == ControlSpec => []GrantsGenuine
<1>1. Store!GrantsGenuine => GrantsGenuine
  BY DEF GrantsGenuine
<1> QED
  BY PartsRun, GrantsStayGenuine, <1>1, PTL

\* Whatever fails or is killed, what a command that wrote profiles.yaml reported
\* done stays while no two of them overlap.
THEOREM WritesAreSafe == ControlSpec => []WritesStay
<1>1. Store!WritesStay => WritesStay
  BY DEF WritesStay
<1> QED
  BY PartsRun, WritesAreKept, <1>1, PTL

\* Requests are refused early enough for every row that is still to come, and
\* archives go oldest first and only as far as needed (audit/disk_pressure.go).
THEOREM DiskPressureHolds == ControlSpec => []DiskPressureIsHandled
<1>1. DiskP!Numbers
  BY DiskAssumption DEF DiskP!Numbers
<1>2. DiskP!DiskSpec => []DiskP!DiskPressureIsHandled
  BY <1>1, DiskP!DiskIsHandled
<1>3. DiskP!DiskPressureIsHandled => DiskPressureIsHandled
  BY SameDisk DEF DiskPressureIsHandled
<1> QED
  BY PartsRun, <1>2, <1>3, PTL

\* The baseline of a key is what was observed of it, no more keys are tracked than
\* the cap, and a burst exceeds the score by no more than was in flight
\* (anomaly/baseline.go, anomaly/hook.go).
THEOREM AnomalyStaysBounded == ControlSpec => []AnomalyIsBounded
<1>1. DetP!Numbers
  BY DetectorAssumption DEF DetP!Numbers
<1>2. DetP!AnomalySpec => []DetP!AnomalyIsBounded
  BY <1>1, DetP!AnomalyHolds
<1>3. DetP!AnomalyIsBounded => AnomalyIsBounded
  BY SameDetector DEF AnomalyIsBounded
<1> QED
  BY PartsRun, <1>2, <1>3, PTL

-----------------------------------------------------------------------------
\* The MCP servers and the dynamic-denies file.

\* A rule whose expiry is what Mcp!computeExpiresAt makes of its duration, and whose
\* duration the loader accepts unless a clumsy one was given.
RuleOK(r) ==
    /\ r.duration \in Mcp!Durations
    /\ r.expires <=> r.duration = "1h"
    /\ ~clumsy => r.duration # "1 hour"

(***************************************************************************)
(* Why acknowledged rules stand: as long as nothing overlaps, what a tool  *)
(* is about to rename is the file with its own change made to it, and the  *)
(* file it read is the file as it is.                                      *)
(***************************************************************************)
CopyIsCurrent(c) == c.rules = (denies.rules \ c.del) \cup c.add

McpInv ==
    /\ server = [s \in Servers |-> server[s]]
    /\ overlapped \in BOOLEAN /\ clumsy \in BOOLEAN
    /\ \A r \in denies.rules : RuleOK(r)
    /\ \A s \in Servers : server[s] # Mcp!Ready =>
          /\ server[s].at = "rename"
          /\ \A r \in server[s].rules : RuleOK(r)
          /\ ~overlapped => CopyIsCurrent(server[s])
    /\ ~overlapped => denies.rules = standing

\* The invariant of the dynamic-denies file holds at the start and is kept.
LEMMA McpInvInductive ==
    /\ Mcp!McpInit => McpInv
    /\ McpInv /\ [Mcp!McpNext]_mcpVars => McpInv'
<1>1. Mcp!McpInit => McpInv
  <2>1. Mcp!McpInit => denies.rules = {}
    BY DEF Mcp!McpInit
  <2> QED
    BY <2>1 DEF Mcp!McpInit, McpInv
<1>2. McpInv /\ [Mcp!McpNext]_mcpVars => McpInv'
  <2> SUFFICES ASSUME McpInv, [Mcp!McpNext]_mcpVars PROVE McpInv'
    OBVIOUS
  <2>1. CASE UNCHANGED mcpVars
    BY <2>1 DEF mcpVars, McpInv, RuleOK, CopyIsCurrent
  <2>2. CASE Mcp!HandEdit
    <3>1. PICK keep \in SUBSET denies.rules, there \in BOOLEAN :
             /\ denies' = [there |-> there, rules |-> keep]
             /\ standing' = standing \cap keep
      BY <2>2 DEF Mcp!HandEdit
    <3>2. denies'.rules = keep
      BY <3>1
    <3> QED
      BY <2>2, <3>1, <3>2 DEF Mcp!HandEdit, McpInv, RuleOK, CopyIsCurrent
  <2>3. CASE Mcp!HourPasses
    BY <2>3 DEF Mcp!HourPasses, McpInv, RuleOK, CopyIsCurrent
  <2> SUFFICES ASSUME NEW s \in Servers,
                      Mcp!DenyAdd(s) \/ Mcp!DenyRemove(s) \/ Mcp!Replace(s) \/ Mcp!Ends(s)
               PROVE  McpInv'
    BY <2>1, <2>2, <2>3 DEF Mcp!McpNext
  <2>4. CASE Mcp!DenyAdd(s)
    <3>1. PICK rule : /\ rule.duration \in Mcp!Durations /\ (rule.expires <=> rule.duration = "1h")
                      /\ Mcp!Holds(s, denies.rules \cup {rule}, {rule}, {})
                      /\ clumsy' = (clumsy \/ ~Mcp!validateRule(rule))
      <4>1. PICK duration \in Mcp!Durations :
               LET rule == [id |-> adds', duration |-> duration,
                            expires |-> Mcp!computeExpiresAt(duration)]
               IN  /\ Mcp!Holds(s, denies.rules \cup {rule}, {rule}, {})
                   /\ clumsy' = (clumsy \/ ~Mcp!validateRule(rule))
        BY <2>4 DEF Mcp!DenyAdd
      <4> DEFINE rule == [id |-> adds', duration |-> duration,
                          expires |-> Mcp!computeExpiresAt(duration)]
      <4>2. rule.duration \in Mcp!Durations /\ (rule.expires <=> rule.duration = "1h")
        BY DEF Mcp!computeExpiresAt
      <4> HIDE DEF rule
      <4> QED
        BY <4>1, <4>2 DEF rule
    <3> DEFINE c == [at |-> "rename", rules |-> denies.rules \cup {rule},
                     add |-> {rule}, del |-> {}]
    <3>2. /\ server' = [server EXCEPT ![s] = c]
          /\ clumsy' = (clumsy \/ rule.duration = "1 hour")
          /\ UNCHANGED <<denies, overlapped, standing>>
      BY <2>4, <3>1 DEF Mcp!DenyAdd, Mcp!Holds, Mcp!validateRule
    <3>4. c.at = "rename" /\ c.rules = denies.rules \cup {rule} /\ c.add = {rule} /\ c.del = {}
      OBVIOUS
    <3> HIDE DEF c
    <3>5. clumsy' \in BOOLEAN /\ (clumsy => clumsy')
      BY <3>2 DEF McpInv
    <3>6. RuleOK(rule)' /\ \A r : RuleOK(r) => RuleOK(r)'
      BY <3>1, <3>2, <3>5 DEF RuleOK
    <3>7. /\ server' = [v \in Servers |-> server'[v]] /\ server'[s] = c
          /\ \A v \in Servers : v # s => server'[v] = server[v]
      BY <3>2 DEF McpInv
    <3>8. CopyIsCurrent(c)
      BY <3>4 DEF CopyIsCurrent
    <3>9. \A v \in Servers : server'[v] # Mcp!Ready =>
             /\ server'[v].at = "rename"
             /\ \A r \in server'[v].rules : RuleOK(r)'
             /\ ~overlapped => CopyIsCurrent(server'[v])
      BY <3>4, <3>6, <3>7, <3>8 DEF McpInv
    <3> QED
      BY <3>2, <3>5, <3>6, <3>7, <3>9 DEF McpInv, CopyIsCurrent
  <2>5. CASE Mcp!DenyRemove(s)
    <3>1. PICK taken \in SUBSET denies.rules : Mcp!Holds(s, denies.rules \ taken, {}, taken)
      BY <2>5 DEF Mcp!DenyRemove
    <3> DEFINE c == [at |-> "rename", rules |-> denies.rules \ taken, add |-> {}, del |-> taken]
    <3>2. /\ server' = [server EXCEPT ![s] = c]
          /\ UNCHANGED <<denies, overlapped, standing, clumsy>>
      BY <2>5, <3>1 DEF Mcp!DenyRemove, Mcp!Holds
    <3>3. c.at = "rename" /\ c.rules = denies.rules \ taken /\ c.add = {} /\ c.del = taken
      OBVIOUS
    <3> HIDE DEF c
    <3>4. \A r : RuleOK(r)' <=> RuleOK(r)
      BY <3>2 DEF RuleOK
    <3>5. /\ server' = [v \in Servers |-> server'[v]] /\ server'[s] = c
          /\ \A v \in Servers : v # s => server'[v] = server[v]
      BY <3>2 DEF McpInv
    <3> QED
      BY <3>2, <3>3, <3>4, <3>5 DEF McpInv, CopyIsCurrent
  <2>6. CASE Mcp!Replace(s) \/ Mcp!Ends(s)
    <3>1. /\ server' = [v \in Servers |-> server'[v]] /\ server'[s] = Mcp!Ready
          /\ \A v \in Servers : v # s => server'[v] = server[v]
          /\ UNCHANGED clumsy /\ server[s] # Mcp!Ready
      BY <2>6 DEF McpInv, Mcp!Replace, Mcp!Ends, Mcp!Ready
    <3>2. \A r : RuleOK(r)' <=> RuleOK(r)
      BY <3>1 DEF RuleOK
    <3>3. CASE Mcp!Ends(s)
      BY <3>1, <3>2, <3>3 DEF McpInv, Mcp!Ends, CopyIsCurrent
    <3>4. CASE Mcp!Replace(s)
      <4>1. /\ denies' = [there |-> TRUE, rules |-> server[s].rules]
            /\ standing' = (standing \ server[s].del) \cup server[s].add
            /\ overlapped' = (overlapped \/ \E o \in Servers \ {s} : server[o] # Mcp!Ready)
        BY <3>4 DEF Mcp!Replace
      <4>2. denies'.rules = server[s].rules
        BY <4>1
      <4> QED
        BY <3>1, <3>2, <4>1, <4>2 DEF McpInv, CopyIsCurrent
    <3> QED
      BY <2>6, <3>3, <3>4
  <2> QED
    BY <2>4, <2>5, <2>6
<1> QED
  BY <1>1, <1>2

\* While nothing overlaps, the rules the MCP tools acknowledged are the rules of
\* the file, and those the loader enforces (internal/mcp, internal/dynamicdeny).
THEOREM DeniesAreKept == ControlSpec => []AcknowledgedDeniesStand
<1>1. ControlInit => McpInv
  BY McpInvInductive DEF ControlInit
<1>2. McpInv /\ [ControlNext]_allVars => McpInv'
  BY PartsStep, McpInvInductive
<1>3. McpInv => AcknowledgedDeniesStand
  BY DEF McpInv, AcknowledgedDeniesStand, Mcp!AcknowledgedDeniesStand, Mcp!Loaded, RuleOK,
     Mcp!validateRule
<1> QED
  BY <1>1, <1>2, <1>3, PTL DEF ControlSpec

\* The types the file's rules have, those of the copies included.
McpTyped ==
    /\ Mcp!McpTypeOK
    /\ \A s \in Servers : server[s] # Mcp!Ready =>
          server[s].rules \subseteq Mcp!Rule /\ server[s].add \subseteq Mcp!Rule

\* A rule a tool makes has an id the bound allows, and a copy holds rules of the
\* file and the one it adds.
LEMMA McpTypedInductive ==
    /\ Mcp!McpInit => McpTyped
    /\ McpTyped /\ McpInv /\ [Mcp!McpNext]_mcpVars => McpTyped'
<1>1. Mcp!McpInit => McpTyped
  <2> SUFFICES ASSUME Mcp!McpInit PROVE McpTyped
    OBVIOUS
  <2>1. denies.there \in BOOLEAN /\ denies.rules = {}
    BY DEF Mcp!McpInit
  <2>2. /\ server = [s \in Servers |-> Mcp!Ready] /\ Mcp!Ready.at = "ready"
        /\ adds = 0 /\ late = FALSE /\ clumsy = FALSE /\ overlapped = FALSE /\ standing = {}
    BY DEF Mcp!McpInit, Mcp!Ready
  <2>3. \A s \in Servers : server[s] = Mcp!Ready /\ server[s].at = "ready"
    BY <2>2
  <2>4. 0 \in 0..MaxAdds
    BY McpAssumption
  <2> QED
    BY <2>1, <2>2, <2>3, <2>4 DEF McpTyped, Mcp!McpTypeOK
<1>2. McpTyped /\ McpInv /\ [Mcp!McpNext]_mcpVars => McpTyped'
  <2> SUFFICES ASSUME McpTyped, McpInv, [Mcp!McpNext]_mcpVars PROVE McpTyped'
    OBVIOUS
  <2> USE DEF McpTyped, Mcp!McpTypeOK
  <2>0. server = [v \in Servers |-> server[v]] /\ Mcp!Ready.at = "ready"
    BY DEF McpInv, Mcp!Ready
  <2>1. CASE UNCHANGED mcpVars
    BY <2>1 DEF mcpVars
  <2>2. CASE Mcp!HandEdit
    <3>1. PICK keep \in SUBSET denies.rules, there \in BOOLEAN :
             /\ ~there => keep = {}
             /\ denies' = [there |-> there, rules |-> keep]
             /\ standing' = standing \cap keep
      BY <2>2 DEF Mcp!HandEdit
    <3>2. denies'.rules = keep /\ denies'.there = there
      BY <3>1
    <3>3. overlapped' \in BOOLEAN /\ UNCHANGED <<server, adds, late, clumsy>>
      BY <2>2 DEF Mcp!HandEdit
    <3> QED
      BY <3>1, <3>2, <3>3
  <2>3. CASE Mcp!HourPasses
    BY <2>3 DEF Mcp!HourPasses
  <2> SUFFICES ASSUME NEW s \in Servers,
                      Mcp!DenyAdd(s) \/ Mcp!DenyRemove(s) \/ Mcp!Replace(s) \/ Mcp!Ends(s)
               PROVE  McpTyped'
    BY <2>1, <2>2, <2>3 DEF Mcp!McpNext
  <2>4. ASSUME NEW rules \in SUBSET Mcp!Rule, NEW add \in SUBSET Mcp!Rule, NEW del,
               Mcp!Holds(s, rules, add, del), adds' \in 0..MaxAdds, clumsy' \in BOOLEAN,
               UNCHANGED <<denies, late, overlapped, standing>>
        PROVE  McpTyped'
    <3> DEFINE c == [at |-> "rename", rules |-> rules, add |-> add, del |-> del]
    <3>1. c.at = "rename" /\ c.rules = rules /\ c.add = add
      OBVIOUS
    <3>2. server' = [server EXCEPT ![s] = c]
      BY <2>4 DEF Mcp!Holds
    <3> HIDE DEF c
    <3>3. server'[s] = c /\ \A v \in Servers : v # s => server'[v] = server[v]
      BY <2>0, <3>2
    <3> QED
      BY <2>4, <3>1, <3>3
  <2>5. CASE Mcp!DenyAdd(s)
    <3>1. PICK duration \in Mcp!Durations :
             LET rule == [id |-> adds', duration |-> duration,
                          expires |-> Mcp!computeExpiresAt(duration)]
             IN  /\ Mcp!Holds(s, denies.rules \cup {rule}, {rule}, {})
                 /\ clumsy' = (clumsy \/ ~Mcp!validateRule(rule))
      BY <2>5 DEF Mcp!DenyAdd
    <3> DEFINE rule == [id |-> adds', duration |-> duration,
                        expires |-> Mcp!computeExpiresAt(duration)]
    <3>2. adds' \in Mcp!Ids /\ adds' \in 0..MaxAdds /\ UNCHANGED <<denies, late, overlapped, standing>>
      BY <2>5, McpAssumption DEF Mcp!DenyAdd, Mcp!Ids
    <3>3. Mcp!computeExpiresAt(duration) \in BOOLEAN
      BY DEF Mcp!computeExpiresAt
    <3>4. rule \in Mcp!Rule
      BY <3>2, <3>3 DEF Mcp!Rule
    <3>5. clumsy' \in BOOLEAN
      BY <3>1 DEF Mcp!validateRule
    <3>6. Mcp!Holds(s, denies.rules \cup {rule}, {rule}, {})
      BY <3>1
    <3> HIDE DEF rule
    <3> QED
      BY <2>4, <3>2, <3>4, <3>5, <3>6
  <2>6. CASE Mcp!DenyRemove(s)
    <3>1. PICK taken \in SUBSET denies.rules : Mcp!Holds(s, denies.rules \ taken, {}, taken)
      BY <2>6 DEF Mcp!DenyRemove
    <3> QED
      BY <2>4, <2>6, <3>1 DEF Mcp!DenyRemove
  <2>7. CASE Mcp!Replace(s) \/ Mcp!Ends(s)
    <3>1. /\ server'[s] = Mcp!Ready /\ \A v \in Servers : v # s => server'[v] = server[v]
          /\ UNCHANGED <<adds, late, clumsy>> /\ server[s] # Mcp!Ready
      BY <2>0, <2>7 DEF Mcp!Replace, Mcp!Ends
    <3>2. CASE Mcp!Ends(s)
      BY <2>0, <3>1, <3>2 DEF Mcp!Ends
    <3>3. CASE Mcp!Replace(s)
      <4>1. /\ denies' = [there |-> TRUE, rules |-> server[s].rules]
            /\ standing' = (standing \ server[s].del) \cup server[s].add
            /\ overlapped' \in BOOLEAN
        BY <3>3 DEF Mcp!Replace
      <4>2. denies'.rules = server[s].rules /\ denies'.there = TRUE
        BY <4>1
      <4> QED
        BY <2>0, <3>1, <4>1, <4>2
    <3> QED
      BY <2>7, <3>2, <3>3
  <2> QED
    BY <2>5, <2>6, <2>7
<1> QED
  BY <1>1, <1>2

-----------------------------------------------------------------------------
\* The dynamic-denies file and its watcher.

(***************************************************************************)
(* Why the proxy never fails open: an empty rule set comes from reading an *)
(* absent file or from an event that reports a removal, and whoever holds  *)
(* one to commit it holds the evidence; an invalid file yields none.       *)
(***************************************************************************)
EmptyMeansGone ==
    /\ file = Absent /\ phase # "new" => gone
    /\ (\E i \in 1..Len(events) : events[i] = "removed") => gone
    /\ pending = "removed" => gone
    /\ loop.at = "commit" /\ loop.set = Empty => gone
    /\ \A h \in Handlers : http[h].at = "commit" /\ http[h].set = Empty => gone

\* What a process that is not running yet holds.
NothingYet ==
    phase = "new" =>
       /\ rs = Empty /\ events = <<>> /\ pending = "none" /\ loop = Idle
       /\ http = [h \in Handlers |-> Idle]

DenyInv == TypeOK /\ EmptyMeansGone /\ NothingYet

\* The types of the watcher, its file and its handlers.
LEMMA WatcherTypes ==
    /\ Init => TypeOK
    /\ TypeOK /\ [Next]_vars => TypeOK'
<1>1. Init => TypeOK
  <2> SUFFICES ASSUME Init PROVE TypeOK
    OBVIOUS
  <2>1. dir \in BOOLEAN
    <3>1. dir \in {TRUE} \cup {"nodir" \notin Situations}
      BY DEF Init
    <3>2. dir = TRUE \/ dir = ("nodir" \notin Situations)
      BY <3>1, Zenon
    <3> QED
      BY <3>2, Zenon
  <2>2. Idle \in [at : {"idle", "commit"}, set : {Empty} \cup Versions]
    BY DEF Idle
  <2>3. /\ <<>> \in Seq(Reasons) /\ 0 \in 0..MaxWrites /\ 0 \in 0..MaxHttp
        /\ [h \in Handlers |-> Idle] \in
              [Handlers -> [at : {"idle", "commit"}, set : {Empty} \cup Versions]]
    BY <2>2, DynamicDenyAssumption
  <2>4. /\ file = Absent /\ filling = FALSE /\ writes = 0
        /\ phase = "new" /\ attached = FALSE /\ events = <<>> /\ pending = "none"
        /\ loop = Idle /\ http = [h \in Handlers |-> Idle]
        /\ rs = Empty /\ asked = 0 /\ gone = FALSE /\ disturbed = {}
    BY DEF Init
  <2> QED
    BY <2>1, <2>2, <2>3, <2>4 DEF TypeOK
<1>2. TypeOK /\ [Next]_vars => TypeOK'
  <2> SUFFICES ASSUME TypeOK, [Next]_vars PROVE TypeOK'
    OBVIOUS
  <2> USE DynamicDenyAssumption DEF TypeOK, fileVars, Versions, Reasons, Empty, Absent, Invalid
  <2>1. ASSUME MayChange, NEW c \in {writes + 1, Invalid, Absent}, NEW r \in Reasons, Change(c, r),
               filling' \in BOOLEAN
        PROVE  TypeOK'
    <3>1. writes' \in 0..MaxWrites /\ file' \in {Absent, Invalid} \cup Versions
      BY <2>1 DEF MayChange, Change
    <3>2. gone' \in BOOLEAN /\ disturbed' \subseteq AllSituations \cup {"http"}
      BY <2>1 DEF Change, Notify, AllSituations
    <3>3. events' \in Seq(Reasons)
      BY <2>1 DEF Change, Notify
    <3> QED
      BY <2>1, <3>1, <3>2, <3>3 DEF Change
  <2>2. CASE Replace \/ Truncate \/ Fill \/ Remove
    BY <2>1, <2>2 DEF Replace, Truncate, Fill, Remove, Change
  <2>3. CASE MakeDir \/ Start
    BY <2>3 DEF MakeDir, Start
  <2>4. CASE New
    BY <2>4 DEF New, Loads, RulesOf
  <2>5. CASE TakeEvent
    BY <2>5 DEF TakeEvent
  <2>6. CASE TimerFires
    BY <2>6 DEF TimerFires, Loads, RulesOf, Hold, Idle
  <2>7. CASE LoopCommit
    BY <2>7 DEF LoopCommit, Idle
  <2>8. ASSUME NEW h \in Handlers, HttpLoad(h) PROVE TypeOK'
    BY <2>8 DEF HttpLoad, Loads, RulesOf, Hold
  <2>9. ASSUME NEW h \in Handlers, HttpCommit(h) PROVE TypeOK'
    BY <2>9 DEF HttpCommit, Idle
  <2>10. CASE UNCHANGED vars
    BY <2>10 DEF vars
  <2> QED
    BY <2>2, <2>3, <2>4, <2>5, <2>6, <2>7, <2>8, <2>9, <2>10 DEF Next, LoopStep
<1> QED
  BY <1>1, <1>2

\* The evidence for every empty rule set is kept.
LEMMA DenyInvInductive ==
    /\ Init => DenyInv
    /\ DenyInv /\ [Next]_vars => DenyInv'
<1>1. Init => DenyInv
  <2> SUFFICES ASSUME Init PROVE EmptyMeansGone /\ NothingYet
    BY WatcherTypes DEF DenyInv
  <2>1. /\ file = Absent /\ phase = "new" /\ events = <<>> /\ pending = "none"
        /\ loop = Idle /\ http = [h \in Handlers |-> Idle] /\ rs = Empty
    BY DEF Init
  <2>2. 1..Len(events) = {}
    BY <2>1
  <2> QED
    BY <2>1, <2>2 DEF EmptyMeansGone, NothingYet, Idle
<1>2. DenyInv /\ [Next]_vars => DenyInv'
  <2> SUFFICES ASSUME DenyInv, [Next]_vars PROVE EmptyMeansGone' /\ NothingYet'
    BY WatcherTypes DEF DenyInv
  <2>0. EmptyMeansGone /\ NothingYet /\ TypeOK
    BY DEF DenyInv
  <2>1. /\ gone \in BOOLEAN /\ events \in Seq(Reasons)
        /\ file # Absent /\ file # Invalid => file \in Versions
        /\ \A v \in Versions : v # Empty
    BY <2>0 DEF TypeOK, Versions, Empty
  <2> USE DEF fileVars
  <2>2. ASSUME NEW c \in {writes + 1, Invalid, Absent}, NEW r \in Reasons, Change(c, r),
               r = "removed" => c = Absent
        PROVE  EmptyMeansGone' /\ NothingYet'
    <3>1. /\ file' = c /\ gone' = (gone \/ c = Absent)
          /\ UNCHANGED <<phase, pending, loop, http, rs>>
          /\ UNCHANGED events \/ (phase = "running" /\ events' = Append(events, r))
      BY <2>2 DEF Change, Notify
    <3>2. ASSUME NEW i \in 1..Len(events'), events'[i] = "removed" PROVE gone'
      <4>1. CASE UNCHANGED events
        BY <2>0, <3>1, <3>2, <4>1 DEF EmptyMeansGone
      <4>2. CASE events' = Append(events, r)
        <5>1. (i \in 1..Len(events) /\ events'[i] = events[i]) \/ events'[i] = r
          BY <2>1, <3>2, <4>2
        <5> QED
          BY <2>0, <2>2, <3>1, <3>2, <5>1 DEF EmptyMeansGone
      <4> QED
        BY <3>1, <4>1, <4>2
    <3>3. EmptyMeansGone'
      BY <2>0, <2>1, <3>1, <3>2 DEF EmptyMeansGone
    <3> QED
      BY <2>0, <3>1, <3>3 DEF NothingYet
  <2>3. CASE Replace
    BY <2>2, <2>3 DEF Replace, Reasons
  <2>4. CASE Truncate \/ Fill
    BY <2>2, <2>4 DEF Truncate, Fill, Reasons
  <2>5. CASE Remove
    BY <2>2, <2>5 DEF Remove, Reasons
  <2>6. CASE MakeDir \/ Start \/ UNCHANGED vars
    BY <2>0, <2>6 DEF MakeDir, Start, vars, EmptyMeansGone, NothingYet
  <2>7. CASE New
    <3>1. gone' = (gone \/ file = Absent)
          /\ UNCHANGED <<file, events, pending, loop, http>> /\ phase' = "loaded"
      BY <2>7 DEF New
    <3> QED
      BY <2>0, <2>1, <3>1 DEF EmptyMeansGone, NothingYet
  <2>8. CASE TakeEvent
    <3>1. /\ events # <<>> /\ pending' = Head(events) /\ events' = Tail(events)
          /\ UNCHANGED <<file, gone, phase, loop, http, rs>>
      BY <2>8 DEF TakeEvent
    <3>2. /\ 1 \in 1..Len(events) /\ Head(events) = events[1]
          /\ \A i \in 1..Len(events') : i + 1 \in 1..Len(events) /\ events'[i] = events[i + 1]
      BY <2>1, <3>1
    <3>3. (\E i \in 1..Len(events') : events'[i] = "removed") => gone'
      BY <2>0, <3>1, <3>2 DEF EmptyMeansGone
    <3> QED
      BY <2>0, <3>1, <3>2, <3>3 DEF EmptyMeansGone, NothingYet
  <2>9. CASE TimerFires
    <3>1. phase # "new"
      BY <2>0, <2>9 DEF TimerFires, NothingYet
    <3>2. /\ pending' = "none" /\ UNCHANGED <<file, gone, phase, events, http, rs>>
          /\ \/ loop' = Idle
             \/ pending = "removed" /\ loop' = Hold(Empty)
             \/ file # Invalid /\ loop' = Hold(RulesOf(file))
      BY <2>9 DEF TimerFires, Loads
    <3>3. loop'.at = "commit" /\ loop'.set = Empty => gone
      BY <2>0, <2>1, <3>1, <3>2 DEF EmptyMeansGone, Hold, Idle, RulesOf
    <3> QED
      BY <2>0, <3>1, <3>2, <3>3 DEF EmptyMeansGone, NothingYet
  <2>10. CASE LoopCommit
    BY <2>0, <2>10 DEF LoopCommit, EmptyMeansGone, NothingYet, Idle
  <2>11. ASSUME NEW h \in Handlers, HttpLoad(h) PROVE EmptyMeansGone' /\ NothingYet'
    <3>1. /\ phase = "running" /\ UNCHANGED <<file, gone, phase, events, pending, loop, rs>>
          /\ \/ http' = http
             \/ file # Invalid /\ http' = [http EXCEPT ![h] = Hold(RulesOf(file))]
      BY <2>11 DEF HttpLoad, Loads
    <3>2. ASSUME NEW g \in Handlers, http'[g].at = "commit", http'[g].set = Empty PROVE gone
      <4>1. http'[g] = http[g] \/ (file # Invalid /\ http'[g] = Hold(RulesOf(file)))
        BY <2>0, <3>1 DEF TypeOK
      <4> QED
        BY <2>0, <2>1, <3>1, <3>2, <4>1 DEF EmptyMeansGone, Hold, RulesOf
    <3> QED
      BY <2>0, <3>1, <3>2 DEF EmptyMeansGone, NothingYet
  <2>12. ASSUME NEW h \in Handlers, HttpCommit(h) PROVE EmptyMeansGone' /\ NothingYet'
    <3>1. /\ http[h].at = "commit" /\ UNCHANGED <<file, gone, phase, events, pending, loop>>
          /\ http' = [http EXCEPT ![h] = Idle]
      BY <2>12 DEF HttpCommit
    <3>2. \A g \in Handlers : http'[g] = http[g] \/ http'[g] = Idle
      BY <2>0, <3>1 DEF TypeOK
    <3>3. phase # "new"
      BY <2>0, <3>1 DEF NothingYet, Idle
    <3> QED
      BY <2>0, <3>1, <3>2, <3>3 DEF EmptyMeansGone, NothingYet, Idle
  <2> QED
    BY <2>3, <2>4, <2>5, <2>6, <2>7, <2>8, <2>9, <2>10, <2>11, <2>12 DEF Next, LoopStep
<1> QED
  BY <1>1, <1>2

\* No sequence of edits, events and requests takes away the rules the proxy
\* enforces unless the file was absent (applyReload, ReloadNow, LoadFile).
THEOREM FailsClosed == ControlSpec => NeverFailsOpen
<1>1. ControlInit => DenyInv
  BY DenyInvInductive DEF ControlInit
<1>2. DenyInv /\ [ControlNext]_allVars => DenyInv'
  BY PartsStep, DenyInvInductive
<1>3. DenyInv /\ [ControlNext]_allVars => [rs # Empty /\ rs' = Empty => gone]_vars
  <2> SUFFICES ASSUME DenyInv, [Next]_vars, rs # Empty, rs' = Empty PROVE gone
    BY PartsStep
  <2>1. LoopCommit \/ (\E h \in Handlers : HttpCommit(h)) \/ New
    BY DEF Next, LoopStep, vars, Replace, Truncate, Fill, Remove, Change, MakeDir, Start,
       TakeEvent, TimerFires, HttpLoad
  <2> QED
    BY <2>1 DEF LoopCommit, HttpCommit, New, DenyInv, EmptyMeansGone, NothingYet
<1> QED
  BY <1>1, <1>2, <1>3, PTL DEF ControlSpec, NeverFailsOpen

-----------------------------------------------------------------------------
\* The types of every part.

\* Whatever the parts do, each keeps its types: no rule set but those of a file,
\* no rule but those of a writer, no more bytes than the volume has, no more keys
\* than the cap (dynamicdeny, mcp, profiles, audit, anomaly).
THEOREM ControlIsTyped == ControlSpec => []ControlTypeOK
<1>1. ControlInit => TypeOK /\ McpInv /\ McpTyped
  BY WatcherTypes, McpInvInductive, McpTypedInductive DEF ControlInit
<1>2. TypeOK /\ McpInv /\ McpTyped /\ [ControlNext]_allVars => TypeOK' /\ McpInv' /\ McpTyped'
  BY PartsStep, WatcherTypes, McpInvInductive, McpTypedInductive
<1>3. DiskP!DiskSpec => []DiskP!DiskTypeOK
  BY DiskAssumption, DiskP!VolumeIsNeverOverfull DEF DiskP!Numbers
<1>4. DetP!AnomalySpec => []DetP!AnomalyTypeOK
  BY DetectorAssumption, DetP!AnomalyIsTyped DEF DetP!Numbers
<1>5. Store!Spec => []Store!TypeOK
  BY StoreIsTyped
<1>6. TypeOK /\ McpTyped /\ Store!TypeOK /\ DiskP!DiskTypeOK /\ DetP!AnomalyTypeOK => ControlTypeOK
  BY SameDisk, SameDetector DEF ControlTypeOK, McpTyped
<1> QED
  BY <1>1, <1>2, <1>3, <1>4, <1>5, <1>6, PartsRun, PTL DEF ControlSpec
=============================================================================
