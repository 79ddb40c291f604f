------------------------------ MODULE Anomaly ------------------------------
(***************************************************************************)
(* The anomaly detector (internal/anomaly, wired by                        *)
(* internal/proxy/anomaly_wire.go): a baseline of observations per key (an *)
(* agent, its action and the pattern of the resource), a score of a        *)
(* request against it, a decision before the request when the mode is      *)
(* block, and the observation after it.  Between the two the request is    *)
(* with the upstream, and others of the same key are decided on the same   *)
(* baseline.  Time is counted in hours, the window in which RecentRate     *)
(* counts; a distance in standard deviations is compared as integers, both *)
(* sides squared and multiplied out.                                       *)
(***************************************************************************)
EXTENDS Integers, FiniteSetsExt

CONSTANTS
    Keys,         \* keys that requests may have
    Sensitive,    \* those whose text holds a known adversarial action
    MaxKeys,      \* maxDistinctKeys
    Window,       \* windowSeconds, in hours
    Sigma,        \* SigmaThreshold
    MinActions,   \* MinActionsForBaseline
    DayHours,     \* hours in a day
    MaxClock,     \* bound: hours
    MaxRequests,  \* bound: requests
    MaxInFlight   \* bound: requests of a key between decision and observation

VARIABLES
    block,     \* the mode is block, not alert
    clock,
    rolling,   \* of each tracked key: its observations of each hour
    lastSeen,  \* of each tracked key: when it was observed last
    inflight,  \* of each key: requests decided and not yet observed
    requests,  \* requests so far
    seen,      \* history: of each key, the observations since it was evicted
    seenAt,    \* history: of each key, when it was observed last, -1 for never
    warm,      \* history: of each key, requests let through on a warm baseline
    excess     \* history: the most of them in an hour beyond what the score allows

anomalyVars == <<block, clock, rolling, lastSeen, inflight, requests, seen, seenAt, warm, excess>>

Hours   == 0..MaxClock
Nothing == [t \in Hours |-> 0]
Tracked == DOMAIN rolling

Observations(k) == IF k \in Tracked THEN rolling[k] ELSE Nothing
Total(obs, from) ==
    LET upTo[t \in Hours] == (IF t = 0 THEN 0 ELSE upTo[t-1]) + (IF t >= from THEN obs[t] ELSE 0)
    IN  upTo[MaxClock]

AnomalyTypeOK ==
    /\ block \in BOOLEAN /\ clock \in Hours
    /\ Tracked \subseteq Keys /\ \A k \in Tracked : rolling[k] \in [Hours -> 0..MaxRequests]
    /\ lastSeen \in [Tracked -> Hours]
    /\ inflight \in [Keys -> 0..MaxInFlight] /\ requests \in 0..MaxRequests
    /\ seen \in [Keys -> [Hours -> 0..MaxRequests]] /\ seenAt \in [Keys -> Hours \cup {-1}]
    /\ warm \in [Keys -> [Hours -> 0..MaxRequests]] /\ excess \in 0..MaxRequests

AnomalyInit ==
    /\ block \in BOOLEAN /\ clock = 0
    /\ rolling = [k \in {} |-> Nothing] /\ lastSeen = [k \in {} |-> 0]
    /\ inflight = [k \in Keys |-> 0] /\ requests = 0
    /\ seen = [k \in Keys |-> Nothing] /\ seenAt = [k \in Keys |-> -1]
    /\ warm = [k \in Keys |-> Nothing] /\ excess = 0

-----------------------------------------------------------------------------
\* The score.

\* Mutant of RecentRate: the mean of the window stands for the last hour.
RecentRateMean(k) == Total(Observations(k), clock - Window) \div Window

\* RecentRate: the observations of the last hour.
RecentRate(k) == Total(Observations(k), clock - 1)

\* Power(2, n), for the decayed dimensions: weights halve with every hour here.
Weight(age) == IF age = 0 THEN 1 ELSE FoldSet(LAMBDA i, p : 2 * p, 1, 1..age)

\* SummaryFor, one of the two pairs of dimensions: the weighted count of the
\* window, and the first and second moments of the hours of the day; scale is
\* the weight of an observation made now.
Summary(k, decayed) ==
    LET scale == IF decayed THEN Weight(Window) ELSE 1
        w == [t \in Hours |->
                Observations(k)[t] * (IF decayed THEN Weight(Window - (clock - t)) ELSE 1)]
        sum(f) == Total([t \in Hours |-> w[t] * f[t]], clock - Window)
    IN [scale |-> scale, count |-> sum([t \in Hours |-> 1]),
        hours |-> sum([t \in Hours |-> t % DayHours]),
        squares |-> sum([t \in Hours |-> (t % DayHours) * (t % DayHours)])]

\* ZScore of action_frequency: the mean is count per hour of the window, the
\* variance the mean.
FrequencyDeviates(s, rate) ==
    LET far == rate * s.scale * Window - s.count
    IN s.count > 0 /\ far * far >= Sigma * Sigma * s.count * s.scale * Window

\* ZScore of hour_of_day: no variance, and any other hour is infinitely far.
HourDeviates(s) ==
    LET far == (clock % DayHours) * s.count - s.hours
    IN s.count > 0 /\ far # 0
       /\ far * far >= Sigma * Sigma * (s.count * s.squares - s.hours * s.hours)

\* ScoreAnomaly: below the minimum only the backstop for known adversarial
\* actions speaks, and it alone is above every preset's band; above it the
\* dimension that deviates most.
ScoreAnomaly(k, rate) ==
    IF Total(Observations(k), clock - Window) < MinActions
    THEN IF k \in Sensitive THEN "anomalous" ELSE "insufficient_data"
    ELSE IF \E decayed \in BOOLEAN : LET s == Summary(k, decayed)
                                     IN FrequencyDeviates(s, rate) \/ HourDeviates(s)
         THEN "anomalous" ELSE "normal"

-----------------------------------------------------------------------------
\* The baseline.

\* Mutant of Victim: the key observed last is evicted.
VictimNewest == CHOOSE k \in Tracked : \A j \in Tracked : lastSeen[k] >= lastSeen[j]

\* evictForCapLocked: the least recently observed; of equals, any.
Victim == CHOOSE k \in Tracked : \A j \in Tracked : lastSeen[k] <= lastSeen[j]

\* Observe: makes room for a new key, appends, and prunes what the window has
\* left behind.
Observe(k) ==
    LET full  == k \notin Tracked /\ Cardinality(Tracked) >= MaxKeys
        kept  == IF full THEN Tracked \ {Victim} ELSE Tracked
        obs   == [Observations(k) EXCEPT ![clock] = @ + 1]
        fresh == [t \in Hours |-> IF t >= clock - Window THEN obs[t] ELSE 0]
        past(f) == IF full THEN [f EXCEPT ![Victim] = Nothing] ELSE f
    IN /\ rolling' = [j \in kept \cup {k} |-> IF j = k THEN fresh ELSE rolling[j]]
       /\ lastSeen' = [j \in kept \cup {k} |-> IF j = k THEN clock ELSE lastSeen[j]]
       /\ seen' = [past(seen) EXCEPT ![k][clock] = @ + 1]
       /\ warm' = past(warm)
       /\ seenAt' = [seenAt EXCEPT ![k] = clock]

\* The largest rate that a baseline lets through, whatever the hour says.
Allowed(k) ==
    LET fine == {r \in 0..MaxRequests : ~FrequencyDeviates(Summary(k, FALSE), r)
                                        /\ ~FrequencyDeviates(Summary(k, TRUE), r)}
    IN IF fine = {} THEN 0 ELSE Max(fine)

\* decideAnomaly and Decide: asked only of what the rules allow, and only in
\* block mode; a request it denies is observed like any other.
Decide(k) ==
    /\ requests < MaxRequests /\ requests' = requests + 1
    /\ LET verdict == IF block THEN ScoreAnomaly(k, RecentRate(k)) ELSE "not asked" IN
       IF verdict = "anomalous"
       THEN Observe(k) /\ UNCHANGED <<inflight, excess>>
       ELSE /\ inflight[k] < MaxInFlight
            /\ inflight' = [inflight EXCEPT ![k] = @ + 1]
            /\ warm' = IF verdict = "normal" THEN [warm EXCEPT ![k][clock] = @ + 1] ELSE warm
            /\ excess' = IF verdict # "normal" THEN excess
                         ELSE Max({excess, Total(warm'[k], clock - 1) - (Allowed(k) + 1)})
            /\ UNCHANGED <<rolling, lastSeen, seen, seenAt>>
    /\ UNCHANGED <<block, clock>>

\* recordDecision's tap: observeAnomaly and Run, once the request has ended.  An
\* alert of Run changes nothing here.
Finish(k) ==
    /\ inflight[k] > 0 /\ inflight' = [inflight EXCEPT ![k] = @ - 1]
    /\ Observe(k)
    /\ UNCHANGED <<block, clock, requests, excess>>

\* A request that a rule denies is observed too, and never scored.
RuleDenies(k) ==
    /\ requests < MaxRequests /\ requests' = requests + 1
    /\ Observe(k)
    /\ UNCHANGED <<block, clock, inflight, excess>>

Hour == clock < MaxClock /\ clock' = clock + 1
        /\ UNCHANGED <<block, rolling, lastSeen, inflight, requests, seen, seenAt, warm, excess>>

AnomalyNext == Hour \/ \E k \in Keys : Decide(k) \/ Finish(k) \/ RuleDenies(k)

AnomalySpec == AnomalyInit /\ [][AnomalyNext]_anomalyVars

-----------------------------------------------------------------------------
\* Properties.

\* The baseline of a key is what was observed of it within the window since the
\* key was last evicted, nothing less and nothing twice; the number of keys is
\* bounded, and no key that is forgotten was observed after one that is kept.
BaselineIsTheWindow ==
    /\ Cardinality(Tracked) <= MaxKeys
    /\ \A k \in Tracked : \A t \in Hours :
          t >= clock - Window => rolling[k][t] = seen[k][t]
    /\ \A k \in Tracked, j \in Keys \ Tracked : seenAt[j] <= seenAt[k]

\* In block mode, once a key has a baseline, the requests of it let through in
\* an hour exceed what the score allows by no more than were in flight at once:
\* each was decided before some of the others had been observed.
BurstsAreBounded == excess <= MaxInFlight - 1

AnomalyIsBounded == BaselineIsTheWindow /\ BurstsAreBounded
=============================================================================
