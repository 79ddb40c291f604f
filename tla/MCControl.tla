------------------------------ MODULE MCControl ------------------------------
(***************************************************************************)
(* What the proxy decides by, for TLC: the dynamic-denies file and its     *)
(* watcher (DynamicDeny, which this module extends), the MCP servers that  *)
(* write that file, profiles.yaml and the commands that write it, the      *)
(* disk-pressure breaker and the anomaly detector; and, on samples, the    *)
(* rules themselves, the scanners of bodies, and the configuration files   *)
(* the commands write.                                                     *)
(* They are checked side by side: a behaviour is a behaviour of one part,  *)
(* the others stay in one of their initial states.                         *)
(***************************************************************************)
EXTENDS DynamicDeny

CONSTANTS h1, h2, w1, w2, own, org

TwoHandlers == {h1, h2}
Everything  == AllSituations
TwoWriters  == {w1, w2}
TwoNames    == {own, org}

CONSTANTS
    Names, Writers, MaxCommands, MaxEdits, Servers, MaxAdds,
    Volumes, WarnPct, CritPct, EmergencyPct, WarnFree, CritFree, MaxAdmitted, MaxBurst, MaxArchives,
    Keys, Sensitive, MaxKeys, Window, Sigma, MinActions, DayHours, MaxClock, MaxRequests, MaxDeciding

\* The thresholds and the bounds of the disk-pressure breaker are numbers.
ASSUME DiskAssumption ==
    /\ Volumes \subseteq Nat
    /\ WarnPct \in Nat /\ CritPct \in Nat /\ EmergencyPct \in Nat
    /\ WarnFree \in Nat /\ CritFree \in Nat
    /\ MaxAdmitted \in Nat /\ MaxBurst \in Nat /\ MaxArchives \in Nat

\* So are the bounds of the commands and tools, and the detector's cap and window.
ASSUME StoreAssumption == MaxCommands \in Nat /\ MaxEdits \in Nat
ASSUME McpAssumption == MaxAdds \in Nat
ASSUME DetectorAssumption ==
    /\ MaxKeys \in Nat \ {0} /\ Window \in Nat \ {0} /\ MaxDeciding \in Nat \ {0}
    /\ MaxClock \in Nat /\ MaxRequests \in Nat

VARIABLES
    part,                                                       \* which one
    profiles, queue, writer, commands, edits, selfGrant, raced, granted, installed,
    denies, server, adds, late, clumsy, overlapped, standing,
    setup, other, active, archives, status, refusing, admitted, since, made, ticked,
    meddled, cut, lost,
    block, clock, rolling, lastSeen, deciding, requests, seen, seenAt, warm, excess,
    sample

Store == INSTANCE ProfileStore
Mcp   == INSTANCE McpServer
Rules == INSTANCE PolicySweep
Disk == INSTANCE DiskPressure WITH
            MaxInFlight <- MaxAdmitted, inflight <- admitted, disturbed <- meddled
Detector == INSTANCE Anomaly WITH MaxInFlight <- MaxDeciding, inflight <- deciding
McpConfig == INSTANCE McpConfig
Bundle == INSTANCE ConfigBundle
Denied == INSTANCE Denials
Scan == INSTANCE BodyScan

storeVars == <<profiles, queue, writer, commands, edits, selfGrant, raced, granted, installed>>
mcpVars   == <<denies, server, adds, late, clumsy, overlapped, standing>>
diskVars  == <<setup, other, active, archives, status, refusing, admitted, since, made, ticked,
               meddled, cut, lost>>
detectorVars == <<block, clock, rolling, lastSeen, deciding, requests, seen, seenAt, warm, excess>>
allVars   == <<part, vars, storeVars, mcpVars, diskVars, detectorVars, sample>>

ControlInit ==
    /\ part \in {"watcher", "mcp", "profiles", "disk", "detector", "samples"}
    /\ Init /\ Store!Init /\ Mcp!McpInit /\ Disk!DiskInit /\ Detector!AnomalyInit
    /\ part # "watcher" => dir
    /\ part # "profiles" => DOMAIN profiles.all = {} /\ ~selfGrant
    /\ part # "mcp" => ~denies.there
    /\ part # "disk" => setup.mode = "pause-requests" /\ setup.ignore /\ ~setup.mitm /\ other = 0
    /\ part = "disk" => other \in {0, 3, 8} /\ (setup.ignore => setup.mode = "pause-requests")
    /\ part # "detector" => ~block
    /\ IF part = "samples"
       THEN sample \in Rules!Samples \cup McpConfig!ConfigSamples \cup Bundle!BundleSamples
                           \cup Denied!DenialSamples \cup Scan!ScanSamples
       ELSE sample = [kind |-> "none"]

ControlNext ==
    /\ UNCHANGED <<part, sample>>
    /\ \/ part = "watcher" /\ Next /\ UNCHANGED <<storeVars, mcpVars, diskVars, detectorVars>>
       \/ part = "mcp" /\ Mcp!McpNext /\ UNCHANGED <<vars, storeVars, diskVars, detectorVars>>
       \/ part = "profiles" /\ Store!Next /\ UNCHANGED <<vars, mcpVars, diskVars, detectorVars>>
       \/ part = "disk" /\ Disk!DiskNext /\ UNCHANGED <<vars, storeVars, mcpVars, detectorVars>>
       \/ part = "detector" /\ Detector!AnomalyNext
             /\ UNCHANGED <<vars, storeVars, mcpVars, diskVars>>

ControlSpec == ControlInit /\ [][ControlNext]_allVars /\ Fairness

\* Every part keeps its types: a rule set is one the loader accepts, the rules of
\* a file those of its writers, the volume is never more than full, no more keys
\* are tracked than the cap.
ControlTypeOK ==
    /\ TypeOK /\ Store!TypeOK /\ Mcp!McpTypeOK
    /\ part = "disk" => Disk!DiskTypeOK
    /\ part = "detector" => Detector!AnomalyTypeOK

\* What a command that wrote profiles.yaml reported done stays, as long as no two
\* commands overlap, whatever fails or is killed in between.
WritesStay == Store!WritesStay

\* No interleaving of the commands puts a local rule into an installed profile, or
\* an agent's request into the file without the operator's opt-in.
GrantsGenuine == Store!GrantsGenuine

\* The rules of the dynamic-denies file are those the MCP tools acknowledged and
\* nobody removed, as long as calls do not overlap, and they are enforced until
\* they expire if every duration given is one the loader accepts.
AcknowledgedDeniesStand == Mcp!AcknowledgedDeniesStand

\* Requests stop early enough for the rows of those admitted, and archives go
\* oldest first and no more of them than needed.
DiskPressureIsHandled == part = "disk" => Disk!DiskPressureIsHandled

\* The baseline is what was observed, the keys are bounded, and a burst exceeds
\* the score by no more than was in flight.
AnomalyIsBounded == part = "detector" => Detector!AnomalyIsBounded

\* Both parsers of deny_hosts and the generator's rules keep the meaning of what
\* the operator wrote, and a verdict without decryption depends on nothing that
\* only decryption shows.
RulesMeanWhatTheySay == Rules!RulesMeanWhatTheySay

\* The scanners' verdicts have the evidence they need, and a strip takes out what
\* was found and nothing else.
ScansHold == Scan!ScansHold(sample)

\* Installing the MCP entry loses nothing of the client's file; a bundle travels
\* and is on record; a preset's hard values stay; the denials of the window are
\* listed.
ConfigsAreSound ==
    /\ sample.kind = "mcp config" => McpConfig!InstallKeepsTheRest(sample)
    /\ sample.kind \in {"bundle", "commands", "preset"} => Bundle!BundlesAreSound(sample)
    /\ sample.kind \in {"since", "denials"} => Denied!DenialsAreListed(sample)
=============================================================================
