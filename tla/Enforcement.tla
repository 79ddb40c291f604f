---------------------------- MODULE Enforcement ----------------------------
(***************************************************************************)
(* What the proxy does with a request (internal/proxy: proxy.go and        *)
(* mitm_handler.go) while the rules it decides by are swapped under it:    *)
(* the profile by SetActiveProfile, the dynamic denies by their watcher,   *)
(* the disk-pressure pause by its loop.                                    *)
(*                                                                         *)
(* One client is one connection handled by one goroutine.  A request is    *)
(* forwarded to the configured upstream, tunnelled (CONNECT), or, in MITM  *)
(* mode, a CONNECT whose decrypted requests are decided one by one.  Rules *)
(* are matched by identity here: a host or a class of requests either is   *)
(* what a rule names or is not.                                            *)
(*                                                                         *)
(* profileMu guards the writer only; the handlers read the rule slices     *)
(* without it.  Such a read may return what was in force at any time since *)
(* the request came, or a mix of the words of two slices; see Reads.       *)
(***************************************************************************)
EXTENDS Integers, Sequences

CONSTANTS
    Clients,    \* connections
    Hosts,      \* hosts a client can name and the proxy can be told to deny
    Classes,    \* what the profile's deny_rules and allow_rules tell apart
    NoHost,     \* stands for a missing upstream, or an empty CONNECT target
    CliDenies,  \* --deny-host and --deny-hosts-file, in order
    Profiles,   \* the profiles an operator writes
    NoProfile,  \* the profile when none is selected
    MaxRequests,\* bound: requests of one client, decrypted ones included
    MaxChanges  \* bound: changes of the rules and of the pause

ASSUME EnforcementAssumption ==
    /\ NoHost \notin Hosts
    /\ CliDenies \in Seq(Hosts)
    /\ \A p \in Profiles : /\ p.deny \in Seq(Hosts) /\ p.denyRules \in Seq(Classes)
                           /\ p.allowRules \in Seq(Classes)
                           /\ p.translates \in BOOLEAN /\ p.scans \in BOOLEAN
    /\ NoProfile \notin Profiles
    /\ MaxRequests \in Nat /\ MaxChanges \in Nat

VARIABLES
    cfg,      \* Config: mode, upstream, allow-connect, block mode of the detector
    phase,    \* "configured" after NewServer, "serving" after Serve
    active,   \* Server.activeProfile; before Serve, the one the CLI resolved
    rules,    \* Server.denyHosts, mitmRules and mitmAllowRules
    dyn,      \* the hosts of the watcher's snapshot
    refuse,   \* DiskPressureState.RefuseRequests
    changes,  \* how many changes have been made
    conn      \* of each client, its connection; see Fresh

vars == <<cfg, phase, active, rules, dyn, refuse, changes, conn>>
ruleVars == <<cfg, phase, active, rules, dyn, refuse, changes>>

Places == {"idle", "check", "decide", "dial", "dialed", "hijack", "tunnel",
           "splice", "tls", "open", "allow", "rules", "body", "send", "reply",
           "refused", "report", "done"}

Answers == {"none", "paused", "denied", "error", "ok"}

\* window, torn, dialed and rows speak of the current request.
Fresh == [at       |-> "idle",
          kind     |-> "forward",
          host     |-> NoHost,
          class    |-> "none",
          requests |-> 0,
          window   |-> {},     \* history: the policies in force until the decision
          torn     |-> FALSE,  \* history: a read of the rules was torn
          dialed   |-> FALSE,  \* an upstream was contacted
          answer   |-> "none",
          rows     |-> <<>>]   \* the verdicts of its audit rows

Configs == {g \in [mode : {"discovery", "mitm"}, upstream : Hosts \cup {NoHost},
                   connect : BOOLEAN, block : BOOLEAN] : g.upstream # NoHost \/ g.connect}

Rules == [deny : Seq(Hosts), mitmDeny : Seq(Classes), mitmAllow : Seq(Classes)]

Policies == [rules : Rules, dyn : SUBSET Hosts]

Connections == [at : Places, kind : {"forward", "connect", "inner"},
                host : Hosts \cup {NoHost}, class : Classes \cup {"none"},
                requests : 0..MaxRequests, window : SUBSET Policies,
                torn : BOOLEAN, dialed : BOOLEAN, answer : Answers,
                rows : Seq({"ALLOW", "DENY", "ERROR"})]

TypeOK ==
    /\ cfg \in Configs
    /\ phase \in {"configured", "serving"}
    /\ active \in Profiles \cup {NoProfile}
    /\ rules \in Rules
    /\ dyn \subseteq Hosts
    /\ refuse \in BOOLEAN
    /\ changes \in 0..MaxChanges
    /\ conn \in [Clients -> Connections]

-----------------------------------------------------------------------------
\* Rules.

\* Mutant of Compile: two lists are swapped.
CompileSwapped(p) == [deny |-> p.denyRules, mitmDeny |-> p.deny, mitmAllow |-> p.allowRules]

Compile(p) == [deny |-> p.deny, mitmDeny |-> p.denyRules, mitmAllow |-> p.allowRules]

\* What NewServer gets from the CLI: its own denies first, then the profile's;
\* the finer rules only in MITM mode.
Configured(mode, p) ==
    LET known == p # NoProfile IN
    [deny      |-> CliDenies \o (IF known THEN p.deny ELSE <<>>),
     mitmDeny  |-> IF known /\ mode = "mitm" THEN p.denyRules ELSE <<>>,
     mitmAllow |-> IF known /\ mode = "mitm" THEN p.allowRules ELSE <<>>]

Init ==
    /\ cfg \in Configs
    /\ phase = "configured"
    /\ active \in {p \in Profiles : p.translates} \cup {NoProfile}
    /\ rules = Configured(cfg.mode, active)
    /\ dyn = {} /\ refuse = FALSE /\ changes = 0
    /\ conn = [c \in Clients |-> Fresh]

Policy(r, d) == [rules |-> r, dyn |-> d]

\* A request whose decision is still to be made sees every later change.
Deciding == {"check", "allow", "rules"}

Witness(r, d) ==
    conn' = [c \in Clients |->
               IF conn[c].at \in Deciding
               THEN [conn[c] EXCEPT !.window = @ \cup {Policy(r, d)}]
               ELSE conn[c]]

\* Mutant of SetActiveProfile: the deny hosts are assigned before the other
\* rules have been parsed.
SetActiveProfileEarly(p) ==
    /\ active' = (IF p.translates THEN p ELSE active)
    /\ rules' = IF p.translates THEN Compile(p) ELSE [rules EXCEPT !.deny = p.deny]

\* Nothing changes when a rule of the profile does not parse.
SetActiveProfile(p) ==
    /\ active' = (IF p.translates THEN p ELSE active)
    /\ rules' = IF p.translates THEN Compile(p) ELSE rules

\* The rest of the run command: the profile is installed once more, by itself.
Serve ==
    /\ phase = "configured"
    /\ phase' = "serving"
    /\ IF active = NoProfile THEN UNCHANGED <<active, rules>> ELSE SetActiveProfile(active)
    /\ UNCHANGED <<cfg, dyn, refuse, changes, conn>>

MayChange == phase = "serving" /\ changes < MaxChanges /\ changes' = changes + 1

\* POST /admin/profile/reload, with what profiles.yaml holds for the name at
\* that moment; without an active profile it does nothing.
ReloadProfile ==
    /\ MayChange /\ active # NoProfile
    /\ \E p \in Profiles : SetActiveProfile(p)
    /\ Witness(rules', dyn)
    /\ UNCHANGED <<cfg, phase, dyn, refuse>>

\* The watcher commits another snapshot (module DynamicDeny).
ReloadDynamic ==
    /\ MayChange
    /\ \E d \in SUBSET Hosts : dyn' = d /\ Witness(rules, d)
    /\ UNCHANGED <<cfg, phase, active, rules, refuse>>

DiskPressure ==
    /\ MayChange
    /\ refuse' = ~refuse
    /\ UNCHANGED <<cfg, phase, active, rules, dyn, conn>>

-----------------------------------------------------------------------------
\* Steps of a request.

\* Connection c stands at place, and becomes r.
Step(c, place, r) ==
    /\ conn[c].at = place
    /\ conn' = [conn EXCEPT ![c] = r]
    /\ UNCHANGED ruleVars

In(x, list) == \E i \in DOMAIN list : list[i] = x

\* An unsynchronised read during swaps among lists gets the array of one with
\* the length of one.  A length beyond the array is not considered: what such a
\* read returns is anything.
Reads(lists) ==
    UNION {{SubSeq(l, 1, Len(m)) : m \in {x \in lists : Len(x) <= Len(l)}} : l \in lists}

\* Where the goroutine goes when a request is over: to the next one of the
\* decrypted stream, or back to the HTTP server.
Back(r) == IF r.kind = "inner" THEN "open" ELSE "done"

\* An error of the network: answered and recorded under verdict ALLOW.
Failed(r) == [r EXCEPT !.answer = "error", !.rows = Append(@, "ALLOW"), !.at = Back(r)]

\* A policy refused: recordDeny and its like run before the answer is written.
Refused(r) == [r EXCEPT !.rows = Append(@, "DENY"), !.at = "refused"]

\* The hosts deny_hosts is asked about: what the client named and, when
\* forwarding, also what the proxy would dial.
Targets(r) ==
    (IF r.kind = "forward" THEN {r.host, cfg.upstream} ELSE {r.host}) \ {NoHost}

\* handle: the pause comes before everything else, and is not audited.
Pause(c) ==
    /\ phase = "serving" /\ refuse /\ conn[c].requests < MaxRequests
    /\ conn[c].at \in {"idle", "done"}
    /\ Step(c, conn[c].at, [Fresh EXCEPT !.requests = conn[c].requests + 1,
                                         !.answer = "paused", !.at = "done"])

\* Mutant of Rejected: a request the configuration rules out counts as denied.
RejectedAsDeny(r) ==
    [r EXCEPT !.answer = "error", !.at = "done",
              !.rows = <<IF r.kind = "forward" THEN "DENY" ELSE "ALLOW">>]

\* A request the configuration rules out.
Rejected(r) ==
    [r EXCEPT !.answer = "error", !.at = "done",
              !.rows = <<IF r.kind = "forward" THEN "ERROR" ELSE "ALLOW">>]

Arrival(c, kind, host) ==
    [Fresh EXCEPT !.requests = conn[c].requests + 1, !.kind = kind, !.host = host,
                  !.window = {Policy(rules, dyn)}, !.at = "check"]

Impossible(r) ==
    \/ r.kind = "forward" /\ cfg.upstream = NoHost
    \/ r.kind = "connect" /\ r.host = NoHost
    \/ r.kind = "connect" /\ cfg.mode = "discovery" /\ ~cfg.connect

Accept(c) ==
    /\ phase = "serving" /\ ~refuse /\ conn[c].requests < MaxRequests
    /\ conn[c].at \in {"idle", "done"}
    /\ \E kind \in {"forward", "connect"}, host \in Hosts \cup {NoHost} :
         LET r == Arrival(c, kind, host)
         IN Step(c, conn[c].at, IF Impossible(r) THEN Rejected(r) ELSE r)

\* The place after deny_hosts: MITM mode does not ask the detector.
Passed(r) == IF r.kind = "connect" /\ cfg.mode = "mitm" THEN "hijack" ELSE "decide"

\* Mutant of Check: the dynamic rules are forgotten.
CheckStaticOnly(c) ==
    LET r == conn[c]
        lists == {w.rules.deny : w \in r.window}
    IN \E list \in Reads(lists) :
         LET s == [r EXCEPT !.torn = list \notin lists]
         IN Step(c, "check", IF \E t \in Targets(r) : In(t, list)
                             THEN Refused(s) ELSE [s EXCEPT !.at = Passed(r)])

\* effectiveDenyRules and MatchDenyHosts: the dynamic rules are one pointer,
\* the static ones a slice.
Check(c) ==
    LET r == conn[c]
        lists == {w.rules.deny : w \in r.window}
    IN \E w \in r.window, list \in Reads(lists) :
         LET s == [r EXCEPT !.torn = list \notin lists]
             hit == \E t \in Targets(r) : In(t, list) \/ t \in w.dyn
         IN Step(c, "check", IF hit THEN Refused(s) ELSE [s EXCEPT !.at = Passed(r)])

\* The refusal is written to the client.
Refuse(c) == Step(c, "refused", [conn[c] EXCEPT !.answer = "denied", !.at = Back(conn[c])])

\* decideAnomaly: any request may look anomalous; only block mode refuses it.
Decide(c) ==
    \/ Step(c, "decide", [conn[c] EXCEPT !.at = "dial"])
    \/ cfg.block /\ Step(c, "decide", Refused(conn[c]))

\* Mutant of Dial: a dial that fails is not recorded.
DialFailsSilently(c) ==
    LET r == [conn[c] EXCEPT !.dialed = TRUE] IN
    \/ Step(c, "dial", [r EXCEPT !.at = "dialed"])
    \/ Step(c, "dial", [r EXCEPT !.answer = "error", !.at = Back(r)])

Dial(c) ==
    LET r == [conn[c] EXCEPT !.dialed = TRUE] IN
    \/ Step(c, "dial", [r EXCEPT !.at = "dialed"])
    \/ Step(c, "dial", Failed(r))

\* handleForward: the response is copied, then recorded.
Forward(c) ==
    /\ conn[c].kind = "forward"
    /\ Step(c, "dialed", [conn[c] EXCEPT !.answer = "ok", !.rows = Append(@, "ALLOW"),
                                         !.at = "done"])

-----------------------------------------------------------------------------
\* CONNECT.

\* The connection is hijacked and told 200, or one of the two fails.  When the
\* client has gone before the 200, MITM mode leaves no row.
Establish(c) ==
    LET r == conn[c] IN
    /\ r.kind = "connect" /\ r.at \in {"dialed", "hijack"}
    /\ \/ Step(c, r.at, Failed(r))
       \/ Step(c, r.at, [r EXCEPT !.at = "done",
                                  !.rows = IF r.at = "dialed" THEN <<"ALLOW">> ELSE <<>>])
       \/ Step(c, r.at, [r EXCEPT !.answer = "ok", !.at = "tunnel"])

\* Mutant of RecordTunnel: the bytes flow first.
RecordTunnelLate(c) ==
    Step(c, "tunnel", [conn[c] EXCEPT !.at = IF cfg.mode = "mitm" THEN "tls" ELSE "splice"])

\* The row of the CONNECT is written before any byte flows.
RecordTunnel(c) ==
    Step(c, "tunnel", [conn[c] EXCEPT !.rows = Append(@, "ALLOW"),
                                      !.at = IF cfg.mode = "mitm" THEN "tls" ELSE "splice"])

Close(c) == \E place \in {"splice", "open"} : Step(c, place, [conn[c] EXCEPT !.at = "done"])

-----------------------------------------------------------------------------
\* MITM: the decrypted requests of a connection.

Handshake(c) ==
    \E place \in {"open", "done"} : Step(c, "tls", [conn[c] EXCEPT !.at = place])

\* The next request of the stream; deny_hosts and the pause are not asked again.
Decrypted(c) ==
    /\ conn[c].requests < MaxRequests
    /\ \E class \in Classes :
         Step(c, "open", [Fresh EXCEPT !.requests = conn[c].requests + 1,
                                       !.kind = "inner", !.host = conn[c].host,
                                       !.class = class, !.window = {Policy(rules, dyn)},
                                       !.at = "allow"])

\* FirstAllowMatch over mitmAllowRules.
AllowRules(c) ==
    LET r == conn[c]
        lists == {w.rules.mitmAllow : w \in r.window}
    IN \E list \in Reads(lists) :
         Step(c, "allow", [r EXCEPT !.torn = list \notin lists,
                                    !.at = IF In(r.class, list) THEN "body" ELSE "rules"])

\* FirstMatch over mitmRules, read later than the allow rules.
DenyRules(c) ==
    LET r == conn[c]
        lists == {w.rules.mitmDeny : w \in r.window}
    IN \E list \in Reads(lists) :
         LET s == [r EXCEPT !.torn = @ \/ list \notin lists]
         IN Step(c, "rules", IF In(r.class, list) THEN Refused(s) ELSE [s EXCEPT !.at = "body"])

\* A scanner refused: here the answer comes before the row.
Scanned(r) == [r EXCEPT !.answer = "denied", !.at = "report"]

Scanning == active # NoProfile /\ active.scans

\* The body is read and the tool-call validator looks at it.
Body(c) ==
    \/ Step(c, "body", Failed(conn[c]))
    \/ Scanning /\ Step(c, "body", Scanned(conn[c]))
    \/ Step(c, "body", [conn[c] EXCEPT !.at = "send"])

\* The upstream is dialed and the request written to it.
Send(c) ==
    LET r == [conn[c] EXCEPT !.dialed = TRUE] IN
    \/ Step(c, "send", Failed(r))
    \/ Step(c, "send", [r EXCEPT !.at = "reply"])

\* The response is read, scanned, and written to the client.
Reply(c) ==
    \/ Step(c, "reply", Failed(conn[c]))
    \/ Scanning /\ Step(c, "reply", Scanned(conn[c]))
    \/ Step(c, "reply", [conn[c] EXCEPT !.answer = "ok", !.at = "report"])

Report(c) ==
    LET verdict == IF conn[c].answer = "denied" THEN "DENY" ELSE "ALLOW"
    IN Step(c, "report", [conn[c] EXCEPT !.rows = Append(@, verdict), !.at = "open"])

-----------------------------------------------------------------------------
Handle(c) ==
    \/ Pause(c) \/ Accept(c) \/ Check(c) \/ Refuse(c) \/ Decide(c) \/ Dial(c)
    \/ Forward(c) \/ Establish(c) \/ RecordTunnel(c) \/ Close(c) \/ Handshake(c)
    \/ Decrypted(c) \/ AllowRules(c) \/ DenyRules(c) \/ Body(c) \/ Send(c)
    \/ Reply(c) \/ Report(c)

Next ==
    \/ Serve \/ ReloadProfile \/ ReloadDynamic \/ DiskPressure
    \/ \E c \in Clients : Handle(c)

Spec == Init /\ [][Next]_vars

-----------------------------------------------------------------------------
\* Properties.

Allows(rs, class) == In(class, rs.mitmAllow) \/ ~In(class, rs.mitmDeny)

\* No upstream is contacted for a request that every policy in force while it
\* was being decided refuses, however the swaps fall between the reads: static
\* and dynamic denies each let it pass at some moment, and a decrypted request
\* is allowed by the rules of one profile, not by the allow rules of one and
\* the deny rules of another.  A torn read can break this (see README).
DialsArePermitted ==
    \A c \in Clients : LET r == conn[c] IN
        r.dialed /\ ~r.torn =>
            IF r.kind = "inner" THEN \E w \in r.window : Allows(w.rules, r.class)
            ELSE /\ \E w \in r.window : \A t \in Targets(r) : ~In(t, w.rules.deny)
                 /\ \E w \in r.window : Targets(r) \cap w.dyn = {}

\* The audit trail is complete and says what happened: a request that reached
\* an upstream or got an answer has one row, a DENY row belongs to a refusal
\* and a refusal has a DENY row.  Only the disk-pressure pause, and a client
\* that left before its tunnel stood, leave nothing.
RowsTellTheOutcome ==
    \A c \in Clients : LET r == conn[c] IN
        r.at \in {"done", "open", "splice", "tls"} =>
            /\ Len(r.rows) <= 1
            /\ r.dialed \/ r.answer \notin {"none", "paused"} => Len(r.rows) = 1
            /\ r.answer = "denied" <=> r.rows = <<"DENY">>

\* "Audit the CONNECT decision *before* the blind splice begins": no byte flows
\* through a tunnel, and no rule's refusal is answered, before its row exists.
RecordedFirst ==
    \A c \in Clients : conn[c].at \in {"splice", "tls", "refused"} => conn[c].rows # <<>>

\* Without block mode a forwarded or tunnelled request is recorded as denied
\* only if some deny rule in force meanwhile names one of its hosts.
DeniedOnlyByRule ==
    \A c \in Clients : LET r == conn[c] IN
        ~cfg.block /\ r.kind # "inner" /\ r.rows = <<"DENY">> =>
            \E w \in r.window, t \in Targets(r) : In(t, w.rules.deny) \/ t \in w.dyn

\* A reload that fails leaves everything as it was: the enforced lists are
\* always those of the profile the server reports as active.
SwapIsAllOrNothing ==
    phase = "serving" /\ active # NoProfile => rules = Compile(active)

\* cli.go on a profile's deny_hosts: "union semantics; CLI denies always apply".
CliDeniesAlwaysApply ==
    \A c \in Clients : LET r == conn[c] IN
        r.dialed /\ ~r.torn => \A t \in Targets(r) : ~In(t, CliDenies)
=============================================================================
