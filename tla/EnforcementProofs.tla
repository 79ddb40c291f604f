------------------------- MODULE EnforcementProofs -------------------------
(***************************************************************************)
(* Proofs about Enforcement, for every set of clients, hosts, profiles and *)
(* every number of requests and changes.  The inductive invariant says, of *)
(* each place a connection can stand at, what its row, its answer and its  *)
(* window must be.                                                         *)
(***************************************************************************)
EXTENDS Enforcement, TLAPS

\* The verdicts, answer and kind that go with a place.
Told(r) ==
    \/ r.rows = <<"DENY">> /\ r.answer = "denied"
    \/ r.rows \in {<<"ALLOW">>, <<"ERROR">>} /\ r.answer # "denied"
    \/ r.rows = <<>> /\ ~r.dialed /\ r.answer \in {"none", "paused"}

Untold(r) == r.rows = <<>> /\ r.answer = "none"

Progress(r) ==
    /\ r.at \in {"check", "decide", "dial", "hijack"} =>
           r.kind # "inner" /\ Untold(r) /\ ~r.dialed
    /\ r.at \in {"allow", "rules", "body", "send"} =>
           r.kind = "inner" /\ Untold(r) /\ ~r.dialed
    /\ r.at = "dialed" => r.kind # "inner" /\ Untold(r)
    /\ r.at = "reply" => r.kind = "inner" /\ Untold(r)
    /\ r.at = "tunnel" => r.kind = "connect" /\ r.rows = <<>> /\ r.answer = "ok"
    /\ r.at = "report" => r.kind = "inner" /\ r.rows = <<>> /\ r.answer \in {"denied", "ok"}
    /\ r.at = "refused" => r.rows = <<"DENY">> /\ r.answer = "none" /\ ~r.dialed
    /\ r.at \in {"splice", "tls"} => r.kind = "connect" /\ r.rows = <<"ALLOW">> /\ r.answer = "ok"
    /\ r.at \in {"done", "open"} => Told(r)

HostsPass(r) ==
    /\ \E w \in r.window : \A t \in Targets(r) : ~In(t, w.rules.deny)
    /\ \E w \in r.window : Targets(r) \cap w.dyn = {}

ClassPasses(r) == \E w \in r.window : Allows(w.rules, r.class)

\* Past the decision, or once an upstream was dialed, the window permits it.
Permission(r) ==
    ~r.torn =>
    /\ r.kind # "inner" /\ (r.dialed \/ r.at \in {"decide", "dial", "hijack"}) => HostsPass(r)
    /\ r.kind = "inner" /\ (r.dialed \/ r.at \in {"body", "send"}) => ClassPasses(r)

Good(r) == r \in Connections /\ Progress(r) /\ Permission(r)

\* The run command ends before serving when the profile does not translate.
Startable == phase = "configured" /\ active # NoProfile => active.translates

IInv ==
    /\ TypeOK
    /\ Startable
    /\ SwapIsAllOrNothing
    /\ \A c \in Clients : Progress(conn[c]) /\ Permission(conn[c])

-----------------------------------------------------------------------------
\* Rows are sequences of at most one verdict.
LEMMA Verdicts ==
    /\ <<>> \in Seq({"ALLOW", "DENY", "ERROR"})
    /\ <<"ALLOW">> \in Seq({"ALLOW", "DENY", "ERROR"})
    /\ <<"DENY">> \in Seq({"ALLOW", "DENY", "ERROR"})
    /\ <<"ERROR">> \in Seq({"ALLOW", "DENY", "ERROR"})
    /\ Append(<<>>, "ALLOW") = <<"ALLOW">>
    /\ Append(<<>>, "DENY") = <<"DENY">>
  OBVIOUS

\* What SetActiveProfile enforces is well formed.
LEMMA Compiled == ASSUME NEW p \in Profiles PROVE Compile(p) \in Rules
  BY EnforcementAssumption DEF Compile, Rules

\* The rules a configuration yields are rules.
LEMMA ConfiguredTyped ==
    ASSUME NEW mode, NEW p \in Profiles \cup {NoProfile}
    PROVE  Configured(mode, p) \in Rules
<1>1. <<>> \in Seq(Hosts) /\ <<>> \in Seq(Classes)
  OBVIOUS
<1>2. CliDenies \in Seq(Hosts)
  BY EnforcementAssumption
<1>3. CASE p = NoProfile
  BY <1>1, <1>2, <1>3 DEF Configured, Rules
<1>4. CASE p # NoProfile
  <2>1. p.deny \in Seq(Hosts) /\ p.denyRules \in Seq(Classes) /\ p.allowRules \in Seq(Classes)
    BY <1>4, EnforcementAssumption
  <2>2. CliDenies \o p.deny \in Seq(Hosts)
    BY <2>1, <1>2
  <2>3. QED BY <1>1, <1>4, <2>1, <2>2 DEF Configured, Rules
<1>5. QED BY <1>3, <1>4

\* A connection that takes a step to a good record leaves every one good.
LEMMA StepGood ==
    ASSUME IInv, NEW c \in Clients, NEW place, NEW r, Step(c, place, r), Good(r)
    PROVE  IInv'
<1>1. UNCHANGED ruleVars
  BY DEF Step
<1>2. conn \in [Clients -> Connections] /\ r \in Connections
  BY DEF IInv, TypeOK, Good
<1>3. conn' = [conn EXCEPT ![c] = r]
  BY DEF Step
<1>4. conn' \in [Clients -> Connections]
  BY <1>2, <1>3
<1>5. \A q : (Permission(q) <=> Permission(q)')
  BY <1>1 DEF Permission, HostsPass, ClassPasses, Targets, ruleVars, Allows, In
<1>6. \A d \in Clients : conn'[d] = r \/ conn'[d] = conn[d]
  BY <1>2, <1>3
<1>7. \A d \in Clients : Progress(conn'[d]) /\ Permission(conn'[d])
  BY <1>6 DEF IInv, Good
<1>8. TypeOK'
  BY <1>1, <1>4 DEF IInv, TypeOK, ruleVars
<1>9. SwapIsAllOrNothing' /\ Startable'
  BY <1>1 DEF IInv, SwapIsAllOrNothing, Startable, ruleVars
<1>10. QED BY <1>5, <1>7, <1>8, <1>9 DEF IInv

\* What becomes of a request that is refused, or fails on the network.
LEMMA RefusedGood ==
    ASSUME NEW r \in Connections, Untold(r), ~r.dialed
    PROVE  Good(Refused(r))
<1> DEFINE q == Refused(r)
<1>1. /\ q.at = "refused" /\ q.rows = <<"DENY">> /\ q.answer = "none" /\ ~q.dialed
      /\ q \in Connections
  BY Verdicts DEF Refused, Connections, Places, Untold
<1> HIDE DEF q
<1>2. Progress(q) /\ Permission(q)
  BY <1>1 DEF Progress, Permission
<1>3. QED BY <1>1, <1>2 DEF Good, q

\* A connection that fails before it was answered is as it should be.
LEMMA FailedGood ==
    ASSUME NEW r \in Connections, Untold(r), Permission(r)
    PROVE  Good(Failed(r))
<1> DEFINE q == Failed(r)
<1>1. /\ q.at \in {"done", "open"} /\ q.rows = <<"ALLOW">> /\ q.answer = "error"
      /\ q \in Connections
      /\ q.kind = r.kind /\ q.window = r.window /\ q.torn = r.torn /\ q.dialed = r.dialed
      /\ q.class = r.class /\ q.host = r.host
  BY Verdicts DEF Failed, Connections, Places, Answers, Untold, Back
<1> HIDE DEF q
<1>2. Progress(q)
  BY <1>1 DEF Progress, Told
<1>3. Permission(q)
  BY <1>1 DEF Permission, HostsPass, ClassPasses, Targets
<1>4. QED BY <1>1, <1>2, <1>3 DEF Good, q

-----------------------------------------------------------------------------
\* A new request starts out good, with nothing decided.
LEMMA AcceptGood ==
    ASSUME IInv, NEW c \in Clients, Pause(c) \/ Accept(c)
    PROVE  IInv'
<1>1. conn[c] \in Connections /\ conn[c].requests + 1 \in 0..MaxRequests
  BY EnforcementAssumption DEF IInv, TypeOK, Connections, Pause, Accept
<1>2. Policy(rules, dyn) \in Policies
  BY DEF IInv, TypeOK, Policy, Policies
<1>3. CASE Pause(c)
  <2> DEFINE r == [Fresh EXCEPT !.requests = conn[c].requests + 1,
                                !.answer = "paused", !.at = "done"]
  <2>1. Step(c, conn[c].at, r)
    BY <1>3 DEF Pause
  <2>2. r \in Connections
    BY <1>1, Verdicts DEF Fresh, Connections, Places, Answers
  <2>3. Progress(r) /\ Permission(r)
    BY DEF Fresh, Progress, Permission, Told, Untold
  <2>4. QED BY <2>1, <2>2, <2>3, StepGood DEF Good
<1>4. CASE Accept(c)
  <2>1. PICK kind \in {"forward", "connect"}, host \in Hosts \cup {NoHost} :
           Step(c, conn[c].at, IF Impossible(Arrival(c, kind, host))
                               THEN Rejected(Arrival(c, kind, host))
                               ELSE Arrival(c, kind, host))
    BY <1>4 DEF Accept
  <2> DEFINE r == Arrival(c, kind, host)
  <2>2. /\ r \in Connections
        /\ r.kind \in {"forward", "connect"} /\ r.at = "check" /\ Untold(r) /\ ~r.dialed
    BY <1>1, <1>2, Verdicts, ZenonT(60) DEF Arrival, Fresh, Connections, Places, Answers, Untold
  <2> HIDE DEF r
  <2>8. Rejected(r) \in Connections
    BY <2>2, Verdicts DEF Rejected, Connections, Places, Answers
  <2>3. Progress(r) /\ Permission(r)
    BY <2>2 DEF Progress, Permission
  <2>4. Progress(Rejected(r)) /\ Permission(Rejected(r))
    BY <2>2 DEF Rejected, Progress, Permission, Told, Untold, Connections
  <2>5. Step(c, conn[c].at, IF Impossible(r) THEN Rejected(r) ELSE r)
    BY <2>1 DEF r
  <2>6. QED BY <2>2, <2>3, <2>4, <2>5, <2>8, StepGood DEF Good
<1>5. QED BY <1>3, <1>4

\* deny_hosts: a list that is no mix is that of a policy in the window.
LEMMA CheckGood ==
    ASSUME IInv, NEW c \in Clients, Check(c)
    PROVE  IInv'
<1> DEFINE r == conn[c]
           lists == {w.rules.deny : w \in r.window}
<1>1. r \in Connections /\ Progress(r) /\ Permission(r) /\ r.at = "check"
  BY DEF IInv, TypeOK, Check, Step
<1>2. PICK v \in r.window, list \in Reads(lists) :
        LET s == [r EXCEPT !.torn = list \notin lists]
            hit == \E t \in Targets(r) : In(t, list) \/ t \in v.dyn
        IN Step(c, "check", IF hit THEN Refused(s) ELSE [s EXCEPT !.at = Passed(r)])
  BY Zenon DEF Check
<1> DEFINE s == [r EXCEPT !.torn = list \notin lists]
           hit == \E t \in Targets(r) : In(t, list) \/ t \in v.dyn
<1>3. s \in Connections
  BY <1>1 DEF Connections
<1>4. CASE hit
  <2>1. Untold(s) /\ s.kind # "inner" /\ ~s.dialed
    BY <1>1 DEF Progress, Untold, Connections
  <2>2. Good(Refused(s))
    BY <1>3, <2>1, RefusedGood
  <2>3. QED BY <1>2, <1>4, <2>2, StepGood
<1>5. CASE ~hit
  <2> DEFINE p == [s EXCEPT !.at = Passed(r)]
  <2>1. Passed(r) \in {"hijack", "decide"}
    BY DEF Passed
  <2>2. p \in Connections
    BY <1>3, <2>1, ZenonT(60) DEF Connections, Places
  <2>3. Progress(p)
    BY <1>1, <2>1 DEF Progress, Untold, Connections
  <2>4. p.window = r.window /\ Targets(p) = Targets(r) /\ (p.torn <=> list \notin lists)
    BY <1>1 DEF Targets, Connections
  <2>5. ~p.torn => HostsPass(p)
    <3>1. SUFFICES ASSUME list \in lists PROVE HostsPass(p)
      BY <2>4
    <3>2. PICK w \in r.window : list = w.rules.deny
      BY <3>1
    <3>3. \A t \in Targets(r) : ~In(t, w.rules.deny) /\ t \notin v.dyn
      BY <1>5, <3>2
    <3>4. QED BY <2>4, <3>3 DEF HostsPass
  <2>6. Permission(p)
    BY <1>1, <2>5 DEF Permission, Progress, Connections
  <2>7. QED BY <1>2, <1>5, <2>2, <2>3, <2>6, StepGood DEF Good
<1>6. QED BY <1>4, <1>5

\* What each connection satisfies before a step.
LEMMA Before ==
    ASSUME IInv, NEW c \in Clients
    PROVE  conn[c] \in Connections /\ Progress(conn[c]) /\ Permission(conn[c])
  BY DEF IInv, TypeOK

\* The permission speaks of these fields only.
LEMMA PermissionKept ==
    ASSUME NEW r, NEW q, Permission(r),
           q.kind = r.kind, q.window = r.window, q.torn = r.torn, q.class = r.class,
           q.host = r.host, q.dialed => r.dialed,
           q.at \in {"decide", "dial", "hijack"} => r.at \in {"decide", "dial", "hijack"},
           q.at \in {"body", "send"} => r.at \in {"body", "send"}
    PROVE  Permission(q)
  BY DEF Permission, HostsPass, ClassPasses, Targets

\* The answer of a refusal, the detector, the dial, the forwarded response.
LEMMA ForwardPathGood ==
    ASSUME IInv, NEW c \in Clients, Refuse(c) \/ Decide(c) \/ Dial(c) \/ Forward(c)
    PROVE  IInv'
<1> DEFINE r == conn[c]
<1>1. r \in Connections /\ Progress(r) /\ Permission(r)
  BY Before
<1>2. CASE Refuse(c)
  <2> DEFINE q == [r EXCEPT !.answer = "denied", !.at = Back(r)]
  <2>1. r.at = "refused" /\ Step(c, "refused", q)
    BY <1>2 DEF Refuse, Step
  <2>2. /\ q \in Connections /\ q.at \in {"done", "open"}
        /\ q.rows = <<"DENY">> /\ q.answer = "denied"
    BY <1>1, <2>1 DEF Connections, Places, Answers, Back, Progress
  <2>3. Progress(q)
    BY <2>2 DEF Progress, Told
  <2>4. Permission(q)
    BY <1>1, <2>2, PermissionKept, ZenonT(60) DEF Connections
  <2>5. QED BY <2>1, <2>2, <2>3, <2>4, StepGood DEF Good
<1>3. CASE Decide(c)
  <2> DEFINE q == [r EXCEPT !.at = "dial"]
  <2>1. r.at = "decide" /\ (Step(c, "decide", q) \/ Step(c, "decide", Refused(r)))
    BY <1>3 DEF Decide, Step
  <2>2. Untold(r) /\ ~r.dialed /\ r.kind # "inner"
    BY <1>1, <2>1 DEF Progress
  <2>3. q \in Connections /\ Progress(q)
    BY <1>1, <2>2 DEF Connections, Places, Progress, Untold
  <2>4. Permission(q)
    BY <1>1, <2>1, PermissionKept DEF Connections
  <2>5. Good(Refused(r))
    BY <1>1, <2>2, RefusedGood
  <2>6. QED BY <2>1, <2>3, <2>4, <2>5, StepGood DEF Good
<1>4. CASE Dial(c)
  <2> DEFINE d == [r EXCEPT !.dialed = TRUE]
             q == [d EXCEPT !.at = "dialed"]
  <2>1. r.at = "dial" /\ (Step(c, "dial", q) \/ Step(c, "dial", Failed(d)))
    BY <1>4 DEF Dial, Step
  <2>2. Untold(r) /\ r.kind # "inner" /\ (~r.torn => HostsPass(r))
    BY <1>1, <2>1 DEF Progress, Permission
  <2>3. d \in Connections /\ Untold(d) /\ q \in Connections /\ Progress(q)
    BY <1>1, <2>2 DEF Connections, Places, Progress, Untold
  <2>4. Permission(d) /\ Permission(q)
    BY <1>1, <2>2 DEF Permission, HostsPass, Targets, Connections
  <2>5. Good(Failed(d))
    BY <2>3, <2>4, FailedGood
  <2>6. QED BY <2>1, <2>3, <2>4, <2>5, StepGood DEF Good
<1>5. CASE Forward(c)
  <2> DEFINE q == [r EXCEPT !.answer = "ok", !.rows = Append(@, "ALLOW"), !.at = "done"]
  <2>1. r.at = "dialed" /\ Step(c, "dialed", q)
    BY <1>5 DEF Forward, Step
  <2>2. q \in Connections /\ q.at = "done" /\ q.rows = <<"ALLOW">> /\ q.answer = "ok"
    BY <1>1, <2>1, Verdicts, ZenonT(60) DEF Connections, Places, Answers, Progress, Untold
  <2>3. Progress(q)
    BY <2>2 DEF Progress, Told
  <2>4. Permission(q)
    BY <1>1, <2>2, PermissionKept DEF Connections
  <2>5. QED BY <2>1, <2>2, <2>3, <2>4, StepGood DEF Good
<1>6. QED BY <1>2, <1>3, <1>4, <1>5

\* The tunnel: hijack, 200, its row, its end.
LEMMA TunnelGood ==
    ASSUME IInv, NEW c \in Clients,
           Establish(c) \/ RecordTunnel(c) \/ Close(c) \/ Handshake(c)
    PROVE  IInv'
<1> DEFINE r == conn[c]
<1>1. r \in Connections /\ Progress(r) /\ Permission(r)
  BY Before
<1>2. CASE Establish(c)
  <2> DEFINE rows == IF r.at = "dialed" THEN <<"ALLOW">> ELSE <<>>
             gone == [r EXCEPT !.at = "done", !.rows = rows]
             up   == [r EXCEPT !.answer = "ok", !.at = "tunnel"]
  <2>1. /\ r.kind = "connect" /\ r.at \in {"dialed", "hijack"}
        /\ \/ Step(c, r.at, Failed(r)) \/ Step(c, r.at, gone) \/ Step(c, r.at, up)
    BY <1>2 DEF Establish
  <2>2. Untold(r) /\ (r.at = "hijack" => ~r.dialed)
    BY <1>1, <2>1 DEF Progress
  <2>3. Good(Failed(r))
    BY <1>1, <2>2, FailedGood
  <2>4. rows \in Seq({"ALLOW", "DENY", "ERROR"})
    BY Verdicts
  <2>5. /\ gone \in Connections /\ gone.at = "done" /\ gone.rows = rows
        /\ gone.answer = "none" /\ gone.dialed = r.dialed
    BY <1>1, <2>2, <2>4 DEF Connections, Places, Untold
  <2>6. Progress(gone)
    BY <1>1, <2>1, <2>2, <2>5 DEF Progress, Told
  <2>7. up \in Connections /\ Progress(up)
    BY <1>1, <2>1, <2>2 DEF Connections, Places, Answers, Progress, Untold
  <2>8. Permission(up)
    BY <1>1, PermissionKept DEF Connections
  <2>9. Permission(gone)
    <3>1. /\ gone.kind = r.kind /\ gone.window = r.window /\ gone.torn = r.torn
          /\ gone.class = r.class /\ gone.host = r.host
      BY <1>1 DEF Connections
    <3>2. QED BY <1>1, <2>5, <3>1, PermissionKept, ZenonT(60)
  <2>10. QED BY <2>1, <2>3, <2>5, <2>6, <2>7, <2>8, <2>9, StepGood DEF Good
<1>3. CASE RecordTunnel(c)
  <2> DEFINE next == IF cfg.mode = "mitm" THEN "tls" ELSE "splice"
             q == [r EXCEPT !.rows = Append(@, "ALLOW"), !.at = next]
  <2>1. r.at = "tunnel" /\ Step(c, "tunnel", q)
    BY <1>3 DEF RecordTunnel, Step
  <2>2. next \in {"tls", "splice"}
    OBVIOUS
  <2>3. /\ q \in Connections /\ q.at = next /\ q.rows = <<"ALLOW">> /\ q.answer = "ok"
        /\ q.kind = "connect"
    BY <1>1, <2>1, <2>2, Verdicts DEF Connections, Places, Progress
  <2>4. Progress(q)
    BY <2>2, <2>3 DEF Progress
  <2>5. Permission(q)
    BY <1>1, <2>2, <2>3, PermissionKept DEF Connections
  <2>6. QED BY <2>1, <2>3, <2>4, <2>5, StepGood DEF Good
<1>4. ASSUME NEW from \in {"splice", "open", "tls"}, NEW to \in {"done", "open"},
             Step(c, from, [r EXCEPT !.at = to])
      PROVE  IInv'
  <2> DEFINE q == [r EXCEPT !.at = to]
  <2>4. /\ q \in Connections /\ q.at = to /\ q.rows = r.rows /\ q.answer = r.answer
        /\ q.dialed = r.dialed
    BY <1>1 DEF Connections, Places
  <2>5. Told(r)
    BY <1>1, <1>4 DEF Step, Progress, Told
  <2>1. q \in Connections /\ Progress(q)
    BY <2>4, <2>5 DEF Progress, Told
  <2>2. Permission(q)
    BY <1>1, <1>4, PermissionKept DEF Connections
  <2>3. QED BY <1>4, <2>1, <2>2, StepGood DEF Good
<1>5. CASE Close(c)
  BY <1>4, <1>5 DEF Close
<1>6. CASE Handshake(c)
  BY <1>4, <1>6 DEF Handshake
<1>7. QED BY <1>2, <1>3, <1>5, <1>6

-----------------------------------------------------------------------------
\* A decrypted request: it arrives, and the two layers of rules decide.
LEMMA DecryptedGood ==
    ASSUME IInv, NEW c \in Clients, Decrypted(c)
    PROVE  IInv'
<1>1. conn[c] \in Connections /\ conn[c].requests + 1 \in 0..MaxRequests
  BY EnforcementAssumption, Before DEF Connections, Decrypted
<1>2. Policy(rules, dyn) \in Policies
  BY DEF IInv, TypeOK, Policy, Policies
<1>3. PICK class \in Classes :
        Step(c, "open", [Fresh EXCEPT !.requests = conn[c].requests + 1,
                                      !.kind = "inner", !.host = conn[c].host,
                                      !.class = class, !.window = {Policy(rules, dyn)},
                                      !.at = "allow"])
  BY DEF Decrypted
<1> DEFINE q == [Fresh EXCEPT !.requests = conn[c].requests + 1,
                              !.kind = "inner", !.host = conn[c].host,
                              !.class = class, !.window = {Policy(rules, dyn)},
                              !.at = "allow"]
<1>4. /\ q \in Connections /\ q.kind = "inner" /\ q.at = "allow"
      /\ Untold(q) /\ ~q.dialed
  BY <1>1, <1>2, Verdicts, ZenonT(60) DEF Fresh, Connections, Places, Answers, Untold
<1> HIDE DEF q
<1>5. Progress(q) /\ Permission(q)
  BY <1>4 DEF Progress, Permission
<1>6. QED BY <1>3, <1>4, <1>5, StepGood DEF q, Good

\* A verdict of the rules that allows keeps the invariant.
LEMMA AllowRulesGood ==
    ASSUME IInv, NEW c \in Clients, AllowRules(c)
    PROVE  IInv'
<1> DEFINE r == conn[c]
           lists == {w.rules.mitmAllow : w \in r.window}
<1>1. r \in Connections /\ Progress(r) /\ Permission(r)
  BY Before
<1>2. PICK list \in Reads(lists) :
        Step(c, "allow", [r EXCEPT !.torn = list \notin lists,
                                   !.at = IF In(r.class, list) THEN "body" ELSE "rules"])
  BY DEF AllowRules
<1> DEFINE to == IF In(r.class, list) THEN "body" ELSE "rules"
           q  == [r EXCEPT !.torn = list \notin lists, !.at = to]
<1>3. r.kind = "inner" /\ Untold(r) /\ ~r.dialed
  BY <1>1, <1>2 DEF Step, Progress
<1>4. /\ q \in Connections /\ q.kind = "inner" /\ Untold(q) /\ ~q.dialed /\ q.at = to
      /\ q.window = r.window /\ q.class = r.class /\ (q.torn <=> list \notin lists)
  BY <1>1, <1>3 DEF Connections, Places, Untold
<1>5. ~q.torn /\ to = "body" => ClassPasses(q)
  <2>1. SUFFICES ASSUME list \in lists, In(r.class, list) PROVE ClassPasses(q)
    BY <1>4
  <2>2. PICK w \in r.window : list = w.rules.mitmAllow
    BY <2>1
  <2>3. Allows(w.rules, r.class)
    BY <2>1, <2>2 DEF Allows
  <2>4. QED BY <1>4, <2>3 DEF ClassPasses
<1>6. to \in {"body", "rules"}
  OBVIOUS
<1>7. Progress(q)
  BY <1>4, <1>6 DEF Progress
<1>8. Permission(q)
  BY <1>4, <1>5, <1>6 DEF Permission
<1>9. QED BY <1>2, <1>4, <1>7, <1>8, StepGood DEF Good

\* A verdict of the rules that denies keeps the invariant.
LEMMA DenyRulesGood ==
    ASSUME IInv, NEW c \in Clients, DenyRules(c)
    PROVE  IInv'
<1> DEFINE r == conn[c]
           lists == {w.rules.mitmDeny : w \in r.window}
<1>1. r \in Connections /\ Progress(r) /\ Permission(r)
  BY Before
<1>2. PICK list \in Reads(lists) :
        LET s == [r EXCEPT !.torn = @ \/ list \notin lists]
        IN Step(c, "rules", IF In(r.class, list) THEN Refused(s) ELSE [s EXCEPT !.at = "body"])
  BY DEF DenyRules
<1> DEFINE s == [r EXCEPT !.torn = @ \/ list \notin lists]
           q == [s EXCEPT !.at = "body"]
<1>3. r.kind = "inner" /\ Untold(r) /\ ~r.dialed
  BY <1>1, <1>2 DEF Step, Progress
<1>4. s \in Connections /\ Untold(s) /\ ~s.dialed
  BY <1>1, <1>3 DEF Connections, Untold
<1>5. CASE In(r.class, list)
  <2>1. Good(Refused(s))
    BY <1>4, RefusedGood
  <2>2. QED BY <1>2, <1>5, <2>1, StepGood
<1>6. CASE ~In(r.class, list)
  <2>1. /\ q \in Connections /\ q.kind = "inner" /\ Untold(q) /\ ~q.dialed /\ q.at = "body"
        /\ q.window = r.window /\ q.class = r.class /\ (~q.torn => list \in lists)
    BY <1>1, <1>3 DEF Connections, Places, Untold
  <2>2. ~q.torn => ClassPasses(q)
    <3>1. SUFFICES ASSUME list \in lists PROVE ClassPasses(q)
      BY <2>1
    <3>2. PICK w \in r.window : list = w.rules.mitmDeny
      BY <3>1
    <3>3. Allows(w.rules, r.class)
      BY <1>6, <3>2 DEF Allows
    <3>4. QED BY <2>1, <3>3 DEF ClassPasses
  <2>3. Progress(q) /\ Permission(q)
    BY <2>1, <2>2 DEF Progress, Permission
  <2>4. QED BY <1>2, <1>6, <2>1, <2>3, StepGood DEF Good
<1>7. QED BY <1>5, <1>6

\* The rest of a decrypted request.
LEMMA ExchangeGood ==
    ASSUME IInv, NEW c \in Clients, Body(c) \/ Send(c) \/ Reply(c) \/ Report(c)
    PROVE  IInv'
<1> DEFINE r == conn[c]
<1>1. r \in Connections /\ Progress(r) /\ Permission(r)
  BY Before
<1>2. ASSUME r.at \in {"body", "reply"}
      PROVE  /\ r.kind = "inner" /\ Untold(r)
             /\ Good(Failed(r)) /\ Good(Scanned(r))
  <2>1. r.kind = "inner" /\ Untold(r)
    BY <1>1, <1>2 DEF Progress
  <2>2. Good(Failed(r))
    BY <1>1, <2>1, FailedGood
  <2> DEFINE q == Scanned(r)
  <2>3. q \in Connections /\ Progress(q)
    BY <1>1, <2>1 DEF Scanned, Connections, Places, Answers, Progress, Untold
  <2>4. Permission(q)
    BY <1>1, PermissionKept DEF Scanned, Connections
  <2>5. QED BY <2>1, <2>2, <2>3, <2>4 DEF Good
<1>3. CASE Body(c)
  <2> DEFINE q == [r EXCEPT !.at = "send"]
  <2>1. /\ r.at = "body"
        /\ \/ Step(c, "body", Failed(r)) \/ Step(c, "body", Scanned(r)) \/ Step(c, "body", q)
    BY <1>3 DEF Body, Step
  <2>2. q \in Connections /\ Progress(q)
    BY <1>1, <2>1 DEF Connections, Places, Progress, Untold
  <2>3. Permission(q)
    BY <1>1, <2>1, PermissionKept DEF Connections
  <2>4. QED BY <1>2, <2>1, <2>2, <2>3, StepGood DEF Good
<1>4. CASE Send(c)
  <2> DEFINE d == [r EXCEPT !.dialed = TRUE]
             q == [d EXCEPT !.at = "reply"]
  <2>1. r.at = "send" /\ (Step(c, "send", Failed(d)) \/ Step(c, "send", q))
    BY <1>4 DEF Send, Step
  <2>2. Untold(r) /\ r.kind = "inner" /\ (~r.torn => ClassPasses(r))
    BY <1>1, <2>1 DEF Progress, Permission
  <2>3. d \in Connections /\ Untold(d) /\ q \in Connections /\ Progress(q)
    BY <1>1, <2>2 DEF Connections, Places, Progress, Untold
  <2>4. Permission(d) /\ Permission(q)
    BY <1>1, <2>2 DEF Permission, ClassPasses, Connections
  <2>5. Good(Failed(d))
    BY <2>3, <2>4, FailedGood
  <2>6. QED BY <2>1, <2>3, <2>4, <2>5, StepGood DEF Good
<1>5. CASE Reply(c)
  <2> DEFINE q == [r EXCEPT !.answer = "ok", !.at = "report"]
  <2>1. /\ r.at = "reply"
        /\ \/ Step(c, "reply", Failed(r)) \/ Step(c, "reply", Scanned(r)) \/ Step(c, "reply", q)
    BY <1>5 DEF Reply, Step
  <2>2. q \in Connections /\ Progress(q)
    BY <1>1, <2>1 DEF Connections, Places, Answers, Progress, Untold
  <2>3. Permission(q)
    BY <1>1, PermissionKept DEF Connections
  <2>4. QED BY <1>2, <2>1, <2>2, <2>3, StepGood DEF Good
<1>6. CASE Report(c)
  <2> DEFINE verdict == IF r.answer = "denied" THEN "DENY" ELSE "ALLOW"
             q == [r EXCEPT !.rows = Append(@, verdict), !.at = "open"]
  <2>1. r.at = "report" /\ Step(c, "report", q)
    BY <1>6 DEF Report, Step
  <2>2. r.rows = <<>> /\ r.answer \in {"denied", "ok"}
    BY <1>1, <2>1 DEF Progress
  <2>3. /\ q \in Connections /\ q.at = "open" /\ q.answer = r.answer
        /\ q.rows = IF r.answer = "denied" THEN <<"DENY">> ELSE <<"ALLOW">>
    BY <1>1, <2>2, Verdicts DEF Connections, Places
  <2>4. Progress(q)
    BY <2>2, <2>3 DEF Progress, Told
  <2>5. Permission(q)
    BY <1>1, <2>3, PermissionKept, ZenonT(60) DEF Connections
  <2>6. QED BY <2>1, <2>3, <2>4, <2>5, StepGood DEF Good
<1>7. QED BY <1>3, <1>4, <1>5, <1>6

-----------------------------------------------------------------------------
\* The swaps: only requests still undecided see them, and a window only grows.
LEMMA WitnessGood ==
    ASSUME IInv, NEW rs \in Rules, NEW d \in SUBSET Hosts, Witness(rs, d), cfg' = cfg
    PROVE  /\ conn' \in [Clients -> Connections]
           /\ \A c \in Clients : (Progress(conn[c]) /\ Permission(conn[c]))'
<1>1. Policy(rs, d) \in Policies
  BY DEF Policy, Policies
<1>2. \A q : (Permission(q) <=> Permission(q)')
  BY DEF Permission, HostsPass, ClassPasses, Targets, Allows, In
<1>3. ASSUME NEW c \in Clients
      PROVE  conn'[c] \in Connections /\ Progress(conn'[c]) /\ Permission(conn'[c])
  <2> DEFINE r == conn[c]
             q == [r EXCEPT !.window = @ \cup {Policy(rs, d)}]
  <2>1. r \in Connections /\ Progress(r) /\ Permission(r)
    BY Before
  <2>2. conn'[c] = IF r.at \in Deciding THEN q ELSE r
    BY DEF Witness
  <2>4. CASE r.at \in Deciding
    <3>1. /\ q \in Connections /\ q.at = r.at /\ q.rows = r.rows /\ q.answer = r.answer
          /\ q.dialed = r.dialed /\ q.kind = r.kind
      BY <1>1, <2>1 DEF Connections
    <3>2. ~q.dialed /\ q.at \in {"check", "allow", "rules"}
      BY <2>1, <2>4, <3>1 DEF Progress, Deciding
    <3>3. Progress(q)
      BY <2>1, <3>1 DEF Progress, Untold, Told
    <3>4. Permission(q)
      BY <3>2 DEF Permission
    <3>5. QED BY <2>2, <2>4, <3>1, <3>3, <3>4
  <2>5. CASE r.at \notin Deciding
    BY <2>1, <2>2, <2>5
  <2>6. QED BY <2>4, <2>5
<1>4. conn' \in [Clients -> Connections]
  BY <1>3 DEF Witness
<1>5. QED BY <1>2, <1>3, <1>4

\* A swap of any of the rules keeps the invariant.
LEMMA SwapGood ==
    ASSUME IInv, Serve \/ ReloadProfile \/ ReloadDynamic \/ DiskPressure
    PROVE  IInv'
<1>1. \A p \in Profiles : Compile(p) \in Rules
  BY Compiled
<1>2. \A q : cfg' = cfg => (Permission(q) <=> Permission(q)')
  BY DEF Permission, HostsPass, ClassPasses, Targets, Allows, In
<1>3. CASE Serve
  <2>1. /\ rules' \in Rules /\ active' = active
        /\ active # NoProfile => rules' = Compile(active)
    BY <1>1, <1>3 DEF Serve, SetActiveProfile, IInv, TypeOK, Startable
  <2>2. TypeOK'
    BY <1>3, <2>1 DEF Serve, IInv, TypeOK
  <2>3. Startable' /\ SwapIsAllOrNothing'
    BY <1>3, <2>1 DEF Serve, Startable, SwapIsAllOrNothing
  <2>4. QED BY <1>2, <1>3, <2>2, <2>3 DEF Serve, IInv
<1>4. ASSUME MayChange PROVE phase = "serving" /\ changes' \in 0..MaxChanges
  BY <1>4, EnforcementAssumption DEF MayChange, IInv, TypeOK
<1>5. CASE ReloadProfile
  <2>1. PICK p \in Profiles : SetActiveProfile(p)
    BY <1>5 DEF ReloadProfile
  <2>2. /\ rules' \in Rules /\ active' \in Profiles
        /\ rules' = Compile(active')
    BY <1>1, <1>4, <1>5, <2>1 DEF ReloadProfile, SetActiveProfile, IInv, TypeOK, SwapIsAllOrNothing
  <2>3. /\ conn' \in [Clients -> Connections]
        /\ \A c \in Clients : (Progress(conn[c]) /\ Permission(conn[c]))'
    BY <1>5, <2>2, WitnessGood DEF ReloadProfile, IInv, TypeOK
  <2>4. TypeOK' /\ Startable' /\ SwapIsAllOrNothing'
    BY <1>4, <1>5, <2>2, <2>3
       DEF ReloadProfile, IInv, TypeOK, Startable, SwapIsAllOrNothing
  <2>5. QED BY <2>3, <2>4 DEF IInv
<1>6. CASE ReloadDynamic
  <2>1. PICK d \in SUBSET Hosts : dyn' = d /\ Witness(rules, d)
    BY <1>6 DEF ReloadDynamic
  <2>2. /\ conn' \in [Clients -> Connections]
        /\ \A c \in Clients : (Progress(conn[c]) /\ Permission(conn[c]))'
    BY <1>6, <2>1, WitnessGood DEF ReloadDynamic, IInv, TypeOK
  <2>3. TypeOK' /\ Startable' /\ SwapIsAllOrNothing'
    BY <1>4, <1>6, <2>1, <2>2
       DEF ReloadDynamic, IInv, TypeOK, Startable, SwapIsAllOrNothing
  <2>4. QED BY <2>2, <2>3 DEF IInv
<1>7. CASE DiskPressure
  <2>1. TypeOK' /\ Startable' /\ SwapIsAllOrNothing'
    BY <1>4, <1>7 DEF DiskPressure, IInv, TypeOK, Startable, SwapIsAllOrNothing
  <2>2. QED BY <1>2, <1>7, <2>1 DEF DiskPressure, IInv
<1>8. QED BY <1>3, <1>5, <1>6, <1>7

-----------------------------------------------------------------------------
\* The invariant holds at the start.
LEMMA InitGood == Init => IInv
<1> SUFFICES ASSUME Init PROVE IInv
  OBVIOUS
<1>1. rules \in Rules
  BY ConfiguredTyped DEF Init
<1>2. Fresh \in Connections
  BY EnforcementAssumption, Verdicts DEF Fresh, Connections, Places, Answers
<1>3. TypeOK
  <2>1. conn \in [Clients -> Connections]
    BY <1>2 DEF Init
  <2>2. changes \in 0..MaxChanges
    BY EnforcementAssumption DEF Init
  <2>3. /\ cfg \in Configs /\ phase \in {"configured", "serving"}
        /\ active \in Profiles \cup {NoProfile}
        /\ dyn \subseteq Hosts /\ refuse \in BOOLEAN
    BY DEF Init
  <2>4. QED BY <1>1, <2>1, <2>2, <2>3 DEF TypeOK
<1>4. Startable /\ SwapIsAllOrNothing
  BY DEF Init, Startable, SwapIsAllOrNothing
<1>5. Progress(Fresh) /\ Permission(Fresh)
  BY DEF Fresh, Progress, Permission
<1>6. QED BY <1>3, <1>4, <1>5 DEF Init, IInv

\* Every step keeps the invariant.
LEMMA NextGood == IInv /\ [Next]_vars => IInv'
<1> SUFFICES ASSUME IInv, [Next]_vars PROVE IInv'
  OBVIOUS
<1>1. CASE Serve \/ ReloadProfile \/ ReloadDynamic \/ DiskPressure
  BY <1>1, SwapGood
<1>2. ASSUME NEW c \in Clients, Handle(c) PROVE IInv'
  BY <1>2, AcceptGood, CheckGood, ForwardPathGood, TunnelGood, DecryptedGood,
     AllowRulesGood, DenyRulesGood, ExchangeGood DEF Handle
<1>3. CASE UNCHANGED vars
  <2>1. \A q : (Permission(q) <=> Permission(q)')
    BY <1>3 DEF Permission, HostsPass, ClassPasses, Targets, Allows, In, vars
  <2>2. TypeOK' /\ Startable' /\ SwapIsAllOrNothing'
    BY <1>3 DEF IInv, TypeOK, Startable, SwapIsAllOrNothing, vars
  <2>3. QED BY <1>3, <2>1, <2>2 DEF IInv, vars
<1>4. QED BY <1>1, <1>2, <1>3 DEF Next

\* The invariant that says of each place of a request what its row, its answer
\* and its window are holds throughout (proxy.go, mitm_handler.go).
THEOREM Inductive == Spec => []IInv
  BY InitGood, NextGood, PTL DEF Spec

-----------------------------------------------------------------------------
\* The variables keep their types.
THEOREM TypeCorrect == Spec => []TypeOK
<1>1. IInv => TypeOK
  BY DEF IInv
<1>2. QED BY <1>1, Inductive, PTL

\* However profiles and dynamic denies are swapped while requests are decided,
\* no upstream is contacted for a request that every policy in force in the
\* meantime refuses, unless a read of the rules was torn.
THEOREM Enforced == Spec => []DialsArePermitted
<1>1. IInv => DialsArePermitted
  BY DEF IInv, Permission, HostsPass, ClassPasses, DialsArePermitted
<1>2. QED BY <1>1, Inductive, PTL

\* Every finished request has the row that tells its outcome, on every path.
THEOREM TrailIsComplete == Spec => []RowsTellTheOutcome
<1>1. ASSUME IInv, NEW c \in Clients,
             conn[c].at \in {"done", "open", "splice", "tls"}
      PROVE  LET r == conn[c] IN
               /\ Len(r.rows) <= 1
               /\ r.dialed \/ r.answer \notin {"none", "paused"} => Len(r.rows) = 1
               /\ r.answer = "denied" <=> r.rows = <<"DENY">>
  <2>1. Progress(conn[c])
    BY <1>1, Before
  <2>2. Told(conn[c]) \/ (conn[c].rows = <<"ALLOW">> /\ conn[c].answer = "ok")
    BY <1>1, <2>1 DEF Progress
  <2>3. /\ Len(<<>>) = 0 /\ Len(<<"ALLOW">>) = 1 /\ Len(<<"DENY">>) = 1 /\ Len(<<"ERROR">>) = 1
        /\ <<"ALLOW">> # <<"DENY">> /\ <<"ERROR">> # <<"DENY">> /\ <<>> # <<"DENY">>
    OBVIOUS
  <2>4. CASE conn[c].rows = <<"DENY">> /\ conn[c].answer = "denied"
    BY <2>3, <2>4
  <2>5. CASE conn[c].rows \in {<<"ALLOW">>, <<"ERROR">>} /\ conn[c].answer # "denied"
    <3>1. Len(conn[c].rows) = 1 /\ conn[c].rows # <<"DENY">>
      BY <2>3, <2>5
    <3>2. QED BY <2>5, <3>1
  <2>6. CASE conn[c].rows = <<>> /\ ~conn[c].dialed /\ conn[c].answer \in {"none", "paused"}
    <3>1. Len(conn[c].rows) = 0 /\ conn[c].rows # <<"DENY">>
      BY <2>3, <2>6
    <3>2. QED BY <2>6, <3>1
  <2>7. CASE conn[c].rows = <<"ALLOW">> /\ conn[c].answer = "ok"
    <3>1. Len(conn[c].rows) = 1 /\ conn[c].rows # <<"DENY">>
      BY <2>3, <2>7
    <3>2. QED BY <2>7, <3>1
  <2>8. QED BY <2>2, <2>4, <2>5, <2>6, <2>7 DEF Told
<1>2. IInv => RowsTellTheOutcome
  BY <1>1 DEF RowsTellTheOutcome
<1>3. QED BY <1>2, Inductive, PTL

\* The row of a CONNECT precedes its bytes, and that of a refusal its answer.
THEOREM RecordsComeFirst == Spec => []RecordedFirst
<1>1. IInv => RecordedFirst
  <2>1. <<"ALLOW">> # <<>> /\ <<"DENY">> # <<>>
    OBVIOUS
  <2>2. QED BY <2>1 DEF IInv, Progress, RecordedFirst
<1>2. QED BY <1>1, Inductive, PTL

\* The enforced lists are those of the active profile, failed reloads included.
THEOREM SwapsAreAtomic == Spec => []SwapIsAllOrNothing
<1>1. IInv => SwapIsAllOrNothing
  BY DEF IInv
<1>2. QED BY <1>1, Inductive, PTL

-----------------------------------------------------------------------------
\* Where a DENY row comes from.

Named(r) == \E w \in r.window, t \in Targets(r) : In(t, w.rules.deny) \/ t \in w.dyn

Blame(r) == ~cfg.block /\ r.kind # "inner" /\ r.rows = <<"DENY">> => Named(r)

BlameInv == \A c \in Clients : Blame(conn[c])

\* Whom a denial is blamed on depends on these fields alone.
LEMMA BlameKept ==
    ASSUME NEW r, NEW q, Blame(r), q.rows = r.rows,
           q.kind = r.kind, q.window = r.window, q.host = r.host
    PROVE  Blame(q)
  BY DEF Blame, Named, Targets

\* A step that leaves a blameless record leaves every record blameless.
LEMMA BlameStep ==
    ASSUME IInv, BlameInv, NEW c \in Clients, NEW place, NEW q, Step(c, place, q), Blame(q)
    PROVE  BlameInv'
<1>1. \A r : (Blame(r) <=> Blame(r)')
  BY DEF Step, ruleVars, Blame, Named, Targets, In
<1>2. conn \in [Clients -> Connections] /\ conn' = [conn EXCEPT ![c] = q]
  BY DEF Step, IInv, TypeOK
<1>3. \A d \in Clients : conn'[d] = q \/ conn'[d] = conn[d]
  BY <1>2
<1>4. \A d \in Clients : Blame(conn'[d])
  BY <1>3 DEF BlameInv
<1>5. QED BY <1>1, <1>4 DEF BlameInv

\* Rows that are no single denial.
LEMMA DifferentRows ==
    /\ <<>> # <<"DENY">> /\ <<"ALLOW">> # <<"DENY">> /\ <<"ERROR">> # <<"DENY">>
    /\ Append(<<>>, "ALLOW") # <<"DENY">>
  OBVIOUS

\* A request that is refused on arrival, or admitted, is denied by no rule yet.
LEMMA BlameAccept ==
    ASSUME IInv, BlameInv, NEW c \in Clients, Pause(c) \/ Accept(c)
    PROVE  BlameInv'
<1>1. CASE Pause(c)
  <2> DEFINE q == [Fresh EXCEPT !.requests = conn[c].requests + 1,
                                !.answer = "paused", !.at = "done"]
  <2>1. Step(c, conn[c].at, q)
    BY <1>1 DEF Pause
  <2>2. q.rows = <<>>
    BY DEF Fresh
  <2>3. Blame(q)
    BY <2>2, DifferentRows DEF Blame
  <2>4. QED BY <2>1, <2>3, BlameStep
<1>2. CASE Accept(c)
  <2>1. PICK kind \in {"forward", "connect"}, host \in Hosts \cup {NoHost} :
           Step(c, conn[c].at, IF Impossible(Arrival(c, kind, host))
                               THEN Rejected(Arrival(c, kind, host))
                               ELSE Arrival(c, kind, host))
    BY <1>2 DEF Accept
  <2> DEFINE r == Arrival(c, kind, host)
  <2>2. r.rows = <<>>
    BY DEF Arrival, Fresh
  <2>3. Blame(r)
    BY <2>2, DifferentRows DEF Blame
  <2>4. Rejected(r).rows \in {<<"ERROR">>, <<"ALLOW">>}
    BY DEF Arrival, Fresh, Rejected
  <2>5. Blame(Rejected(r))
    BY <2>4, DifferentRows DEF Blame
  <2>6. QED BY <2>1, <2>3, <2>5, BlameStep
<1>3. QED BY <1>1, <1>2

\* What deny_hosts hits is named by a rule that was in force, even in a mix of
\* two lists: its entries are those of one of them.
LEMMA BlameCheck ==
    ASSUME IInv, BlameInv, NEW c \in Clients, Check(c)
    PROVE  BlameInv'
<1> DEFINE r == conn[c]
           lists == {w.rules.deny : w \in r.window}
<1>1. r \in Connections /\ r.rows = <<>>
  BY Before DEF Check, Step, Progress, Untold
<1>2. PICK v \in r.window, list \in Reads(lists) :
        LET s == [r EXCEPT !.torn = list \notin lists]
            hit == \E t \in Targets(r) : In(t, list) \/ t \in v.dyn
        IN Step(c, "check", IF hit THEN Refused(s) ELSE [s EXCEPT !.at = Passed(r)])
  BY Zenon DEF Check
<1> DEFINE s == [r EXCEPT !.torn = list \notin lists]
           hit == \E t \in Targets(r) : In(t, list) \/ t \in v.dyn
<1>3. PICK l \in lists, m \in lists : Len(m) <= Len(l) /\ list = SubSeq(l, 1, Len(m))
  BY <1>2 DEF Reads
<1>4. PICK w \in r.window : l = w.rules.deny
  BY <1>3
<1>5. \A k \in r.window : k.rules.deny \in Seq(Hosts)
  BY <1>1 DEF Connections, Policies, Rules
<1>6. l \in Seq(Hosts) /\ m \in Seq(Hosts)
  BY <1>3, <1>5
<1>7. \A t : In(t, list) => In(t, l)
  BY <1>3, <1>6 DEF In
<1>8. CASE hit
  <2>1. Named(r)
    <3>1. PICK t \in Targets(r) : In(t, list) \/ t \in v.dyn
      BY <1>8
    <3>2. In(t, w.rules.deny) \/ t \in v.dyn
      BY <1>4, <1>7, <3>1
    <3>3. QED BY <3>1, <3>2 DEF Named
  <2>2. /\ Refused(s).window = r.window /\ Refused(s).kind = r.kind
        /\ Refused(s).host = r.host
    BY <1>1 DEF Refused, Connections
  <2>3. Named(Refused(s))
    BY <2>1, <2>2 DEF Named, Targets
  <2>4. Blame(Refused(s))
    BY <2>3 DEF Blame
  <2>5. QED BY <1>2, <1>8, <2>4, BlameStep
<1>9. CASE ~hit
  <2> DEFINE q == [s EXCEPT !.at = Passed(r)]
  <2>1. q.rows = <<>>
    BY <1>1 DEF Connections
  <2>2. Blame(q)
    BY <2>1, DifferentRows DEF Blame
  <2>3. QED BY <1>2, <1>9, <2>2, BlameStep
<1>10. QED BY <1>8, <1>9

\* The steps of a forwarded or tunnelled request after deny_hosts.
LEMMA BlameOutside ==
    ASSUME IInv, BlameInv, NEW c \in Clients,
           \/ Refuse(c) \/ Decide(c) \/ Dial(c) \/ Forward(c)
           \/ Establish(c) \/ RecordTunnel(c) \/ Close(c) \/ Handshake(c)
    PROVE  BlameInv'
<1> DEFINE r == conn[c]
<1>1. r \in Connections /\ Progress(r) /\ Blame(r)
  BY Before DEF BlameInv
<1>2. ASSUME NEW d \in Connections, d.rows = <<>>
      PROVE  Blame(d) /\ Blame(Failed(d))
  <2>1. Failed(d).rows = <<"ALLOW">>
    BY <1>2, Verdicts DEF Failed, Connections
  <2>2. QED BY <1>2, <2>1, DifferentRows DEF Blame
<1>3. CASE Refuse(c)
  <2> DEFINE q == [r EXCEPT !.answer = "denied", !.at = Back(r)]
  <2>1. Step(c, "refused", q)
    BY <1>3 DEF Refuse
  <2>2. Blame(q)
    BY <1>1, BlameKept DEF Connections
  <2>3. QED BY <2>1, <2>2, BlameStep
<1>4. CASE Decide(c)
  <2> DEFINE q == [r EXCEPT !.at = "dial"]
  <2>1. Step(c, "decide", q) \/ (cfg.block /\ Step(c, "decide", Refused(r)))
    BY <1>4 DEF Decide
  <2>2. Blame(q)
    BY <1>1, BlameKept DEF Connections
  <2>3. cfg.block => Blame(Refused(r))
    BY DEF Blame
  <2>4. QED BY <2>1, <2>2, <2>3, BlameStep
<1>5. CASE Dial(c)
  <2> DEFINE d == [r EXCEPT !.dialed = TRUE]
             q == [d EXCEPT !.at = "dialed"]
  <2>1. r.at = "dial" /\ (Step(c, "dial", q) \/ Step(c, "dial", Failed(d)))
    BY <1>5 DEF Dial, Step
  <2>2. r.rows = <<>>
    BY <1>1, <2>1 DEF Progress, Untold
  <2>3. d \in Connections /\ d.rows = <<>> /\ q \in Connections /\ q.rows = <<>>
    BY <1>1, <2>2 DEF Connections, Places
  <2>4. QED BY <1>2, <2>1, <2>3, BlameStep
<1>6. CASE Forward(c)
  <2> DEFINE q == [r EXCEPT !.answer = "ok", !.rows = Append(@, "ALLOW"), !.at = "done"]
  <2>1. r.at = "dialed" /\ Step(c, "dialed", q)
    BY <1>6 DEF Forward, Step
  <2>2. q.rows = <<"ALLOW">>
    BY <1>1, <2>1, Verdicts DEF Connections, Progress, Untold
  <2>3. Blame(q)
    BY <2>2, DifferentRows DEF Blame
  <2>4. QED BY <2>1, <2>3, BlameStep
<1>7. CASE Establish(c)
  <2> DEFINE rows == IF r.at = "dialed" THEN <<"ALLOW">> ELSE <<>>
             gone == [r EXCEPT !.at = "done", !.rows = rows]
             up   == [r EXCEPT !.answer = "ok", !.at = "tunnel"]
  <2>1. /\ r.at \in {"dialed", "hijack"}
        /\ \/ Step(c, r.at, Failed(r)) \/ Step(c, r.at, gone) \/ Step(c, r.at, up)
    BY <1>7 DEF Establish
  <2>2. r.rows = <<>>
    BY <1>1, <2>1 DEF Progress, Untold
  <2>3. rows # <<"DENY">> /\ gone.rows = rows
    BY <1>1, DifferentRows DEF Connections
  <2>4. Blame(gone)
    BY <2>3 DEF Blame
  <2>5. Blame(up)
    BY <1>1, BlameKept DEF Connections
  <2>6. QED BY <1>1, <1>2, <2>1, <2>2, <2>4, <2>5, BlameStep
<1>8. CASE RecordTunnel(c)
  <2> DEFINE q == [r EXCEPT !.rows = Append(@, "ALLOW"),
                            !.at = IF cfg.mode = "mitm" THEN "tls" ELSE "splice"]
  <2>1. r.at = "tunnel" /\ Step(c, "tunnel", q)
    BY <1>8 DEF RecordTunnel, Step
  <2>2. q.rows = <<"ALLOW">>
    BY <1>1, <2>1, Verdicts DEF Connections, Progress
  <2>3. Blame(q)
    BY <2>2, DifferentRows DEF Blame
  <2>4. QED BY <2>1, <2>3, BlameStep
<1>9. ASSUME NEW place, NEW to, Step(c, place, [r EXCEPT !.at = to])
      PROVE  BlameInv'
  <2>1. Blame([r EXCEPT !.at = to])
    BY <1>1, BlameKept DEF Connections
  <2>2. QED BY <1>9, <2>1, BlameStep
<1>10. CASE Close(c)
  BY <1>9, <1>10 DEF Close
<1>11. CASE Handshake(c)
  BY <1>9, <1>11 DEF Handshake
<1>12. QED BY <1>3, <1>4, <1>5, <1>6, <1>7, <1>8, <1>10, <1>11

\* Decrypted requests are not spoken of.
LEMMA BlameInside ==
    ASSUME IInv, BlameInv, NEW c \in Clients,
           \/ Decrypted(c) \/ AllowRules(c) \/ DenyRules(c)
           \/ Body(c) \/ Send(c) \/ Reply(c) \/ Report(c)
    PROVE  BlameInv'
<1> DEFINE r == conn[c]
<1>1. r \in Connections /\ Progress(r)
  BY Before
<1>2. \A place, q : Step(c, place, q) /\ q.kind = "inner" => BlameInv'
  <2>1. \A q : q.kind = "inner" => Blame(q)
    BY DEF Blame
  <2>2. QED BY <2>1, BlameStep
<1>3. CASE Decrypted(c)
  <2>1. PICK class \in Classes :
          Step(c, "open", [Fresh EXCEPT !.requests = conn[c].requests + 1,
                                        !.kind = "inner", !.host = conn[c].host,
                                        !.class = class, !.window = {Policy(rules, dyn)},
                                        !.at = "allow"])
    BY <1>3 DEF Decrypted
  <2> DEFINE q == [Fresh EXCEPT !.requests = conn[c].requests + 1,
                                !.kind = "inner", !.host = conn[c].host,
                                !.class = class, !.window = {Policy(rules, dyn)},
                                !.at = "allow"]
  <2>2. q.kind = "inner"
    BY DEF Fresh
  <2>3. QED BY <1>2, <2>1, <2>2
<1>4. r.at \in {"allow", "rules", "body", "send", "reply", "report"} => r.kind = "inner"
  BY <1>1 DEF Progress
<1>5. CASE AllowRules(c)
  <2>1. PICK list : Step(c, "allow", [r EXCEPT
            !.torn = list \notin {w.rules.mitmAllow : w \in r.window},
            !.at = IF In(r.class, list) THEN "body" ELSE "rules"])
    BY <1>5 DEF AllowRules
  <2>2. r.kind = "inner"
    BY <1>4, <2>1 DEF Step
  <2>3. QED BY <1>1, <1>2, <2>1, <2>2 DEF Connections
<1>6. CASE DenyRules(c)
  <2> DEFINE s(list) == [r EXCEPT !.torn = @ \/ list \notin {w.rules.mitmDeny : w \in r.window}]
  <2>1. PICK list :
           \/ Step(c, "rules", Refused(s(list)))
           \/ Step(c, "rules", [s(list) EXCEPT !.at = "body"])
    BY <1>6 DEF DenyRules
  <2>2. r.kind = "inner"
    BY <1>4, <2>1 DEF Step
  <2>3. Refused(s(list)).kind = "inner" /\ [s(list) EXCEPT !.at = "body"].kind = "inner"
    BY <1>1, <2>2 DEF Refused, Connections
  <2>4. QED BY <1>2, <2>1, <2>3
<1>7. CASE Body(c) \/ Send(c) \/ Reply(c)
  <2> DEFINE d == [r EXCEPT !.dialed = TRUE]
  <2>1. r.kind = "inner"
    BY <1>4, <1>7 DEF Body, Send, Reply, Step
  <2>2. /\ Failed(r).kind = "inner" /\ Scanned(r).kind = "inner" /\ Failed(d).kind = "inner"
        /\ [r EXCEPT !.at = "send"].kind = "inner" /\ [d EXCEPT !.at = "reply"].kind = "inner"
        /\ [r EXCEPT !.answer = "ok", !.at = "report"].kind = "inner"
    BY <1>1, <2>1 DEF Failed, Scanned, Connections
  <2>3. QED BY <1>2, <1>7, <2>2 DEF Body, Send, Reply
<1>8. CASE Report(c)
  <2> DEFINE q == [r EXCEPT !.rows = Append(@, IF r.answer = "denied" THEN "DENY" ELSE "ALLOW"),
                            !.at = "open"]
  <2>1. Step(c, "report", q) /\ q.kind = "inner"
    BY <1>1, <1>4, <1>8 DEF Report, Step, Connections
  <2> HIDE DEF q
  <2>2. QED BY <1>2, <2>1
<1>9. QED BY <1>3, <1>5, <1>6, <1>7, <1>8

\* A window only grows, so what it named it still names.
LEMMA BlameSwap ==
    ASSUME IInv, BlameInv, Serve \/ ReloadProfile \/ ReloadDynamic \/ DiskPressure
    PROVE  BlameInv'
<1>1. cfg' = cfg
  BY DEF Serve, ReloadProfile, ReloadDynamic, DiskPressure
<1>2. \A q : (Blame(q) <=> Blame(q)')
  BY <1>1 DEF Blame, Named, Targets, In
<1>3. CASE conn' = conn
  BY <1>2, <1>3 DEF BlameInv
<1>4. ASSUME NEW rs, NEW d, Witness(rs, d) PROVE BlameInv'
  <2>1. ASSUME NEW c \in Clients PROVE Blame(conn'[c])
    <3> DEFINE r == conn[c]
               q == [r EXCEPT !.window = @ \cup {Policy(rs, d)}]
    <3>1. r \in Connections /\ Blame(r)
      BY Before DEF BlameInv
    <3>2. /\ q.rows = r.rows /\ q.kind = r.kind /\ q.host = r.host
          /\ r.window \subseteq q.window
      BY <3>1 DEF Connections
    <3>3. Blame(q)
      BY <3>1, <3>2 DEF Blame, Named, Targets
    <3>4. conn'[c] = q \/ conn'[c] = r
      BY <1>4 DEF Witness
    <3>5. QED BY <3>1, <3>3, <3>4
  <2>2. QED BY <1>2, <2>1 DEF BlameInv
<1>5. QED BY <1>3, <1>4 DEF Serve, ReloadProfile, ReloadDynamic, DiskPressure

\* Outside the detector's block mode, a forwarded or tunnelled request is
\* recorded as denied only if a deny rule in force meanwhile names it.
THEOREM DenialsHaveARule == Spec => []DeniedOnlyByRule
<1>1. Init => BlameInv
  <2>1. Fresh.rows = <<>>
    BY DEF Fresh
  <2>2. Blame(Fresh)
    BY <2>1, DifferentRows DEF Blame
  <2>3. QED BY <2>2 DEF Init, BlameInv
<1>2. IInv /\ BlameInv /\ [Next]_vars => BlameInv'
  <2> SUFFICES ASSUME IInv, BlameInv, [Next]_vars PROVE BlameInv'
    OBVIOUS
  <2>1. CASE Serve \/ ReloadProfile \/ ReloadDynamic \/ DiskPressure
    BY <2>1, BlameSwap
  <2>2. ASSUME NEW c \in Clients, Handle(c) PROVE BlameInv'
    BY <2>2, BlameAccept, BlameCheck, BlameOutside, BlameInside DEF Handle
  <2>3. CASE UNCHANGED vars
    BY <2>3 DEF BlameInv, Blame, Named, Targets, In, vars
  <2>4. QED BY <2>1, <2>2, <2>3 DEF Next
<1>3. BlameInv => DeniedOnlyByRule
  BY DEF BlameInv, Blame, Named, DeniedOnlyByRule
<1>4. QED BY <1>1, <1>2, <1>3, Inductive, PTL DEF Spec
=============================================================================
