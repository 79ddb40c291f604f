------------------------------ MODULE BodyScan ------------------------------
(***************************************************************************)
(* The two scanners of decrypted traffic, over samples: the one that looks *)
(* for injected instructions in a response body (internal/injectionscan)   *)
(* and the one that checks the tool calls of a request body against a      *)
(* corpus (internal/toolcallvalidator), with what the MITM handler does    *)
(* with their verdicts.  A response is a sequence of lines, and a line the *)
(* set of the matches that begin in it; a match that runs over the end of  *)
(* its line is open.  A request is the set of the calls in its JSON, each  *)
(* with the place where it stands.  Confidences are percentages.           *)
(***************************************************************************)
EXTENDS Naturals, SequencesExt, FiniteSets

\* An action of no profile means warn; 0 means the default of DefaultConfig.
Config(given) ==
    [action |-> IF given.action = "" THEN "warn" ELSE given.action,
     max    |-> IF given.max = 0 THEN 2 ELSE given.max,
     floor  |-> IF given.floor = 0 THEN 70 ELSE given.floor]

computeConfidence(high, medium) ==
    CASE high >= 2                   -> 95
      [] high = 1 /\ medium >= 1     -> 85
      [] high = 1 /\ medium = 0      -> 80
      [] high = 0 /\ medium >= 2     -> 55
      [] high = 0 /\ medium = 1      -> 35
      [] OTHER                       -> 0

\* DecideAction, the same of both scanners: what is found without confidence is
\* not denied, and only a high signal is stripped.
DecideAction(result, cfg) ==
    CASE ~result.detected -> "allow"
      [] result.detected /\ cfg.action = "deny" ->
            IF result.confidence < cfg.floor THEN "warn" ELSE "deny"
      [] result.detected /\ cfg.action = "strip" -> IF result.high = 0 THEN "warn" ELSE "strip"
      [] result.detected /\ cfg.action = "allow" -> "allow"
      [] OTHER -> "warn"

Clean == [detected |-> FALSE, found |-> {}, high |-> 0, confidence |-> 0]

Result(found, high, medium) ==
    [detected |-> found # {}, found |-> found, high |-> high,
     confidence |-> computeConfidence(high, medium)]

-----------------------------------------------------------------------------
\* The response.

\* highSignalRules, and mediumSignalRules with the heuristic one.
High   == {"role", "exfil"}
Medium == {"delimiter", "base64"}

\* ScanResponseBody: nothing of a binary type, nothing of a body that an
\* allowlist pattern matches anywhere, also beyond the part that is scanned; of
\* each rule the first match only.
ScanResponseBody(body, binary, cfg) ==
    LET scanned  == SubSeq(body, 1, IF Len(body) < cfg.max THEN Len(body) ELSE cfg.max)
        at(rule) == {i \in DOMAIN scanned : \E m \in scanned[i] : m.rule = rule}
        first(rule) == scanned[CHOOSE i \in at(rule) : \A j \in at(rule) : i <= j]
        found == {CHOOSE m \in first(rule) : m.rule = rule :
                     rule \in {r \in High \cup Medium : at(r) # {}}}
        count(rules) == Cardinality({m \in found : m.rule \in rules})
    IN IF binary \/ \E i \in DOMAIN body : \E m \in body[i] : m.rule = "allowlist"
       THEN Clean
       ELSE Result(found, count(High), count(Medium))

\* Mutant of ApplyStrip: only the first finding is looked for.
ApplyStripFirst(body, found) ==
    [i \in DOMAIN body |->
        IF \E m \in body[i] : ~m.open /\ found # {} /\ m = CHOOSE n \in found : TRUE
        THEN {} ELSE body[i]]

\* ApplyStrip: every line that holds a reported snippet is replaced; a snippet
\* that runs over the end of a line is in no line.
ApplyStrip(body, found) ==
    [i \in DOMAIN body |-> IF \E m \in body[i] : ~m.open /\ m \in found THEN {} ELSE body[i]]

-----------------------------------------------------------------------------
\* The request.

\* SchemaCorpus, of every shape: a tool with a required and an optional
\* argument, and one whose schema says nothing.
Corpus == [known |-> [required |-> {"req"}, optional |-> {"opt"}],
           free  |-> [required |-> {}, optional |-> {}]]
Mixed  == {"mixed_Up"}          \* names that hasNamingStyleMix tells

Shape(place) ==
    CASE place.slot = "method" -> "mcp"
      [] place.slot = "tool_use" -> "anthropic"
      [] OTHER -> "openai"

\* The arguments of a call: OpenAI's may be JSON in a string, the others' are an
\* object or nothing.
Arguments(call) ==
    IF call.form = "object" \/ (call.form = "string" /\ Shape(call.place) = "openai")
    THEN call.args ELSE [a \in {} |-> "fine"]

\* What Validate finds wrong with one call; a finding is told by its rule, the
\* shape and the name, so two calls of a name count once.
CheckCall(call) ==
    LET args   == Arguments(call)
        known  == call.name \in DOMAIN Corpus
        schema == Corpus[call.name]
        rules  ==
          (IF known
           THEN (IF schema.required \subseteq DOMAIN args THEN {} ELSE {"missing-required-arg"})
                \cup (IF schema.required \cup schema.optional = {}
                         \/ DOMAIN args \subseteq schema.required \cup schema.optional
                      THEN {} ELSE {"unexpected-arg"})
           ELSE {"hallucinated-tool-name"}
                \cup (IF call.name \in Mixed THEN {"naming-style-mix"} ELSE {}))
          \cup (IF \E a \in DOMAIN args : args[a] = "placeholder"
                THEN {"placeholder-credential"} ELSE {})
    IN {<<rule, Shape(call.place), call.name>> : rule \in rules}

HighRules == {"hallucinated-tool-name", "placeholder-credential", "missing-required-arg"}

\* Validate: a body that is cut is no JSON any more and passes.
Validate(body, cfg) ==
    LET found == UNION {CheckCall(c) : c \in body.calls}
        high  == Cardinality({f \in found : f[1] \in HighRules})
    IN IF body.allowed \/ body.size > cfg.max THEN Clean
       ELSE Result(found, high, Cardinality(found) - high)

Flagged(found) == {<<f[2], f[3]>> : f \in found}
IsFlagged(c, found) == <<Shape(c.place), c.name>> \in Flagged(found)

\* Mutant of visitStrip: a call in the list of tool calls stays.
visitStripTop(calls, found) ==
    {c \in calls : ~(IsFlagged(c, found) /\ c.place.slot \in {"method", "tool_use", "function_call"})}

\* visitStrip.  A flagged call that is the root replaces it with all it holds; a
\* flagged function_call is replaced, and nothing else of its object is visited;
\* an entry of tool_calls is known by its "function" only, so that a bare one
\* stays; where nothing is flagged the visit goes on downwards.
visitStrip(calls, found) ==
    LET hit(in, slot) == {c \in calls : c.place.in = in /\ c.place.slot = slot /\ IsFlagged(c, found)}
        below == IF hit("root", "function_call") # {} THEN hit("root", "function_call")
                 ELSE hit("root", "wrapped")
                      \cup UNION {IF hit(m, "function_call") # {} THEN hit(m, "function_call")
                                  ELSE hit(m, "wrapped") \cup hit(m, "tool_use") : m \in {"m1", "m2"}}
    IN IF hit("root", "method") \cup hit("root", "tool_use") # {} THEN {} ELSE calls \ below

-----------------------------------------------------------------------------
\* handleMITMRequest: the tool calls before the request goes out, the body of
\* the response before it comes back.  What happens, and what the row says.
Handled(toolAction, tools, scanAction, scan) ==
    CASE toolAction = "deny" -> [sent |-> FALSE, finding |-> "tool"]
      [] toolAction # "deny" /\ scanAction = "deny" -> [sent |-> TRUE, finding |-> "injection"]
      [] toolAction # "deny" /\ scan.detected /\ scanAction \in {"warn", "strip"} ->
            [sent |-> TRUE, finding |-> "injection"]
      [] toolAction # "deny" /\ ~(scan.detected /\ scanAction \in {"warn", "strip", "deny"})
         /\ tools.detected /\ toolAction \in {"warn", "strip"} -> [sent |-> TRUE, finding |-> "tool"]
      [] OTHER -> [sent |-> TRUE, finding |-> "none"]

-----------------------------------------------------------------------------
\* Samples.

Given == [action : {"", "allow", "strip", "deny"}, max : {0, 3}, floor : {0, 90}]

Match(rule, text, open) == [rule |-> rule, text |-> text, open |-> open]
Lines == {{}, {Match("role", 1, FALSE)}, {Match("role", 2, FALSE)}, {Match("role", 1, TRUE)},
          {Match("exfil", 1, FALSE), Match("base64", 1, FALSE)}, {Match("delimiter", 1, FALSE)},
          {Match("base64", 1, FALSE)}, {Match("allowlist", 1, FALSE)}}

Places == {p \in [in : {"root", "m1"}, slot : {"method", "tool_use", "function_call", "wrapped", "bare"}] :
              p.slot = "method" => p.in = "root"}
Args   == {[a \in {} |-> "fine"], [a \in {"req"} |-> "fine"], [a \in {"req"} |-> "placeholder"],
           [a \in {"req", "more"} |-> "fine"]}
Calls  == [place : Places, name : {"known", "free", "unknown", "mixed_Up"}, args : Args,
           form : {"object"}]
          \cup [place : Places, name : {"known"}, args : {[a \in {"req"} |-> "fine"]},
                form : {"string", "garbled"}]

ScanSamples ==
    [kind : {"response"}, body : [1..3 -> Lines], binary : BOOLEAN]
    \cup [kind : {"request"}, body : [calls : {{c, d} : c \in Calls, d \in {e \in Calls :
              e.name \in {"known", "unknown"} /\ e.form = "object" /\ e.args # [a \in {} |-> "fine"]}},
          allowed : {FALSE}, size : {1}]]
    \cup [kind : {"request"}, body : [calls : {{c} : c \in Calls}, allowed : BOOLEAN, size : {1, 3}]]

-----------------------------------------------------------------------------
\* Properties.

\* No verdict beyond its evidence: a denial has the confidence the profile asks
\* for, what is stripped has a high signal, and what is found is never ignored
\* unless the profile says so.
VerdictHolds(result, cfg) ==
    LET action == DecideAction(result, cfg) IN
    /\ action = "deny" => result.confidence >= cfg.floor /\ (cfg.floor >= 70 => result.high > 0)
    /\ action = "strip" => result.high > 0
    /\ result.detected /\ cfg.action # "allow" => action # "allow"

\* More text after what was scanned never lowers the confidence, short of an
\* allowlist pattern in it; a strip keeps every line without a reported snippet
\* as it was, and what a second scan finds was not reported by the first, or no
\* one line held it.
ResponseHolds(s, cfg) ==
    LET scan     == ScanResponseBody(s.body, s.binary, cfg)
        stripped == ApplyStrip(s.body, scan.found)
    IN /\ VerdictHolds(scan, cfg)
       /\ \A n \in 0..Len(s.body) :
             (\A i \in DOMAIN s.body : i > n => \A m \in s.body[i] : m.rule # "allowlist")
             => ScanResponseBody(SubSeq(s.body, 1, n), s.binary, cfg).confidence <= scan.confidence
       /\ Len(stripped) = Len(s.body)
       /\ \A i \in DOMAIN stripped : stripped[i] # s.body[i] => s.body[i] \cap scan.found # {}
       /\ \A m \in ScanResponseBody(stripped, s.binary, cfg).found : m \notin scan.found \/ m.open

\* What passes unflagged calls tools of the corpus as their schema says.  After
\* a strip no flagged call is left but a bare entry or a neighbour of a flagged
\* function_call, and no other call is gone unless the whole body is.
RequestHolds(s, cfg) ==
    LET result == Validate(s.body, cfg)
        left   == visitStrip(s.body.calls, result.found)
        beside(c) == \E d \in s.body.calls :
                        /\ d.place.slot = "function_call" /\ IsFlagged(d, result.found)
                        /\ d.place.in \in {"root", c.place.in}
    IN /\ VerdictHolds(result, cfg)
       /\ ~result.detected /\ ~s.body.allowed /\ s.body.size <= cfg.max =>
             \A c \in s.body.calls : /\ c.name \in DOMAIN Corpus
                                     /\ Corpus[c.name].required \subseteq DOMAIN Arguments(c)
       /\ \A c \in left : IsFlagged(c, result.found) => c.place.slot = "bare" \/ beside(c)
       /\ left # {} => \A c \in s.body.calls \ left : IsFlagged(c, result.found)
       /\ \A scan \in {Clean, Result({"role"}, 1, 0)} :
             LET action == DecideAction(result, cfg)
                 row    == Handled(action, result, DecideAction(scan, cfg), scan)
             IN /\ action = "deny" <=> ~row.sent
                /\ row.finding = "none" => cfg.action = "allow" \/ ~(result.detected \/ scan.detected)

ScansHold(s) ==
    \A given \in Given :
        /\ s.kind = "response" => ResponseHolds(s, Config(given))
        /\ s.kind = "request"  => RequestHolds(s, Config(given))
=============================================================================
