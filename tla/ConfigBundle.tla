---------------------------- MODULE ConfigBundle ----------------------------
(***************************************************************************)
(* `gbounce config export` and `config import` (internal/cli/config.go)    *)
(* and the deployment presets (internal/cli/deployment_presets.go).        *)
(*                                                                         *)
(* A JSON value is a record of its type and, for an object, its members; a *)
(* schema likewise.  The published schema is two objects deep, so one      *)
(* level of validateNode stands on the other instead of on itself.         *)
(***************************************************************************)
EXTENDS Naturals, FiniteSets

Str(v)    == [type |-> "string", value |-> v]
Bool(b)   == [type |-> "boolean", value |-> b]
Arr(n)    == [type |-> "array", value |-> n]
Obj(f)    == [type |-> "object", value |-> f]
Secret    == "secret"
Masked    == "***REDACTED***"

\* BuildExport: the command knows neither the address of a proxy nor a webhook;
\* only a caller of the function does (opts.url, opts.token, opts.port).
BuildExport(opts) ==
    LET mask(v) == Str(IF opts.redact /\ v # "" THEN Masked ELSE v)
        webhook == [f \in {"redacted"} \cup (IF opts.url = "" THEN {} ELSE {"url"})
                                       \cup (IF opts.token = "" THEN {} ELSE {"token"}) |->
                      CASE f = "redacted" -> Bool(opts.redact)
                        [] f = "url"      -> mask(opts.url)
                        [] f = "token"    -> mask(opts.token)]
        runtime == [f \in {"mode"} \cup (IF opts.port = "" THEN {} ELSE {"port"}) |->
                      IF f = "mode" THEN Str("discovery") ELSE [type |-> "number", value |-> opts.port]]
        always  == {"schema_version", "product", "profiles_supported", "runtime_config", "audit_webhook"}
    IN Obj([f \in always \cup (IF opts.rows > 0 THEN {"audit_tail"} ELSE {}) |->
              CASE f = "schema_version"     -> Str("1.0")
                [] f = "product"            -> Str("gbounce")
                [] f = "profiles_supported" -> Bool(FALSE)
                [] f = "runtime_config"     -> Obj(runtime)
                [] f = "audit_webhook"      -> Obj(webhook)
                [] f = "audit_tail"         -> Arr(opts.rows)])

\* The published schema: of each member its type, values and required members.
Any == {}
Schema ==
    [schema_version     |-> [type |-> "string",  enum |-> {"1.0"},     required |-> {}],
     product            |-> [type |-> "string",  enum |-> {"gbounce"}, required |-> {}],
     profiles_supported |-> [type |-> "boolean", enum |-> Any,         required |-> {}],
     runtime_config     |-> [type |-> "object",  enum |-> Any,         required |-> {"mode"}],
     audit_webhook      |-> [type |-> "object",  enum |-> Any,         required |-> {"redacted"}],
     audit_tail         |-> [type |-> "array",   enum |-> Any,         required |-> {}]]
Required == DOMAIN Schema \ {"audit_tail"}

\* typeMatches, the enumeration and the required members.
validateMember(v, s) ==
    /\ v.type = s.type
    /\ s.enum # Any => v.value \in s.enum
    /\ s.type = "object" => s.required \subseteq DOMAIN v.value

\* validateConfigJSON and validateNode: members the schema does not name are
\* accepted.
validateConfigJSON(b) ==
    /\ b.type = "object"
    /\ Required \subseteq DOMAIN b.value
    /\ \A f \in DOMAIN Schema \cap DOMAIN b.value : validateMember(b.value[f], Schema[f])

LoadAndValidate(b) ==
    /\ validateConfigJSON(b)
    /\ b.value["schema_version"].value = "1.0" /\ b.value["product"].value = "gbounce"

\* defaultProbeAddrs and firstRunningProbe: the port of the bundle or the
\* default one, and the management port.
ProbePorts(b) ==
    LET rc == b.value["runtime_config"].value
    IN {IF "port" \in DOMAIN rc THEN rc["port"].value ELSE "8080", "8769"}

\* Mutant of applyImport: a dry run is taken for an import.
applyImportAlways(b, dry, listening) ==
    IF ~LoadAndValidate(b) THEN "invalid"
    ELSE IF ProbePorts(b) \cap listening # {} THEN "running" ELSE "imported"

\* applyImport: validates, reports, and refuses while something answers on one
\* of the probed ports.  It writes no configuration: there is no file for it.
applyImport(b, dry, listening) ==
    IF ~LoadAndValidate(b) THEN "invalid"
    ELSE IF dry THEN "reported"
    ELSE IF ProbePorts(b) \cap listening # {} THEN "running" ELSE "imported"

\* `config export`: the bundle goes to the standard output, or beside its file
\* and then in its place; a row of the audit log, when one is named, says so
\* afterwards.  writes says that every step of the writing succeeds.
ExportCommand(o, out, writes, log, before) ==
    LET done == out = "" \/ writes IN
    [done |-> done, file |-> IF out # "" /\ writes THEN BuildExport(o) ELSE before,
     rows |-> IF done /\ log THEN 1 ELSE 0]

\* `config import`, likewise: merge is the default, and both modes are none.
ImportCommand(b, modes, dry, log, listening) ==
    LET result == IF modes = {"merge", "replace"} THEN "usage" ELSE applyImport(b, dry, listening) IN
    [result |-> result, rows |-> IF result = "imported" /\ log THEN 1 ELSE 0]

\* BuildSecurityObserve: the values of the preset and how firm they are.
SecurityObserve == [mode |-> [value |-> "discovery", hard |-> TRUE],
                    log  |-> [value |-> "its log", hard |-> FALSE]]

\* ApplyPreset: the flags in order; the first hard one that was given another
\* value ends it.  given has the flags the operator set, skip those this product
\* does not have.
ApplyPreset(preset, given, skip) ==
    [ok |-> ~\E f \in DOMAIN preset \cap DOMAIN given :
                f \notin skip /\ preset[f].hard /\ given[f] # preset[f].value,
     flags |-> [f \in (DOMAIN preset \ skip) \cup DOMAIN given |->
                   IF f \in DOMAIN given THEN given[f] ELSE preset[f].value]]

-----------------------------------------------------------------------------
\* The samples and their property.

Options == [redact : BOOLEAN, url : {"", Secret}, token : {"", Secret}, port : {"", "9000"}, rows : 0..1]

\* A bundle as exported, with a member taken away, or replaced by another value.
Tampered(b) ==
    {b} \cup {Obj([f \in DOMAIN b.value \ {g} |-> b.value[f]]) : g \in DOMAIN b.value}
        \cup {Obj([b.value EXCEPT ![g] = v]) :
                 g \in DOMAIN b.value, v \in {Str("kbounce"), Bool(TRUE), Obj([f \in {} |-> ""])}}

Before == Str("the file that was there")
Given == UNION {[fs -> {"discovery", "its log", "mitm"}] : fs \in SUBSET {"mode", "log"}}

BundleSamples ==
    (UNION {[kind : {"bundle"}, options : {o}, bundle : Tampered(BuildExport(o)), dry : BOOLEAN,
             listening : {{}, {"8080"}, {"8769"}, {"9000"}}] : o \in Options})
    \cup [kind : {"commands"}, options : Options, out : {"", "f"}, writes : BOOLEAN, log : BOOLEAN,
          modes : SUBSET {"merge", "replace"}, dry : BOOLEAN, listening : {{}, {"8080"}}]
    \cup [kind : {"preset"}, given : Given, skip : SUBSET {"mode", "log"}]

\* What export writes import reads; a redacted bundle holds no secret; a bundle
\* that is not this product's never gets in, and none is imported over a proxy
\* that answers where the bundle says it runs, or by a dry run.
BundlesTravel(s) ==
    LET b       == BuildExport(s.options)
        members == b.value["audit_webhook"].value
        result  == applyImport(s.bundle, s.dry, s.listening)
    IN /\ LoadAndValidate(b)
       /\ s.options.redact => \A f \in DOMAIN members \ {"redacted"} : members[f].value # Secret
       /\ result = "imported" =>
             /\ ~s.dry /\ s.bundle.value["product"].value = "gbounce"
             /\ s.bundle = b => s.listening \cap {"8769", IF s.options.port = "" THEN "8080"
                                                          ELSE s.options.port} = {}

\* A command is on record exactly when it did what it says: an export that could
\* not write leaves the file that was there and no row, an import that only
\* reports or is refused no row.
CommandsOnRecord(s) ==
    LET export == ExportCommand(s.options, s.out, s.writes, s.log, Before)
        import == ImportCommand(BuildExport(s.options), s.modes, s.dry, s.log, s.listening)
    IN /\ export.file \in {Before, BuildExport(s.options)}
       /\ export.rows = 1 => s.out = "" \/ export.file # Before
       /\ import.rows = 1 => import.result = "imported" /\ ~s.dry /\ s.modes # {"merge", "replace"}

\* A hard value of a preset is never silently another, and what the operator
\* gave is never replaced.
PresetsHold(s) ==
    LET applied == ApplyPreset(SecurityObserve, s.given, s.skip) IN
    applied.ok =>
       /\ "mode" \notin s.skip => applied.flags["mode"] = "discovery"
       /\ \A f \in DOMAIN s.given : applied.flags[f] = s.given[f]

BundlesAreSound(s) ==
    CASE s.kind = "bundle"   -> BundlesTravel(s)
      [] s.kind = "commands" -> CommandsOnRecord(s)
      [] s.kind = "preset"   -> PresetsHold(s)
=============================================================================
