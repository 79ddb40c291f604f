------------------------------- MODULE Policy -------------------------------
(***************************************************************************)
(* The rules of a profile: the deny_hosts entries and their two parsers    *)
(* (internal/proxy/deny_hosts.go and internal/profile/profile.go), the     *)
(* method, host, path and query rules (internal/profile/rules.go), and the *)
(* bridge from the profile generator's allows and denies to both.  Pure    *)
(* operators: PolicySweep evaluates them over small samples.               *)
(*                                                                         *)
(* A host is its sequence of labels, a path the sequence of its characters,*)
(* so that suffixes and prefixes are those of the strings.  A host pattern *)
(* as an operator writes it is a record                                    *)
(*   stars  how many asterisks it has                                      *)
(*   lead   it starts with "*."                                            *)
(*   name   what is left of it without the asterisks                       *)
(*   extra  what else the text holds: "none", "space", "scheme", "path",   *)
(*          "port" or "bracket" (it starts with "[")                       *)
(* and the bare "*" has stars = 1, lead = FALSE and an empty name.         *)
(***************************************************************************)
EXTENDS Naturals, SequencesExt, Selection

Blank  == "blank"    \* a method entry of white space
NoPath == <<>>

Empty(t) == t.stars = 0 /\ t.name = <<>>
Bare(t)  == t.stars = 1 /\ ~t.lead /\ t.name = <<>>

\* validateHostLiteral: what a name must not contain.
Literal(t) == t.name # <<>> /\ t.extra \in {"none", "bracket"}

\* Mutant of ParseDenyHost: any single asterisk is taken for a leading one.
ParseDenyHostAnyStar(t) == ~Empty(t) /\ ~Bare(t) /\ t.stars \in {0, 1} /\ Literal(t)

\* Of the proxy: an exact name or one leading wildcard over a literal.
ParseDenyHost(t) ==
    /\ ~Empty(t) /\ ~Bare(t)
    /\ t.stars = 0 \/ (t.stars = 1 /\ t.lead)
    /\ Literal(t)

\* ParseDenyHosts: blank entries and comments, which have no text, are skipped;
\* one bad entry refuses the list.
ParseDenyHosts(entries) ==
    LET texts == Selected(entries, {i \in DOMAIN entries : entries[i].text}) IN
    IF \A i \in DOMAIN texts : ParseDenyHost(texts[i].entry) THEN texts ELSE "refused"

\* Mutant of ParseDenyHostsFile: a flow list after the key is not read.
ParseDenyHostsFileNoFlow(lines) ==
    LET entries(l) == IF l.form = "item" THEN l.entries ELSE <<>> IN
    ParseDenyHosts(FlattenSeq([i \in DOMAIN lines |-> entries(lines[i])]))

\* ParseDenyHostsFile: of each line its entries: one for a bare entry or an item
\* of a list; those of a flow list after the key deny_hosts, whose other forms
\* have none; none of a blank line or a comment.
ParseDenyHostsFile(lines) ==
    LET entries(l) == IF l.form \in {"item", "flow"} THEN l.entries ELSE <<>> IN
    ParseDenyHosts(FlattenSeq([i \in DOMAIN lines |-> entries(lines[i])]))

\* Of the profile loader, which tests the same conditions in another order.
ParseDenyHostEntry(t) ==
    /\ ~Empty(t) /\ ~Bare(t)
    /\ t.extra \notin {"space", "scheme", "path"}
    /\ t.stars < 2
    /\ t.stars = 1 => t.lead
    /\ t.name # <<>>
    /\ t.extra # "port"

\* The request's host loses its brackets, the entry keeps them.
MatchDenyHost(t, host) ==
    /\ t.extra # "bracket"
    /\ IF t.stars = 1 THEN IsSuffix(t.name, host) ELSE host = t.name

MatchDenyHosts(ts, host) == \E i \in DOMAIN ts : MatchDenyHost(ts[i], host)

\* What the documentation of deny_hosts promises of an entry.
NameCovers(t, host) == host = t.name \/ (t.lead /\ IsSuffix(t.name, host))

-----------------------------------------------------------------------------
\* Rules.  A spec is what the file says: a host pattern (Empty when there is
\* none), port (0 for any), methods, path, prefix, regex (the set of paths it
\* matches, {} when there is none), broken (the expression does not compile)
\* and query (the parameters it asks for, "" for an empty key).

PathsSet(s) == {f \in {"path", "prefix"} : s[f] # NoPath} \cup {f \in {"regex"} : s[f] # {}}

ParseRule(s) ==
    /\ Bare(s.host) \/ s.host.stars = 0
       \/ (s.host.stars = 1 /\ s.host.lead /\ s.host.name # <<>>)
    /\ ~s.broken
    /\ \A f, g \in PathsSet(s) : f = g
    /\ "" \notin s.query

Methods(s) == s.methods \ {Blank}

HasPredicates(s) ==
    \/ ~(Empty(s.host) \/ Bare(s.host)) \/ s.port # 0 \/ Methods(s) # {}
    \/ PathsSet(s) # {} \/ s.query # {}

\* An allow rule that says nothing must say "*" to mean everything.
ParseAllowRule(s) == ParseRule(s) /\ (Bare(s.host) \/ HasPredicates(s))

MatchHost(t, host) ==
    \/ Empty(t) \/ Bare(t)
    \/ t.extra = "none" /\ (host = t.name \/ (t.lead /\ IsSuffix(t.name, host)))

\* A request: its host, port, method and path, and the parameters of its query
\* that have the wanted value.
Match(s, r) ==
    /\ MatchHost(s.host, r.host)
    /\ s.port \in {0, r.port}
    /\ Methods(s) = {} \/ r.method \in Methods(s)
    /\ CASE s.path # NoPath                       -> r.path = s.path
         [] s.path = NoPath /\ s.prefix # NoPath  -> IsPrefix(s.prefix, r.path)
         [] s.path = NoPath /\ s.prefix = NoPath /\ s.regex # {} -> r.path \in s.regex
         [] OTHER                                 -> TRUE
    /\ s.query \subseteq r.query

\* Mutant of RequiresMITM: a query parameter is thought visible in a CONNECT.
RequiresMITMNoQuery(s) == Methods(s) # {} \/ PathsSet(s) # {}

RequiresMITM(s) == Methods(s) # {} \/ PathsSet(s) # {} \/ s.query # {}

\* FirstMatch, and FirstAllowMatch after it: the rule's index, 0 for none.
FirstMatch(rules, mitm, r) ==
    LET hits == {i \in DOMAIN rules : (mitm \/ ~RequiresMITM(rules[i])) /\ Match(rules[i], r)}
    IN IF hits = {} THEN 0 ELSE CHOOSE i \in hits : \A j \in hits : i <= j

-----------------------------------------------------------------------------
\* The generator's rules: bouncer ("" or "gbounce" for this one), a target with
\* a host pattern (Empty when it is not a text), a path and perhaps a scheme,
\* which is dropped, and actions.

\* Mutant of SpecOf: the path of the target is lost.
SpecOfHostOnly(g) ==
    [host |-> g.target, port |-> 0, methods |-> g.actions, path |-> NoPath,
     prefix |-> NoPath, regex |-> {}, broken |-> FALSE, query |-> {}]

SpecOf(g) ==
    [host |-> g.target, port |-> 0, methods |-> g.actions \ {Blank}, path |-> NoPath,
     prefix |-> g.path, regex |-> {}, broken |-> FALSE, query |-> {}]

Addressed(g) == g.bouncer \in {"", "gbounce"} /\ ~Empty(g.target)

\* canonicalRuleKey: what is left of a rule without its reason.
AddNew(seq, x) == IF x \in {seq[i] : i \in DOMAIN seq} THEN seq ELSE Append(seq, x)

MergeDeny(p, g) ==
    CASE ~Addressed(g) -> p
      [] Addressed(g) /\ g.actions = {} /\ g.path = NoPath ->
            [p EXCEPT !.hosts = AddNew(@, g.target)]
      [] OTHER -> [p EXCEPT !.denies = AddNew(@, SpecOf(g))]

MergeAllow(p, g) ==
    IF Addressed(g) THEN [p EXCEPT !.allows = AddNew(@, SpecOf(g))] ELSE p

\* mergeGeneratorRules: the denies one after the other, then the allows.
mergeGeneratorRules(p, denies, allows) ==
    LET denied[i \in 0..Len(denies)] ==
            IF i = 0 THEN p ELSE MergeDeny(denied[i-1], denies[i])
        merged[i \in 0..Len(allows)] ==
            IF i = 0 THEN denied[Len(denies)] ELSE MergeAllow(merged[i-1], allows[i])
    IN  merged[Len(allows)]

\* validate, for every profile of the file.
Valid(p) ==
    /\ \A i \in DOMAIN p.hosts  : ParseDenyHostEntry(p.hosts[i])
    /\ \A i \in DOMAIN p.denies : ParseRule(p.denies[i])
    /\ \A i \in DOMAIN p.allows : ParseAllowRule(p.allows[i])

\* The decision the proxy makes of a decrypted request.
Denied(p, r) ==
    \/ MatchDenyHosts(p.hosts, r.host)
    \/ FirstMatch(p.denies, TRUE, r) # 0 /\ FirstMatch(p.allows, TRUE, r) = 0

\* What the generator's rule means, in its own words: this host, below this
\* path, these methods (all when there are none); "*" is every host.
Means(g, r) ==
    /\ g.bouncer \in {"", "gbounce"}
    /\ Bare(g.target) \/ NameCovers(g.target, r.host)
    /\ IsPrefix(g.path, r.path)
    /\ g.actions \subseteq {Blank} \/ r.method \in g.actions
=============================================================================
