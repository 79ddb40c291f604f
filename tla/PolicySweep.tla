----------------------------- MODULE PolicySweep -----------------------------
(***************************************************************************)
(* Policy evaluated over samples: one behaviour per sample, which is a     *)
(* deny_hosts entry, a list of rules or a generator's profile.             *)
(***************************************************************************)
EXTENDS Policy

VARIABLE sample

Com == <<"com">>      Org  == <<"org">>
ACom == <<"a", "com">>  BACom == <<"b", "a", "com">>
Root == <<"/">>      Deep == <<"/", "x">>

Hosts == {Com, Org, ACom, BACom}

Requests == [host : Hosts, port : {80, 443}, method : {"GET", "PUT"},
             path : {Root, Deep}, query : {{}, {"k"}}]

Texts == {t \in [stars : 0..2, lead : BOOLEAN, name : {<<>>, Com, ACom},
                 extra : {"none", "space", "scheme", "path", "port", "bracket"}] :
             /\ t.lead => t.stars >= 1
             /\ t.name = <<>> => t.extra = "none"}

Plain(name) == [stars |-> 0, lead |-> FALSE, name |-> name, extra |-> "none"]
Star(name)  == [stars |-> 1, lead |-> TRUE, name |-> name, extra |-> "none"]
Anything    == [stars |-> 1, lead |-> FALSE, name |-> <<>>, extra |-> "none"]

RuleSpecs ==
    [host : {Plain(<<>>), Plain(ACom), Star(Com), Anything}, port : {0, 443},
     methods : {{}, {"GET"}, {Blank}}, path : {NoPath, Deep}, prefix : {NoPath, Root},
     regex : {{}, {Deep}}, broken : {FALSE}, query : {{}, {"k"}, {""}}]

GeneratorRules ==
    [bouncer : {"gbounce", "ibounce"}, target : {Plain(ACom), Star(ACom), Anything, Plain(<<>>)},
     path : {NoPath, Deep}, actions : {{}, {"GET"}, {Blank}, {"GET", Blank}}]

Bases ==
    {[hosts |-> hs, denies |-> <<>>, allows |-> <<>>] : hs \in {<<>>, <<Plain(ACom)>>}}

Entry(t)   == [text |-> TRUE, entry |-> t]
NoEntry    == [text |-> FALSE, entry |-> Anything]
FileLines ==
    [form : {"comment", "key"}, entries : {<<>>}]
    \cup [form : {"item"}, entries : {<<Entry(t)>> : t \in {Plain(ACom), Star(Com), Anything}}]
    \cup [form : {"flow"}, entries : {<<>>, <<Entry(Plain(Com)), NoEntry, Entry(Star(ACom))>>}]

Samples ==
    [kind : {"entry"}, text : Texts]
    \cup [kind : {"file"}, lines : {<<k, l>> : k \in FileLines, l \in FileLines}]
    \cup [kind : {"rules"}, rules : {<<s>> : s \in RuleSpecs}]
    \cup [kind : {"merge"}, base : Bases, allow : {FALSE},
          given : {<<g, h>> : g \in GeneratorRules, h \in GeneratorRules}]
    \cup [kind : {"merge"}, base : Bases, allow : {TRUE},
          given : {<<g>> : g \in GeneratorRules}]

-----------------------------------------------------------------------------
\* Properties.

\* An entry the profile loader accepts is accepted by the proxy, which parses it
\* again with other code when the profile becomes active, and the other way
\* round; and an accepted entry denies the hosts it names and no other (a
\* bracketed address aside, see the README).
EntriesMeanWhatTheySay ==
    sample.kind = "entry" =>
       /\ ParseDenyHost(sample.text) <=> ParseDenyHostEntry(sample.text)
       /\ ParseDenyHost(sample.text) /\ sample.text.extra # "bracket" =>
             \A h \in Hosts : MatchDenyHosts(<<sample.text>>, h) <=> NameCovers(sample.text, h)

\* A file of deny_hosts that is accepted denies what its lines name, in either
\* form of a list, and one line that is no entry refuses the file.
FilesMeanWhatTheySay ==
    sample.kind = "file" =>
       LET rules   == ParseDenyHostsFile(sample.lines)
           named   == {e.entry : e \in {e \in UNION {ToSet(sample.lines[i].entries) : i \in DOMAIN sample.lines} : e.text}}
       IN IF \E t \in named : ~ParseDenyHost(t) THEN rules = "refused"
          ELSE \A h \in Hosts : MatchDenyHosts([i \in DOMAIN rules |-> rules[i].entry], h)
                                    <=> \E t \in named : NameCovers(t, h)

\* Without decryption a verdict depends on nothing that only decryption shows:
\* a rule about methods, paths or parameters is skipped, never half applied.
UndecryptedIsBlind ==
    sample.kind = "rules" =>
       \A r1, r2 \in Requests :
          r1.host = r2.host /\ r1.port = r2.port =>
             FirstMatch(sample.rules, FALSE, r1) = FirstMatch(sample.rules, FALSE, r2)

\* What the generator denies stays denied in the profile its rules are merged
\* into, and what it allows is allowed and nothing else, whatever duplicates
\* the merge drops: a file that loads means what its generator meant.
MergeKeepsMeaning ==
    sample.kind = "merge" =>
       LET p == mergeGeneratorRules(sample.base, IF sample.allow THEN <<>> ELSE sample.given,
                                    IF sample.allow THEN sample.given ELSE <<>>)
           meant(r) == \E i \in DOMAIN sample.given : Means(sample.given[i], r)
       IN Valid(p) =>
            \A r \in Requests :
               IF sample.allow
               THEN meant(r) <=> FirstMatch(p.allows, TRUE, r) # 0
               ELSE Denied(p, r) <=> (meant(r) \/ MatchDenyHosts(sample.base.hosts, r.host))

\* All of them: what the entries and rules of a profile say is what the
\* proxy does.
RulesMeanWhatTheySay ==
    EntriesMeanWhatTheySay /\ FilesMeanWhatTheySay /\ UndecryptedIsBlind /\ MergeKeepsMeaning
=============================================================================
