------------------------------ MODULE Denials ------------------------------
(***************************************************************************)
(* What `gbounce denies recent` and the tool gbounce_denies_recent list    *)
(* (internal/profileallow/denies.go, internal/cli/profile_allow.go,        *)
(* internal/mcp/profile_allow.go): the decisions of the database, newest   *)
(* first, filtered, each with the command that would allow the request.    *)
(*                                                                         *)
(* A decision is a record of its verdict, at (its time), session, host ("" *)
(* when unknown) and port.  The text of --since is a record: form is       *)
(* "none", "short", "date" or "age"; good says that the date or the number *)
(* and the unit are ones; sign and space what else is in it; value the     *)
(* earliest time it stands for.                                            *)
(***************************************************************************)
EXTENDS Integers, SequencesExt, FiniteSets, Selection

DefaultLimit == 1   \* 50
MostLimit    == 2   \* 1000

Refused == -1

\* parseSinceFlag, of the command line: trims, and Atoi takes a sign.
parseSinceFlag(t) ==
    CASE t.form = "none"                       -> 0
      [] t.form \in {"date", "age"} /\ t.good  -> t.value
      [] OTHER                                 -> Refused

\* parseMCPSince, of the tool: no trimming and digits only.
parseMCPSince(t) ==
    CASE t.form = "none" /\ ~t.space                                        -> 0
      [] t.form = "date" /\ t.good /\ ~t.space                              -> t.value
      [] t.form = "age" /\ t.good /\ ~t.space /\ ~t.sign                    -> t.value
      [] OTHER                                                              -> Refused

\* actionAndResource and SynthSuggestedAllowCommand: the store keeps no reason,
\* so the source of every denial is unknown and only a missing host withholds
\* the suggestion.
Suggestion(d) ==
    IF d.host = "" THEN "review"
    ELSE [target |-> IF d.port \in {0, 80, 443} THEN <<d.host>> ELSE <<d.host, d.port>>]

\* The places of the denials that are asked for.
Wanted(rows, since, session) ==
    {i \in DOMAIN rows : /\ rows[i].verdict = "deny" /\ rows[i].at >= since
                         /\ session \in {"", rows[i].session}}

\* Mutant of RecentDenies: as many rows are read as may be listed.
RecentDeniesReadsFew(rows, since, session, limit) ==
    LET most == CASE limit <= 0 -> DefaultLimit
                  [] limit > MostLimit -> MostLimit
                  [] OTHER -> limit
        read == SubSeq(rows, 1, IF Len(rows) < most THEN Len(rows) ELSE most)
    IN Selected(read, Wanted(read, since, session))

\* RecentDenies: four times as many rows are read as may be listed, and what
\* is no denial of the window is dropped afterwards.
RecentDenies(rows, since, session, limit) ==
    LET most == CASE limit <= 0 -> DefaultLimit
                  [] limit > MostLimit -> MostLimit
                  [] OTHER -> limit
        read == SubSeq(rows, 1, IF Len(rows) < 4 * most THEN Len(rows) ELSE 4 * most)
        hits == Selected(read, Wanted(read, since, session))
    IN SubSeq(hits, 1, IF Len(hits) < most THEN Len(hits) ELSE most)

-----------------------------------------------------------------------------
\* The two callers: what they list, and whether they list at all.

FiveMinutes == 2    \* the earliest time of the default window

Listing(rows, since, session, limit) ==
    [ok   |-> since # Refused,
     rows |-> IF since = Refused THEN <<>> ELSE RecentDenies(rows, since, session, limit)]

\* `denies recent`: an empty --since is no bound at all.
DeniesRecentCommand(rows, text, session, limit) ==
    Listing(rows, parseSinceFlag(text), session, limit)

\* gbounce_denies_recent: an empty since is the default window.
DeniesRecentTool(rows, text, session, limit) ==
    Listing(rows, IF text.form = "none" /\ ~text.space THEN FiveMinutes ELSE parseMCPSince(text),
            session, limit)

-----------------------------------------------------------------------------
\* The samples and their property.

Texts == [form : {"none", "short", "date", "age"}, good : BOOLEAN, sign : BOOLEAN,
          space : BOOLEAN, value : {2}]

Decisions(n) == {[i \in 1..n |-> [verdict |-> v[i], at |-> n + 1 - i, session |-> s[i],
                                  host |-> "h", port |-> 443]] :
                    v \in [1..n -> {"deny", "allow"}], s \in [1..n -> {"s1", "s2"}]}

DenialSamples ==
    [kind : {"since"}, text : Texts, rows : Decisions(2)]
    \cup [kind : {"denials"}, rows : UNION {Decisions(n) : n \in {0, 1, 4, 5}},
          session : {"", "s1"}, since : {0, 2}, limit : {0, 1, 2}]

\* For the same plain text the command and the tool list the same; and what the
\* tool lists, of any text, the command lists too.  A listing is the newest
\* denials of the window, none left out between them; and it is complete, up to
\* its limit, unless other decisions crowd the denials out of the rows read.
DenialsAreListed(s) ==
    CASE s.kind = "since" ->
         LET command == DeniesRecentCommand(s.rows, s.text, "", 0)
             tool    == DeniesRecentTool(s.rows, s.text, "", 0)
         IN /\ ~s.text.space /\ ~s.text.sign /\ s.text.form # "none" => command = tool
            /\ tool.ok => command.ok /\ ToSet(tool.rows) \subseteq ToSet(command.rows)
      [] s.kind = "denials" ->
         LET listed == RecentDenies(s.rows, s.since, s.session, s.limit)
             wanted == Wanted(s.rows, s.since, s.session)
             most   == IF s.limit = 0 THEN DefaultLimit ELSE s.limit
         IN /\ Len(listed) <= most
            /\ \A i \in wanted : \A n \in DOMAIN listed :
                  s.rows[i].at > listed[n].at => s.rows[i] \in ToSet(listed)
            /\ Len(s.rows) <= 4 * most =>
                  Len(listed) = IF Cardinality(wanted) < most THEN Cardinality(wanted) ELSE most
=============================================================================
