------------------------------ MODULE McpConfig ------------------------------
(***************************************************************************)
(* `gbounce mcp install-*` (internal/mcpinstall/install.go): the entry of  *)
(* this server in the configuration file of an agent's MCP client.         *)
(*                                                                         *)
(* A file is a record: text is "absent", "empty", "bad" (no JSON), "null"  *)
(* or "json"; servers is its mcpServers member, a function from the names  *)
(* of servers to their entries, or "none", or "other" (not an object);     *)
(* other is what else the file holds.                                      *)
(***************************************************************************)
EXTENDS Naturals, Sequences, FiniteSets

NoServers == [n \in {} |-> <<>>]

\* ServerEntryForAgent: the client's name is baked into the entry.
Entry(client) == <<"gbounce", client>>

\* ClaudeCodeConfigCandidates and its kin: where a client keeps its file; a
\* client in the cloud has none.
Candidates(client) ==
    CASE client = "claude-code" -> <<"desktop.json", "code.json", "home.json">>
      [] client = "cursor"      -> <<"cursor.json">>
      [] client = "codex"       -> <<"codex.toml">>
      [] client = "devin"       -> <<>>

\* resolveTarget: the explicit path, or the first candidate that exists, or the
\* first candidate.
resolveTarget(explicit, candidates, existing) ==
    IF explicit # "" THEN explicit
    ELSE LET here == {i \in DOMAIN candidates : candidates[i] \in existing}
             first == IF here = {} THEN 1 ELSE CHOOSE i \in here : \A j \in here : i <= j
         IN candidates[first]

\* InstallClaudeCode, InstallCursor, InstallCodex, InstallDevin: the file to
\* edit; TOML is printed and not edited, and so is what a client in the cloud
\* needs.
Target(client, explicit, existing) ==
    LET target == resolveTarget(explicit, Candidates(client), existing) IN
    IF client = "devin" \/ (client = "codex" /\ target = "codex.toml") THEN "print" ELSE target

\* Mutant of Merged: the file is written with this server's entry alone.
MergedAlone(servers, client) == [n \in {"gbounce"} |-> Entry(client)]

Merged(servers, client) ==
    [n \in DOMAIN servers \cup {"gbounce"} |->
        IF n = "gbounce" THEN Entry(client) ELSE servers[n]]

\* installJSON: the file afterwards, or the same file when it refuses.  A file
\* that says null leaves no map to write to: the command ends in a panic.
installJSON(f, client, force) ==
    LET readable == f.text \in {"absent", "empty", "json"}
        servers == IF f.text = "json" /\ f.servers # "none" /\ f.servers # "other"
                   THEN f.members ELSE NoServers
        refused == \/ f.text = "null" \/ (~readable /\ ~force)
                   \/ (f.text = "json" /\ f.servers = "other" /\ ~force)
    IN IF refused THEN f
       ELSE [text |-> "json", servers |-> "object", members |-> Merged(servers, client),
             other |-> IF f.text = "json" THEN f.other ELSE {}]

\* The install command: only its target is written, by a rename.
InstallCommand(disk, client, explicit, force) ==
    LET existing == {p \in DOMAIN disk : disk[p].text # "absent"}
        target   == Target(client, explicit, existing)
    IN [p \in DOMAIN disk |-> IF p = target THEN installJSON(disk[p], client, force) ELSE disk[p]]

-----------------------------------------------------------------------------
\* The samples and their property.

Theirs == <<"their", "entry">>

Files ==
    [text : {"absent", "empty", "bad", "null"}, servers : {"none"}, members : {NoServers}, other : {{}}]
    \cup [text : {"json"}, servers : {"none", "other"}, members : {NoServers}, other : {{}, {"theme"}}]
    \cup [text : {"json"}, servers : {"object"}, other : {{}, {"theme"}},
          members : {[n \in ns |-> Theirs] : ns \in SUBSET {"gbounce", "github"}}]

Absent == [text |-> "absent", servers |-> "none", members |-> NoServers, other |-> {}]

ConfigSamples ==
    [kind : {"mcp config"}, file : Files, at : {"code.json", "home.json", "codex.toml"},
     client : {"claude-code", "codex", "devin"}, explicit : {"", "home.json"}, force : BOOLEAN]

\* What another program keeps in its file is never lost without --force, the
\* other servers not even with it; a file that is not the client's, or that the
\* command does not know how to edit, stays as it is; and a second install
\* changes nothing.
InstallKeepsTheRest(s) ==
    LET disk   == [p \in {"desktop.json", "code.json", "home.json", "codex.toml"} |->
                      IF p = s.at THEN s.file ELSE Absent]
        disk2  == InstallCommand(disk, s.client, s.explicit, s.force)
        after  == disk2[s.at]
        had    == s.file.text = "json" /\ s.file.servers = "object"
        target == Target(s.client, s.explicit, IF s.file.text = "absent" THEN {} ELSE {s.at})
    IN /\ s.file.text = "json" => after.other = s.file.other
       /\ had => \A n \in DOMAIN s.file.members \ {"gbounce"} :
                    n \in DOMAIN after.members /\ after.members[n] = s.file.members[n]
       /\ had /\ target = s.at => after.members["gbounce"] = Entry(s.client)
       /\ s.at = "codex.toml" => after = s.file
       /\ s.file.text \in {"bad", "null"} /\ ~s.force => after = s.file
       /\ InstallCommand(disk2, s.client, s.explicit, s.force) = disk2
=============================================================================
