---------------------------- MODULE ProfileStore ----------------------------
(***************************************************************************)
(* profiles.yaml and the commands that write it: `profile install`         *)
(* (internal/profile/install.go) and `profile allow` of the command line   *)
(* and of the MCP tool (internal/profileallow).  Every command is a        *)
(* process of its own that reads the file, decides, and renames a new file *)
(* into place; nothing locks the file between the two.  An agent's request *)
(* through MCP goes to the pending queue unless the operator opted in.     *)
(***************************************************************************)
EXTENDS Integers, FiniteSets

CONSTANTS
    Names,        \* names of profiles
    Writers,      \* processes that run a command
    MaxCommands,  \* bound: commands
    MaxEdits      \* bound: edits of the file by hand

VARIABLES
    profiles,   \* the file: see Yaml
    queue,    \* the queue file: how often each request is in it
    writer,     \* of each writer: what its command is about to do
    commands,   \* commands so far; the number names the command
    edits,      \* edits by hand so far
    selfGrant,  \* IAM_JIT_BOUNCER_ALLOW_AGENT_SELF_GRANT
    raced,      \* history: a rename came between another's read and rename
    granted,    \* history: <<profile, rule>> of the allow commands that succeeded
    installed   \* history: of each profile, the install it comes from

vars == <<profiles, queue, writer, commands, edits, selfGrant, raced, granted, installed>>

Local    == 0                               \* Source "" or "local"
Commands == 1..MaxCommands
Rules    == [by : {"cli", "mcp"}, cmd : Commands, valid : BOOLEAN]
Profile  == [source : {Local} \cup Commands, rules : SUBSET Rules]

\* The file: whether its text parses, and its profiles; none when absent.
Yaml(parses, profs) == [parses |-> parses, all |-> profs]

\* Mutant of IsLocalSource: an installed profile may be edited.
IsLocalSourceAny(p) == TRUE

IsLocalSource(p) == p.source = Local

\* LoadProfiles validates what readProfilesFile and UpsertProfile only parse:
\* one rule that does not parse refuses the whole file.
LoadProfiles(f) ==
    f.parses /\ \A n \in DOMAIN f.all : \A r \in f.all[n].rules : r.valid

Idle == [at |-> "idle"]

TypeOK ==
    /\ profiles.parses \in BOOLEAN /\ DOMAIN profiles.all \subseteq Names
    /\ \A n \in DOMAIN profiles.all : profiles.all[n] \in Profile
    /\ queue \in [Commands -> 0..MaxCommands]
    /\ \A w \in Writers : writer[w].at \in {"idle", "check", "merge", "upsert", "rename"}
    /\ commands \in 0..MaxCommands /\ edits \in 0..MaxEdits
    /\ selfGrant \in BOOLEAN /\ raced \in BOOLEAN
    /\ granted \subseteq (Names \X Rules)
    /\ installed \in [Names -> {Local} \cup Commands]

\* Any of the profiles may exist at first, written by hand.
Init ==
    /\ \E have \in SUBSET Names :
          profiles = Yaml(TRUE, [n \in have |-> [source |-> Local, rules |-> {}]])
    /\ queue = [c \in Commands |-> 0]
    /\ writer = [w \in Writers |-> Idle]
    /\ commands = 0 /\ edits = 0
    /\ selfGrant \in BOOLEAN /\ raced = FALSE
    /\ granted = {} /\ installed = [n \in Names |-> Local]

Begin(w) ==
    /\ writer[w] = Idle /\ commands < MaxCommands
    /\ commands' = commands + 1

Goes(w, state) == writer' = [writer EXCEPT ![w] = state]

Files == <<profiles, queue, edits, selfGrant, raced, granted, installed>>

-----------------------------------------------------------------------------
\* install.

\* What --from may name and what is found there: a URL and its answer, or a
\* path to a file or to a bundle.
Origins ==
    [via : {"web"}, status : {200, 404}, fits : BOOLEAN]
    \cup [via : {"path"}, is : {"absent", "file", "directory"},
          holds : SUBSET {"gbounce.yaml", "index entry"}]
    \cup [via : {"other"}]

\* fetchInstallPayload and readLocalInstallSource: whether there are bytes.
Fetched(from) ==
    CASE from.via = "web"   -> from.status = 200 /\ from.fits
      [] from.via = "path"  -> \/ from.is = "file"
                               \/ from.is = "directory" /\ from.holds # {}
      [] from.via = "other" -> FALSE

\* The bytes: their shape as a document, and what it holds.
Documents ==
    [shape : {"no yaml", "profiles", "profiles no map", "generator", "other"},
     names : SUBSET Names, valid : BOOLEAN, pinned : {"no pin", "as pinned", "not as pinned"}]

\* InstallFromBytes up to the conflict gate, normalizeInstallDocument and
\* parseInstallPayload: the profiles the document stands for, none when it is
\* refused.  A generator's document is one profile, named by itself or by its
\* source; one profile that does not validate refuses the others too.
Payload(doc) ==
    IF /\ doc.pinned # "not as pinned" /\ doc.valid
       /\ doc.shape = "profiles" \/ (doc.shape = "generator" /\ Cardinality(doc.names) = 1)
    THEN doc.names ELSE {}

Installable == {Payload(d) : d \in {d \in Documents : \E f \in Origins : Fetched(f)}} \ {{}}

\* `profile install`: what is refused so far changes nothing.
Install(w) ==
    /\ Begin(w)
    /\ \E names \in Installable, force \in BOOLEAN :
          Goes(w, [at |-> "check", names |-> names, force |-> force, id |-> commands'])
    /\ UNCHANGED Files

\* InstallFromBytes: the conflict gate, on a first read of the file.
InstallCheck(w) ==
    /\ writer[w].at = "check"
    /\ LET c == writer[w]
           conflicts == c.names \cap DOMAIN profiles.all
       IN Goes(w, IF profiles.parses /\ (conflicts = {} \/ c.force)
                  THEN [c EXCEPT !.at = "merge"] ELSE Idle)
    /\ UNCHANGED <<Files, commands>>

\* Mutant of Merged: the profiles of the payload replace the file.
MergedAlone(all, names, p) == [n \in names |-> p]

Merged(all, names, p) ==
    [n \in DOMAIN all \cup names |-> IF n \in names THEN p ELSE all[n]]

\* writeInstalledProfiles reads the file again and writes the temporary file.
InstallMerge(w) ==
    /\ writer[w].at = "merge"
    /\ LET c == writer[w] IN
       Goes(w, IF profiles.parses
               THEN [at |-> "rename", names |-> c.names, id |-> c.id, rule |-> {},
                     all |-> Merged(profiles.all, c.names, [source |-> c.id, rules |-> {}])]
               ELSE Idle)
    /\ UNCHANGED <<Files, commands>>

-----------------------------------------------------------------------------
\* allow.

\* Mutant of Queued: an agent's request is applied like an operator's.
QueuedNever(by) == FALSE

Queued(by) == by = "mcp" /\ ~selfGrant

\* What a request for an allow rule holds: "a*b" stands for a target that is no
\* host pattern.
Requests ==
    [target : {"", "*", "host", "a*b"}, actions : SUBSET {"", "GET", "GET:/x"}, reason : {"", "why"}]

\* validateTargetActions and the reason: the text of the target is not parsed,
\* so a rule may be written that no loader takes.
Asked(q) ==
    /\ q.target \notin {"", "*"} /\ q.reason # ""
    /\ q.actions # {} /\ q.actions \cap {"", "GET"} = {}

AskedRules == {q.target = "host" : q \in {q \in Requests : Asked(q)}}

\* AddProfileAllowRule up to the write: the profile is loaded, must exist and
\* be local; the request is queued, or the loaded profile gets the rule.
Allow(w, by) ==
    /\ Begin(w)
    /\ \E n \in Names, valid \in AskedRules :
          LET rule == [by |-> by, cmd |-> commands', valid |-> valid]
              ok == /\ LoadProfiles(profiles) /\ n \in DOMAIN profiles.all
                    /\ IsLocalSource(profiles.all[n])
          IN /\ Goes(w, IF ok /\ ~Queued(by)
                        THEN [at |-> "upsert", name |-> n, rule |-> {rule},
                              p |-> [profiles.all[n] EXCEPT !.rules = @ \cup {rule}]]
                        ELSE Idle)
             /\ queue' = IF ok /\ Queued(by)
                           THEN [queue EXCEPT ![commands'] = @ + 1] ELSE queue
    /\ UNCHANGED <<profiles, edits, selfGrant, raced, granted, installed>>

\* `profile allow`, and the tool gbounce_profile_allow of an agent's MCP server.
ProfileAllowCommand(w) == Allow(w, "cli")
toolProfileAllow(w)    == Allow(w, "mcp")

\* UpsertProfile: reads the file again, refuses a profile that is not local any
\* more, and puts the loaded profile in place of the one it reads.
AllowUpsert(w) ==
    /\ writer[w].at = "upsert"
    /\ LET c == writer[w]
           readonly == c.name \in DOMAIN profiles.all /\ ~IsLocalSource(profiles.all[c.name])
       IN Goes(w, IF profiles.parses /\ ~readonly
                  THEN [at |-> "rename", names |-> {c.name}, id |-> Local, rule |-> c.rule,
                        all |-> Merged(profiles.all, {c.name}, c.p)]
                  ELSE Idle)
    /\ UNCHANGED <<Files, commands>>

-----------------------------------------------------------------------------
\* What another writer has read and not yet replaced; an install's conflict
\* gate counts as a read too.
HoldsRead(v) == writer[v].at \in {"merge", "upsert", "rename"}

\* The rename that ends both commands.
Rename(w) ==
    /\ writer[w].at = "rename"
    /\ LET c == writer[w] IN
       /\ profiles' = Yaml(TRUE, c.all)
       /\ raced' = (raced \/ \E v \in Writers \ {w} : HoldsRead(v))
       /\ granted' = (IF c.id = Local THEN granted
                      ELSE {g \in granted : g[1] \notin c.names}) \cup (c.names \X c.rule)
       /\ installed' = IF c.id = Local THEN installed
                       ELSE [n \in Names |-> IF n \in c.names THEN c.id ELSE installed[n]]
    /\ Goes(w, Idle)
    /\ UNCHANGED <<queue, commands, edits, selfGrant>>

\* The command is killed: a temporary file is left, the file is as it was.
Kill(w) ==
    /\ writer[w] # Idle
    /\ Goes(w, Idle)
    /\ UNCHANGED <<Files, commands>>

\* An operator breaks the text of the file, or mends it.
Edit ==
    /\ edits < MaxEdits
    /\ edits' = edits + 1
    /\ profiles' = [profiles EXCEPT !.parses = ~@]
    /\ raced' = (raced \/ \E v \in Writers : HoldsRead(v))
    /\ UNCHANGED <<queue, writer, commands, selfGrant, granted, installed>>

Next ==
    \/ Edit
    \/ \E w \in Writers : \/ Install(w) \/ InstallCheck(w) \/ InstallMerge(w)
                          \/ ProfileAllowCommand(w) \/ toolProfileAllow(w) \/ AllowUpsert(w)
                          \/ Rename(w) \/ Kill(w)

Spec == Init /\ [][Next]_vars

-----------------------------------------------------------------------------
\* Properties.

\* As long as no two commands overlap, what one of them reported done stays: a
\* granted rule until its profile is installed anew, an installed profile until
\* the next install of it, whatever fails or is killed in between.
WritesStay ==
    ~raced =>
       /\ \A g \in granted : g[1] \in DOMAIN profiles.all /\ g[2] \in profiles.all[g[1]].rules
       /\ \A n \in Names : installed[n] # Local =>
             n \in DOMAIN profiles.all /\ profiles.all[n].source = installed[n]

\* Overlaps or not, a profile that names an installed source is what was
\* installed: no interleaving lets a local rule into it.  And without the
\* operator's opt-in what an agent asks for stays a request: it is queued once
\* and no interleaving writes it to the file.
GrantsGenuine ==
    /\ \A n \in DOMAIN profiles.all :
          profiles.all[n].source # Local => profiles.all[n].rules = {}
    /\ ~selfGrant => \A n \in DOMAIN profiles.all : \A r \in profiles.all[n].rules : r.by = "cli"
    /\ \A c \in Commands : queue[c] <= 1
=============================================================================
