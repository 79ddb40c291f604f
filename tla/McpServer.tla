------------------------------ MODULE McpServer ------------------------------
(***************************************************************************)
(* The MCP servers of the agents (internal/mcp), each a process that       *)
(* answers one JSON-RPC line after the other, and the dynamic-denies file  *)
(* two of their tools rewrite.  An operator edits the same file.  What a   *)
(* proxy would enforce of it is the loader's answer (internal/dynamicdeny).*)
(***************************************************************************)
EXTENDS Naturals, FiniteSets

CONSTANTS
    Servers,     \* MCP servers, one per agent
    MaxAdds      \* bound: rules added; their number is their minted id

VARIABLES
    denies,     \* the file: the rules in it, absent when there is none
    server,     \* of each server: the call it executes
    adds,       \* rules added so far
    late,       \* an hour has passed: what was to last an hour has expired
    clumsy,     \* history: some rule was added with a duration no loader accepts
    overlapped, \* history: the file changed between a server's read and rename
    standing    \* history: rules acknowledged and not removed since

mcpVars == <<denies, server, adds, late, clumsy, overlapped, standing>>

Durations == {"permanent", "1h", "1 hour"}

Ids   == 1..MaxAdds
Rule  == [id : Ids, duration : Durations, expires : BOOLEAN]
Ready == [at |-> "ready"]

\* computeExpiresAt: a duration it cannot read has no end.
computeExpiresAt(duration) == duration = "1h"

\* validateRule, as far as what the tools write goes: the duration.
validateRule(r) == r.duration # "1 hour"

\* LoadFile, which also answers gbounce_dynamic_denies_list: one rule that does
\* not validate refuses the file; an expired rule is dropped; a missing file has
\* no rules.
Loaded(d) ==
    IF \A r \in d.rules : validateRule(r)
    THEN {r \in d.rules : ~(r.expires /\ late)} ELSE {}

McpTypeOK ==
    /\ denies.there \in BOOLEAN /\ denies.rules \subseteq Rule
    /\ ~denies.there => denies.rules = {}
    /\ \A s \in Servers : server[s].at \in {"ready", "rename"}
    /\ adds \in 0..MaxAdds
    /\ late \in BOOLEAN /\ clumsy \in BOOLEAN /\ overlapped \in BOOLEAN
    /\ standing \subseteq Rule

McpInit ==
    /\ denies \in {[there |-> t, rules |-> {}] : t \in BOOLEAN}
    /\ server = [s \in Servers |-> Ready]
    /\ adds = 0 /\ late = FALSE /\ clumsy = FALSE /\ overlapped = FALSE /\ standing = {}

\* What the tool is about to rename into place, and what it will acknowledge.
Holds(s, rules, add, del) ==
    server' = [server EXCEPT ![s] = [at |-> "rename", rules |-> rules, add |-> add, del |-> del]]

\* Mutant of DenyAdd: the file is built from the new rule alone.
DenyAddAlone(s) ==
    /\ server[s] = Ready /\ adds < MaxAdds
    /\ adds' = adds + 1
    /\ \E duration \in Durations :
          LET rule == [id |-> adds', duration |-> duration,
                       expires |-> computeExpiresAt(duration)] IN
          /\ Holds(s, {rule}, {rule}, {})
          /\ clumsy' = (clumsy \/ ~validateRule(rule))
    /\ UNCHANGED <<denies, late, overlapped, standing>>

\* gbounce_deny_add: target and reason must not be empty; the duration is not
\* checked, computeExpiresAt gives one it cannot read no expiry.  Parses what
\* is there, appends, writes a temporary file.
DenyAdd(s) ==
    /\ server[s] = Ready /\ adds < MaxAdds
    /\ adds' = adds + 1
    /\ \E duration \in Durations :
          LET rule == [id |-> adds', duration |-> duration,
                       expires |-> computeExpiresAt(duration)] IN
          /\ Holds(s, denies.rules \cup {rule}, {rule}, {})
          /\ clumsy' = (clumsy \/ ~validateRule(rule))
    /\ UNCHANGED <<denies, late, overlapped, standing>>

\* gbounce_deny_remove: an id the file does not have changes nothing.
DenyRemove(s) ==
    /\ server[s] = Ready
    /\ \E id \in Ids :
          LET gone == {r \in denies.rules : r.id = id} IN
          gone # {} /\ Holds(s, denies.rules \ gone, {}, gone)
    /\ UNCHANGED <<denies, adds, late, clumsy, overlapped, standing>>

\* The temporary file is renamed into place and the call answered.
Replace(s) ==
    /\ server[s].at = "rename"
    /\ LET c == server[s] IN
       /\ denies' = [there |-> TRUE, rules |-> c.rules]
       /\ standing' = (standing \ c.del) \cup c.add
       /\ overlapped' = (overlapped \/ \E o \in Servers \ {s} : server[o] # Ready)
    /\ server' = [server EXCEPT ![s] = Ready]
    /\ UNCHANGED <<adds, late, clumsy>>

\* The agent's process ends with its server, or the write fails.
Ends(s) ==
    /\ server[s] # Ready
    /\ server' = [server EXCEPT ![s] = Ready]
    /\ UNCHANGED <<denies, adds, late, clumsy, overlapped, standing>>

\* The operator takes rules out by hand, or the whole file away.
HandEdit ==
    /\ denies.there
    /\ \E keep \in SUBSET denies.rules, there \in BOOLEAN :
          /\ ~there => keep = {}
          /\ denies' = [there |-> there, rules |-> keep]
          /\ denies' # denies
          /\ standing' = standing \cap keep
    /\ overlapped' = (overlapped \/ \E s \in Servers : server[s] # Ready)
    /\ UNCHANGED <<server, adds, late, clumsy>>

HourPasses == ~late /\ late' = TRUE /\ UNCHANGED <<denies, server, adds, clumsy, overlapped, standing>>

McpNext ==
    \/ HandEdit \/ HourPasses
    \/ \E s \in Servers : DenyAdd(s) \/ DenyRemove(s) \/ Replace(s) \/ Ends(s)

McpSpec == McpInit /\ [][McpNext]_mcpVars

-----------------------------------------------------------------------------
\* Properties.

\* As long as calls do not overlap with one another or an edit, the rules in
\* the file are those acknowledged and not removed; and while every duration
\* given was one the loader accepts, those that have not expired are the rules a
\* proxy enforces and the list tool shows.
AcknowledgedDeniesStand ==
    ~overlapped =>
       /\ denies.rules = standing
       /\ ~clumsy => Loaded(denies) = {r \in standing : ~(r.duration = "1h" /\ late)}
=============================================================================
