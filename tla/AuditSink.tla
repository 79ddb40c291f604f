----------------------------- MODULE AuditSink -----------------------------
(***************************************************************************)
(* What the audit log promises its callers: events are delivered in the    *)
(* order they were accepted, each at most once; a refused or lost event is *)
(* never delivered later; a stop of the process abandons what is pending.  *)
(***************************************************************************)
EXTENDS Naturals, Sequences

VARIABLES
    offered,     \* how many events were offered so far
    pending,     \* accepted events that are neither delivered nor lost
    delivered    \* the events a reader of the log finds, by their place in it

vars == <<offered, pending, delivered>>

Init == offered = 0 /\ pending = <<>> /\ delivered = [place \in {} |-> 0]

Accept ==
    /\ offered' = offered + 1
    /\ pending' = Append(pending, offered')
    /\ UNCHANGED delivered

Refuse == offered' = offered + 1 /\ UNCHANGED <<pending, delivered>>

\* The oldest pending event is found behind everything delivered so far.
Deliver ==
    /\ pending # <<>>
    /\ \E place \in DOMAIN delivered' :
          /\ \A p \in DOMAIN delivered : p < place
          /\ delivered' = [p \in DOMAIN delivered \cup {place} |->
                             IF p = place THEN Head(pending) ELSE delivered[p]]
    /\ pending' = Tail(pending)
    /\ UNCHANGED offered

LoseOne == pending # <<>> /\ pending' = Tail(pending) /\ UNCHANGED <<offered, delivered>>

Abandon == pending' = <<>> /\ UNCHANGED <<offered, delivered>>

Next == Accept \/ Refuse \/ Deliver \/ LoseOne \/ Abandon

Spec == Init /\ [][Next]_vars
=============================================================================
