---------------------------- MODULE AuditChain ----------------------------
(***************************************************************************)
(* The values of the tamper-evident audit log: the rows of audit.jsonl,    *)
(* the digest that links a row to its predecessors, the manifest that pins *)
(* a chain head and the chain-state file (internal/audit/chain.go,         *)
(* manifest.go).  State machines that write, move or verify log files      *)
(* share these definitions.                                                *)
(*                                                                         *)
(* A digest is modelled by what a collision-free hash of (previous digest, *)
(* seq, event) determines: the history of <<seq, event>> pairs it commits  *)
(* to.  Digests of different histories differ and every digest has a type. *)
(***************************************************************************)
EXTENDS Integers, Sequences

\* The prev_hash of the genesis row, a nil pointer in the code.
NoDigest == <<>>

\* hashEvent: the digest of a row from its predecessor's digest, its seq and
\* the event stripped of any chain block.
HashEvent(prev, seq, ev) == Append(prev, <<seq, ev>>)

Event  == Nat
Digest == Seq(Nat \X Event)

(***************************************************************************)
(* A line of the file: a stamped row, a row without a chain block, a       *)
(* fragment without its newline (a short write), or a line two writes      *)
(* share, which does not parse.  Every line carries all fields, so that    *)
(* lines have one type; only a "row" gives meaning to the chain fields.    *)
(***************************************************************************)
Line == [kind : {"row", "bare", "torn", "garbled"},
         seq : Nat, prev : Digest, hash : Digest, ev : Event]

StampedRow(prev, seq, ev) ==
    [kind |-> "row", seq |-> seq, prev |-> prev,
     hash |-> HashEvent(prev, seq, ev), ev |-> ev]

PlainLine(kind, ev) ==
    [kind |-> kind, seq |-> 0, prev |-> NoDigest, hash |-> NoDigest, ev |-> ev]

BareRow(ev) == PlainLine("bare", ev)
Torn(ev)    == PlainLine("torn", ev)
Garbled(ev) == PlainLine("garbled", ev)

EndsTorn(file) == file # <<>> /\ file[Len(file)].kind = "torn"

\* O_APPEND: bytes written after a fragment continue the fragment's line.
AppendLine(file, line) ==
    IF EndsTorn(file)
      THEN [file EXCEPT ![Len(file)] =
               IF line.kind = "torn" THEN @ ELSE Garbled(line.ev)]
      ELSE Append(file, line)

\* The digest of the last line of a file, when that line is a row.
TailDigest(file) == IF file = <<>> THEN NoDigest ELSE file[Len(file)].hash

\* A signed checkpoint: the range of seqs it covers and the head it pins.
Manifest == [start : Nat, end : Nat, head : Digest]

\* chain-state.json; nextSeq 0 with no digest is also what a missing or
\* unreadable file loads as.
StateFile  == [nextSeq : Nat, lastHash : Digest]
NoState    == [nextSeq |-> 0, lastHash |-> NoDigest]

\* What a verifier accepts from beginning to end: every line is a row whose
\* seq counts from 0 and whose digest extends its predecessor's.
Linked(file) ==
    \A i \in 1..Len(file) :
        /\ file[i].kind = "row"
        /\ file[i].seq = i - 1
        /\ file[i].prev = IF i = 1 THEN NoDigest ELSE file[i-1].hash
        /\ file[i].hash = HashEvent(file[i].prev, file[i].seq, file[i].ev)
===========================================================================
