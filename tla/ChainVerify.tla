---------------------------- MODULE ChainVerify ----------------------------
(***************************************************************************)
(* The offline verifier of the audit chain (internal/audit/chain_verify.go *)
(* and `gbounce logs verify-chain`, internal/cli/logs.go): a walk over the *)
(* lines of the archives and of the active file that reports every break   *)
(* it meets, and the check of the signed manifests against the head of the *)
(* chain the walk reached.                                                 *)
(***************************************************************************)
EXTENDS AuditChain, SequencesExt

Reasons == {"hash mismatch", "prev_hash mismatch", "seq gap", "not a row"}

NoHead == -1

\* VerifyResult and the two locals of the walk, prevHash and expectedSeq.  at
\* counts the lines read; a finding is the line and the reason.
EmptyResult ==
    [prev |-> NoDigest, expected |-> 0, at |-> 0,
     headSeq |-> NoHead, headHash |-> NoDigest, found |-> {}]

\* Mutant of Broken: only the digest of the row itself is recomputed.
BrokenRowOnly(res, line) ==
    {why \in {"hash mismatch"} : line.hash # HashEvent(line.prev, line.seq, line.ev)}

\* What is wrong with a row, given the rows before it.
Broken(res, line) ==
    {why \in Reasons \ {"not a row"} :
        CASE why = "seq gap"            -> line.seq # res.expected
          [] why = "prev_hash mismatch" -> line.prev # res.prev
          [] why = "hash mismatch"      ->
                line.hash # HashEvent(line.prev, line.seq, line.ev)}

\* Mutant of CheckLine: the walk does not resume at the seq it found.
CheckLineKeepsCounting(res, line) ==
    LET n == res.at + 1 IN
    IF line.kind # "row"
      THEN [res EXCEPT !.at = n, !.found = @ \cup {<<n, "not a row">>}]
      ELSE [prev |-> line.hash, expected |-> res.expected + 1, at |-> n,
            headSeq |-> line.seq, headHash |-> line.hash,
            found |-> res.found \cup {<<n, why>> : why \in Broken(res, line)}]

\* Mutant of CheckLine: a line that is no row is passed over.
CheckLineSkipsJunk(res, line) ==
    LET n == res.at + 1 IN
    IF line.kind # "row"
      THEN [res EXCEPT !.at = n]
      ELSE [prev |-> line.hash, expected |-> line.seq + 1, at |-> n,
            headSeq |-> line.seq, headHash |-> line.hash,
            found |-> res.found \cup {<<n, why>> : why \in Broken(res, line)}]

\* A line that is no row (unparseable, or without a chain block) is a finding
\* and leaves the walk where it was; a row always moves it on, so one break
\* does not make every later row a finding.
CheckLine(res, line) ==
    LET n == res.at + 1 IN
    IF line.kind # "row"
      THEN [res EXCEPT !.at = n, !.found = @ \cup {<<n, "not a row">>}]
      ELSE [prev |-> line.hash, expected |-> line.seq + 1, at |-> n,
            headSeq |-> line.seq, headHash |-> line.hash,
            found |-> res.found \cup {<<n, why>> : why \in Broken(res, line)}]

\* verifyChainFiles over the concatenated lines of the files.
Verify(lines) ==
    LET walk[n \in 0..Len(lines)] ==
            IF n = 0 THEN EmptyResult ELSE CheckLine(walk[n - 1], lines[n])
    IN walk[Len(lines)]

ChainOK(res) == res.found = {}

\* Mutant of ManifestOK: only a manifest beyond the head is a failure.
ManifestBeyondOnly(m, res) == res.headSeq # NoHead => m.end <= res.headSeq

\* Mutant of ManifestOK: a manifest beyond the head is an earlier checkpoint.
ManifestAtHeadOnly(m, res) ==
    res.headSeq # NoHead /\ m.end = res.headSeq => m.head = res.headHash

\* The cross-check: a manifest at the head must pin its digest, one beyond the
\* head proves rows that are gone.  A walk that met no row checks nothing.
ManifestOK(m, res) ==
    res.headSeq # NoHead =>
        /\ m.end <= res.headSeq
        /\ m.end = res.headSeq => m.head = res.headHash

\* verify-chain --manifest over the lines of a directory.
FullOK(lines, ms) ==
    LET res == Verify(lines) IN ChainOK(res) /\ \A m \in ms : ManifestOK(m, res)
=============================================================================
