-------------------------- MODULE HousekeepingProofs --------------------------
(***************************************************************************)
(* Theorems about what is kept beside the proxy: the directory of the      *)
(* audit log and its verifier, the retention of its archives, and the      *)
(* database with its backup and restore.  Each part has an inductive       *)
(* invariant; a behaviour of Housekeeping is one of all three, since a     *)
(* step of one part leaves the others alone.                               *)
(***************************************************************************)
EXTENDS MCHousekeeping, FiniteSetTheorems, SequenceTheorems, WellFoundedInduction, TLAPS

\* A set of natural numbers that is not empty has a least element.
LEMMA LeastNumber ==
    ASSUME NEW T, T \subseteq Nat, T # {}
    PROVE  \E n \in T : \A k \in T : n <= k
<1> DEFINE Less == OpToRel(<, Nat)
<1>1. IsWellFoundedOn(Less, Nat)
  BY NatLessThanWellFounded
<1>2. \A k, n \in Nat : k < n => <<k, n>> \in Less
  BY DEF OpToRel
<1> HIDE DEF Less
<1>3. PICK n \in T : \A k \in T : ~(<<k, n>> \in Less)
  BY <1>1, WFMin
<1>4. ASSUME NEW k \in T, k < n PROVE FALSE
  <2>1. k \in Nat /\ n \in Nat
    OBVIOUS
  <2>2. <<k, n>> \in Less
    BY <1>2, <1>4, <2>1
  <2> QED
    BY <1>3, <2>2
<1>5. \A k \in T : k \in Nat /\ n \in Nat
  OBVIOUS
<1> QED
  BY <1>4, <1>5

\* What holds of zero, and of a number when it does of the one before, holds of
\* every number up to a bound.
LEMMA UpToTheBound ==
    ASSUME NEW top \in Nat, NEW T \in SUBSET (0..top), 0 \in T,
           \A n \in 1..top : n - 1 \in T => n \in T
    PROVE  T = 0..top
<1> DEFINE U == (0..top) \ T
<1>1. SUFFICES ASSUME U # {} PROVE FALSE
  OBVIOUS
<1>2. U \subseteq Nat
  OBVIOUS
<1>3. PICK n \in U : \A k \in U : n <= k
  BY <1>1, <1>2, LeastNumber
<1>4. n \in 1..top /\ n - 1 \in 0..top
  BY <1>3
<1>5. n - 1 \in T
  BY <1>3, <1>4
<1> QED
  BY <1>3, <1>4, <1>5

\* The walk of the verifier exists, and is what its definition says.
WalkFrom(lines, w, top) ==
    w = [n \in 0..top |-> IF n = 0 THEN EmptyResult ELSE CheckLine(w[n - 1], lines[n])]

\* There is a function that is the walk over the lines, for any number of them.
LEMMA WalkExists ==
    ASSUME NEW lines, Len(lines) \in Nat
    PROVE  \E w : WalkFrom(lines, w, Len(lines))
<1> DEFINE top == Len(lines)
           T == {k \in 0..top : \E w : WalkFrom(lines, w, k)}
<1> HIDE DEF top
<1>0. top \in Nat
  BY DEF top
<1>1. 0 \in T
  <2>1. WalkFrom(lines, [n \in 0..0 |-> EmptyResult], 0)
    BY DEF WalkFrom
  <2> QED
    BY <1>0, <2>1
<1>2. ASSUME NEW n \in 1..top, n - 1 \in T PROVE n \in T
  <2>1. PICK w : WalkFrom(lines, w, n - 1)
    BY <1>2
  <2> DEFINE v == [k \in 0..n |-> IF k = n THEN CheckLine(w[n - 1], lines[n]) ELSE w[k]]
  <2>2. \A k \in 0..n : v[k] = IF k = 0 THEN EmptyResult ELSE CheckLine(v[k - 1], lines[k])
    <3> SUFFICES ASSUME NEW k \in 0..n
                 PROVE  v[k] = IF k = 0 THEN EmptyResult ELSE CheckLine(v[k - 1], lines[k])
      OBVIOUS
    <3>1. CASE k = n
      <4>1. v[k] = CheckLine(w[n - 1], lines[n]) /\ v[k - 1] = w[n - 1] /\ k # 0
        BY <1>0, <3>1
      <4> QED
        BY <3>1, <4>1
    <3>2. CASE k # n
      <4>1. k \in 0..(n - 1) /\ v[k] = w[k] /\ (k # 0 => k - 1 \in 0..(n - 1) /\ v[k - 1] = w[k - 1])
        BY <1>0, <3>2
      <4> HIDE DEF v
      <4> QED
        BY <2>1, <4>1 DEF WalkFrom
    <3> QED
      BY <3>1, <3>2
  <2>3. v = [k \in 0..n |-> v[k]]
    OBVIOUS
  <2> HIDE DEF v
  <2>4. WalkFrom(lines, v, n)
    BY <2>2, <2>3 DEF WalkFrom
  <2> QED
    BY <2>4
<1> HIDE DEF T
<1>3. T = 0..top
  <2>1. T \in SUBSET (0..top)
    BY DEF T
  <2> QED
    BY <1>0, <1>1, <1>2, <2>1, UpToTheBound
<1>4. top \in T
  BY <1>0, <1>3
<1> QED
  BY <1>4 DEF T, top

\* verifyChainFiles is the last value of that walk.
LEMMA VerifyWalks ==
    ASSUME NEW lines, Len(lines) \in Nat
    PROVE  \E w : WalkFrom(lines, w, Len(lines)) /\ Verify(lines) = w[Len(lines)]
<1> DEFINE walk[n \in 0..Len(lines)] ==
            IF n = 0 THEN EmptyResult ELSE CheckLine(walk[n - 1], lines[n])
<1>1. walk = CHOOSE w : WalkFrom(lines, w, Len(lines))
  BY DEF WalkFrom
<1>2. WalkFrom(lines, walk, Len(lines))
  BY <1>1, WalkExists
<1>3. Verify(lines) = walk[Len(lines)]
  BY DEF Verify
<1> QED
  BY <1>2, <1>3

\* The first n lines are linked.
LinkedTo(lines, n) ==
    \A i \in 1..n :
        /\ lines[i].kind = "row" /\ lines[i].seq = i - 1
        /\ lines[i].prev = IF i = 1 THEN NoDigest ELSE lines[i-1].hash
        /\ lines[i].hash = HashEvent(lines[i].prev, lines[i].seq, lines[i].ev)

ResultFields == {"prev", "expected", "at", "headSeq", "headHash", "found"}

WalkInv(lines, w, n) ==
    /\ DOMAIN w[n] = ResultFields /\ w[n].at = n
    /\ \A f \in w[n].found : f[1] \in 1..n
    /\ w[n].found = {} <=> LinkedTo(lines, n)
    /\ LinkedTo(lines, n) =>
          /\ w[n].expected = n /\ w[n].headSeq = n - 1
          /\ w[n].prev = IF n = 0 THEN NoDigest ELSE lines[n].hash
          /\ w[n].headHash = IF n = 0 THEN NoDigest ELSE lines[n].hash
    /\ \A k \in 0..n : {f \in w[n].found : f[1] <= k} = w[k].found

\* The line continues the chain that the result stands for.
Continues(res, line) ==
    /\ line.kind = "row" /\ line.seq = res.expected /\ line.prev = res.prev
    /\ line.hash = HashEvent(line.prev, line.seq, line.ev)

\* A row whose digest is the one of what it says.
Consistent(line) ==
    line.kind = "row" /\ line.hash = HashEvent(line.prev, line.seq, line.ev)

\* What one line does to the result c of the lines before it.
LineFinds(c, res, line, n) ==
    /\ DOMAIN c = ResultFields /\ c.at = n
    /\ res.found \subseteq c.found
    /\ \A f \in c.found \ res.found : f[1] = n
    /\ Continues(res, line) => c.found = res.found
    /\ ~Continues(res, line) => \E f \in c.found : f[1] = n
    /\ Consistent(line) => \A f \in c.found \ res.found : f[2] # "hash mismatch"
    /\ line.kind = "row" =>
          /\ c.prev = line.hash /\ c.expected = line.seq + 1
          /\ c.headSeq = line.seq /\ c.headHash = line.hash

\* A line adds a finding exactly when it does not continue the chain, and the
\* walk goes on from the row it found.
LEMMA CheckLineFinds ==
    ASSUME NEW res, NEW line, DOMAIN res = ResultFields
    PROVE  LineFinds(CheckLine(res, line), res, line, res.at + 1)
<1> DEFINE n == res.at + 1
           c == CheckLine(res, line)
<1>1. CASE line.kind # "row"
  <2>1. c = [res EXCEPT !.at = n, !.found = @ \cup {<<n, "not a row">>}]
    BY <1>1 DEF CheckLine
  <2> HIDE DEF n, c
  <2>2. DOMAIN c = ResultFields /\ c.at = n /\ c.found = res.found \cup {<<n, "not a row">>}
    BY <2>1 DEF ResultFields
  <2>3. <<n, "not a row">> \in c.found /\ <<n, "not a row">>[1] = n
    BY <2>2
  <2>4. \A f \in c.found \ res.found : f[1] = n
    <3>1. \A f \in c.found \ res.found : f = <<n, "not a row">>
      BY <2>2
    <3> QED
      BY <2>3, <3>1
  <2>5. res.found \subseteq c.found
    BY <2>2
  <2>6. ~Continues(res, line)
    BY <1>1 DEF Continues
  <2>7. LineFinds(c, res, line, n)
    BY <1>1, <2>2, <2>3, <2>4, <2>5, <2>6 DEF LineFinds, Consistent
  <2> QED
    BY <2>7 DEF c, n
<1>2. CASE line.kind = "row"
  <2> DEFINE bad == Broken(res, line)
  <2>1. c = [prev |-> line.hash, expected |-> line.seq + 1, at |-> n,
             headSeq |-> line.seq, headHash |-> line.hash,
             found |-> res.found \cup {<<n, why>> : why \in bad}]
    BY <1>2 DEF CheckLine
  <2>2. bad = {} <=> Continues(res, line)
    <3>1. /\ "seq gap" \in bad <=> line.seq # res.expected
          /\ "prev_hash mismatch" \in bad <=> line.prev # res.prev
          /\ "hash mismatch" \in bad <=> line.hash # HashEvent(line.prev, line.seq, line.ev)
          /\ bad \subseteq {"seq gap", "prev_hash mismatch", "hash mismatch"}
      BY DEF Broken, Reasons
    <3> HIDE DEF bad
    <3> QED
      BY <1>2, <3>1 DEF Continues
  <2> HIDE DEF n, c, bad
  <2>3. DOMAIN c = ResultFields /\ c.at = n /\ c.found = res.found \cup {<<n, why>> : why \in bad}
    BY <2>1 DEF ResultFields
  <2>4. /\ c.prev = line.hash /\ c.expected = line.seq + 1
        /\ c.headSeq = line.seq /\ c.headHash = line.hash
    BY <2>1
  <2>5. \A f \in c.found \ res.found : f[1] = n
    BY <2>3
  <2>6. bad = {} => c.found = res.found
    BY <2>3
  <2>7. bad # {} => \E f \in c.found : f[1] = n
    <3> SUFFICES ASSUME NEW why \in bad PROVE \E f \in c.found : f[1] = n
      OBVIOUS
    <3>1. <<n, why>> \in c.found /\ <<n, why>>[1] = n
      BY <2>3
    <3> QED
      BY <3>1
  <2>8. res.found \subseteq c.found
    BY <2>3
  <2>9. ASSUME Consistent(line), NEW f \in c.found \ res.found PROVE f[2] # "hash mismatch"
    <3>1. PICK why \in bad : f = <<n, why>>
      BY <2>3, <2>9
    <3>2. "hash mismatch" \notin bad
      BY <2>9 DEF bad, Broken, Reasons, Consistent
    <3> QED
      BY <3>1, <3>2
  <2>10. \A f \in c.found \ res.found : Consistent(line) => f[2] # "hash mismatch"
    BY <2>9
  <2> QED
    BY <2>2, <2>3, <2>4, <2>5, <2>6, <2>7, <2>8, <2>10 DEF LineFinds, c, n
<1> QED
  BY <1>1, <1>2

\* The walk stands for the lines it has passed: no finding means they are linked,
\* and the findings up to a line are those the walk had there.
LEMMA WalkSays ==
    ASSUME NEW lines, NEW top \in Nat, NEW w, WalkFrom(lines, w, top)
    PROVE  \A n \in 0..top : WalkInv(lines, w, n)
<1> DEFINE T == {n \in 0..top : WalkInv(lines, w, n)}
<1>0. w[0] = EmptyResult /\ \A n \in 1..top : w[n] = CheckLine(w[n - 1], lines[n])
  BY DEF WalkFrom
<1>1. 0 \in T
  <2>1. /\ DOMAIN w[0] = ResultFields /\ w[0].at = 0 /\ w[0].found = {} /\ w[0].expected = 0
        /\ w[0].headSeq = 0 - 1 /\ w[0].prev = NoDigest /\ w[0].headHash = NoDigest
    BY <1>0 DEF EmptyResult, ResultFields, NoHead
  <2>2. LinkedTo(lines, 0)
    BY DEF LinkedTo
  <2>3. \A k \in 0..0 : k = 0
    OBVIOUS
  <2> QED
    BY <2>1, <2>2, <2>3 DEF WalkInv
<1>2. ASSUME NEW n \in 1..top, n - 1 \in T PROVE n \in T
  <2> DEFINE m == n - 1
  <2>1. /\ DOMAIN w[m] = ResultFields /\ w[m].at = m
        /\ \A f \in w[m].found : f[1] \in 1..m
        /\ w[m].found = {} <=> LinkedTo(lines, m)
        /\ LinkedTo(lines, m) =>
             /\ w[m].expected = m
             /\ w[m].prev = IF m = 0 THEN NoDigest ELSE lines[m].hash
        /\ \A k \in 0..m : {f \in w[m].found : f[1] <= k} = w[k].found
    BY <1>2 DEF WalkInv
  <2>2. w[n] = CheckLine(w[m], lines[n]) /\ m \in Nat /\ n = m + 1 /\ n \in Nat /\ n # 0
    BY <1>0
  <2> HIDE DEF m
  <2>3. LineFinds(w[n], w[m], lines[n], n)
    BY <2>1, <2>2, CheckLineFinds
  <2>4. w[m].found \subseteq w[n].found /\ \A f \in w[n].found \ w[m].found : f[1] = n
    BY <2>3 DEF LineFinds
  <2>5. \A f \in w[m].found : f[1] \in 1..m
    BY <2>1
  <2>7. LinkedTo(lines, n) <=>
            /\ LinkedTo(lines, m)
            /\ lines[n].kind = "row" /\ lines[n].seq = m
            /\ lines[n].prev = IF m = 0 THEN NoDigest ELSE lines[m].hash
            /\ lines[n].hash = HashEvent(lines[n].prev, lines[n].seq, lines[n].ev)
    <3>1. \A i : i \in 1..n <=> i \in 1..m \/ i = n
      BY <2>2
    <3>2. n - 1 = m /\ (n = 1 <=> m = 0)
      BY <2>2
    <3> QED
      BY <3>1, <3>2 DEF LinkedTo
  <2>8. w[n].found = {} <=> LinkedTo(lines, n)
    <3>1. LinkedTo(lines, m) => (Continues(w[m], lines[n]) <=> LinkedTo(lines, n))
      BY <2>1, <2>7 DEF Continues
    <3>2. LinkedTo(lines, n) => LinkedTo(lines, m)
      BY <2>7
    <3>3. ~Continues(w[m], lines[n]) => w[n].found # {}
      BY <2>3 DEF LineFinds
    <3>4. Continues(w[m], lines[n]) => w[n].found = w[m].found
      BY <2>3 DEF LineFinds
    <3>5. w[m].found # {} => w[n].found # {}
      BY <2>4
    <3> QED
      BY <2>1, <3>1, <3>2, <3>3, <3>4, <3>5
  <2>9. LinkedTo(lines, n) =>
          /\ w[n].expected = n /\ w[n].headSeq = n - 1
          /\ w[n].prev = lines[n].hash /\ w[n].headHash = lines[n].hash
    <3>1. LinkedTo(lines, n) => lines[n].kind = "row" /\ lines[n].seq = m
      BY <2>7
    <3>2. lines[n].kind = "row" =>
              /\ w[n].prev = lines[n].hash /\ w[n].expected = lines[n].seq + 1
              /\ w[n].headSeq = lines[n].seq /\ w[n].headHash = lines[n].hash
      BY <2>3 DEF LineFinds
    <3> QED
      BY <2>2, <3>1, <3>2
  <2>10. \A f \in w[n].found : f[1] \in 1..n
    BY <2>2, <2>4, <2>5
  <2>11. \A k \in 0..n : {f \in w[n].found : f[1] <= k} = w[k].found
    <3> SUFFICES ASSUME NEW k \in 0..n PROVE {f \in w[n].found : f[1] <= k} = w[k].found
      OBVIOUS
    <3>1. CASE k = n
      BY <2>10, <3>1
    <3>2. CASE k # n
      <4>1. k \in 0..m /\ \A f \in w[n].found \ w[m].found : ~(f[1] <= k)
        BY <2>2, <2>4, <3>2
      <4>2. {f \in w[m].found : f[1] <= k} = w[k].found
        BY <2>1, <4>1
      <4> QED
        BY <2>4, <4>1, <4>2
    <3> QED
      BY <3>1, <3>2
  <2>12. DOMAIN w[n] = ResultFields /\ w[n].at = n
    BY <2>3 DEF LineFinds
  <2> QED
    BY <2>2, <2>8, <2>9, <2>10, <2>11, <2>12 DEF WalkInv
<1> HIDE DEF T
<1>3. T = 0..top
  <2>1. T \in SUBSET (0..top)
    BY DEF T
  <2> QED
    BY <1>1, <1>2, <2>1, UpToTheBound
<1> QED
  BY <1>3 DEF T

\* The verifier finds nothing up to a line exactly where the lines are linked.
LEMMA VerifySays ==
    ASSUME NEW lines, Len(lines) \in Nat
    PROVE  /\ \A n \in 0..Len(lines) :
                 (\E f \in Verify(lines).found : f[1] <= n) <=> ~LinkedTo(lines, n)
           /\ Verify(lines).found = {} <=> LinkedTo(lines, Len(lines))
           /\ LinkedTo(lines, Len(lines)) =>
                 /\ Verify(lines).headSeq = Len(lines) - 1
                 /\ Len(lines) # 0 => Verify(lines).headHash = lines[Len(lines)].hash
<1> DEFINE top == Len(lines)
<1>1. PICK w : WalkFrom(lines, w, top) /\ Verify(lines) = w[top]
  BY VerifyWalks
<1>2. \A n \in 0..top : WalkInv(lines, w, n)
  BY <1>1, WalkSays
<1>3. top \in 0..top
  OBVIOUS
<1> HIDE DEF top
<1>4. WalkInv(lines, w, top)
  BY <1>2, <1>3
<1>5. ASSUME NEW n \in 0..top PROVE (\E f \in w[top].found : f[1] <= n) <=> ~LinkedTo(lines, n)
  <2>1. {f \in w[top].found : f[1] <= n} = w[n].found
    BY <1>4 DEF WalkInv
  <2>2. w[n].found = {} <=> LinkedTo(lines, n)
    BY <1>2 DEF WalkInv
  <2> QED
    BY <2>1, <2>2
<1>6. /\ w[top].found = {} <=> LinkedTo(lines, top)
      /\ LinkedTo(lines, top) =>
           /\ w[top].headSeq = top - 1 /\ (top # 0 => w[top].headHash = lines[top].hash)
  BY <1>4 DEF WalkInv
<1> QED
  BY <1>1, <1>5, <1>6 DEF top

\* A prefix is linked as AuditChain says it.
LEMMA PrefixLinked ==
    ASSUME NEW S, NEW lines \in Seq(S), NEW n \in 0..Len(lines)
    PROVE  Linked(SubSeq(lines, 1, n)) <=> LinkedTo(lines, n)
<1>1. Len(SubSeq(lines, 1, n)) = n /\ \A i \in 1..n : SubSeq(lines, 1, n)[i] = lines[i]
  OBVIOUS
<1>2. \A i \in 1..n : i = 1 \/ i - 1 \in 1..n
  OBVIOUS
<1> QED
  BY <1>1, <1>2 DEF Linked, LinkedTo

\* The first finding is where the lines stop being one chain.
LEMMA FirstFinding ==
    ASSUME NEW S, DirLines \in Seq(S)
    PROVE  FirstFindingLocates
<1>1. PICK ls : ls = DirLines
  OBVIOUS
<1>2. ls \in Seq(S) /\ Len(ls) \in Nat
  BY <1>1
<1>3. ASSUME NEW n \in 1..Len(ls)
      PROVE  (\E f \in Verify(ls).found : f[1] <= n) <=> ~Linked(SubSeq(ls, 1, n))
  <2>1. n \in 0..Len(ls)
    BY <1>2
  <2> QED
    BY <1>2, <2>1, VerifySays, PrefixLinked
<1> QED
  BY <1>1, <1>3 DEF FirstFindingLocates, DirResult

-----------------------------------------------------------------------------
\* The lines of several files, one after the other.
FlatFrom(seqs, g, top) ==
    g = [i \in 1..top |-> IF i = 1 THEN seqs[i] ELSE g[i - 1] \o seqs[i]]

\* The recursive function of FlattenSeq exists.
LEMMA FlatExists ==
    ASSUME NEW seqs, NEW top \in Nat
    PROVE  \E g : FlatFrom(seqs, g, top)
<1> DEFINE T == {k \in 0..top : \E g : FlatFrom(seqs, g, k)}
<1>1. 0 \in T
  <2>1. FlatFrom(seqs, [i \in 1..0 |-> seqs], 0)
    BY DEF FlatFrom
  <2> QED
    BY <2>1
<1>2. ASSUME NEW n \in 1..top, n - 1 \in T PROVE n \in T
  <2>1. PICK g : FlatFrom(seqs, g, n - 1)
    BY <1>2
  <2> DEFINE h == [i \in 1..n |-> IF i = n THEN (IF n = 1 THEN seqs[n] ELSE g[n - 1] \o seqs[n]) ELSE g[i]]
  <2>2. \A i \in 1..n : h[i] = IF i = 1 THEN seqs[i] ELSE h[i - 1] \o seqs[i]
    <3> SUFFICES ASSUME NEW i \in 1..n
                 PROVE  h[i] = IF i = 1 THEN seqs[i] ELSE h[i - 1] \o seqs[i]
      OBVIOUS
    <3>1. CASE i = n
      <4>1. h[i] = (IF n = 1 THEN seqs[n] ELSE g[n - 1] \o seqs[n]) /\ (n # 1 => h[i - 1] = g[n - 1])
        BY <3>1
      <4> HIDE DEF h
      <4> QED
        BY <3>1, <4>1
    <3>2. CASE i # n
      <4>1. i \in 1..(n - 1) /\ h[i] = g[i] /\ (i # 1 => i - 1 \in 1..(n - 1) /\ h[i - 1] = g[i - 1])
        BY <3>2
      <4> HIDE DEF h
      <4> QED
        BY <2>1, <4>1 DEF FlatFrom
    <3> QED
      BY <3>1, <3>2
  <2>3. h = [i \in 1..n |-> h[i]]
    OBVIOUS
  <2> HIDE DEF h
  <2>4. FlatFrom(seqs, h, n)
    BY <2>2, <2>3 DEF FlatFrom
  <2> QED
    BY <2>4
<1> HIDE DEF T
<1>3. T = 0..top
  <2>1. T \in SUBSET (0..top)
    BY DEF T
  <2> QED
    BY <1>1, <1>2, <2>1, UpToTheBound
<1>4. top \in T
  BY <1>3
<1> QED
  BY <1>4 DEF T

\* FlattenSeq is its last value.
LEMMA FlattenIs ==
    ASSUME NEW seqs, Len(seqs) \in Nat, Len(seqs) # 0
    PROVE  \E g : FlatFrom(seqs, g, Len(seqs)) /\ FlattenSeq(seqs) = g[Len(seqs)]
<1> DEFINE flatten[i \in 1..Len(seqs)] ==
            IF i = 1 THEN seqs[i] ELSE flatten[i-1] \o seqs[i]
<1>1. flatten = CHOOSE g : FlatFrom(seqs, g, Len(seqs))
  BY DEF FlatFrom
<1>2. FlatFrom(seqs, flatten, Len(seqs))
  BY <1>1, FlatExists
<1>3. FlattenSeq(seqs) = flatten[Len(seqs)]
  BY DEF FlattenSeq
<1> QED
  BY <1>2, <1>3

\* Two flattenings agree as far as their sequences do.
LEMMA FlatAgree ==
    ASSUME NEW s, NEW t, NEW g, NEW h, NEW m \in Nat, NEW n \in Nat, m <= n,
           FlatFrom(s, g, m), FlatFrom(t, h, n), \A i \in 1..m : s[i] = t[i]
    PROVE  \A i \in 1..m : g[i] = h[i]
<1> DEFINE T == {k \in 0..m : k = 0 \/ g[k] = h[k]}
<1>1. 0 \in T
  OBVIOUS
<1>2. ASSUME NEW k \in 1..m, k - 1 \in T PROVE k \in T
  <2>1. k \in 1..n
    OBVIOUS
  <2>2. g[k] = IF k = 1 THEN s[k] ELSE g[k - 1] \o s[k]
    BY DEF FlatFrom
  <2>3. h[k] = IF k = 1 THEN t[k] ELSE h[k - 1] \o t[k]
    BY <2>1 DEF FlatFrom
  <2>4. k # 1 => g[k - 1] = h[k - 1]
    BY <1>2
  <2> QED
    BY <2>2, <2>3, <2>4
<1> HIDE DEF T
<1>3. T = 0..m
  <2>1. T \in SUBSET (0..m)
    BY DEF T
  <2> QED
    BY <1>1, <1>2, <2>1, UpToTheBound
<1> QED
  BY <1>3 DEF T

\* No files, no lines.
LEMMA FlattenNone == FlattenSeq(<<>>) = <<>>
  BY DEF FlattenSeq

\* A file more.
LEMMA FlattenAppend ==
    ASSUME NEW S, NEW s \in Seq(Seq(S)), NEW x \in Seq(S)
    PROVE  FlattenSeq(Append(s, x)) = FlattenSeq(s) \o x
<1> DEFINE t == Append(s, x)
           n == Len(s)
<1>1. n \in Nat /\ Len(t) = n + 1 /\ t[n + 1] = x /\ \A i \in 1..n : t[i] = s[i]
  OBVIOUS
<1>2. n = 0 => s = <<>>
  OBVIOUS
<1> HIDE DEF t, n
<1>3. Len(t) \in Nat /\ Len(t) # 0 /\ n + 1 \in 1..(n + 1)
  BY <1>1
<1>4. PICK h : FlatFrom(t, h, n + 1) /\ FlattenSeq(t) = h[n + 1]
  BY <1>1, <1>3, FlattenIs
<1>5. h[n + 1] = IF n = 0 THEN x ELSE h[n] \o x
  <2>1. h[n + 1] = IF n + 1 = 1 THEN t[n + 1] ELSE h[n + 1 - 1] \o t[n + 1]
    <3>1. \A i \in 1..(n + 1) : h[i] = IF i = 1 THEN t[i] ELSE h[i - 1] \o t[i]
      BY <1>4 DEF FlatFrom
    <3> QED
      BY <1>1, <1>3, <3>1
  <2>2. (n + 1 = 1 <=> n = 0) /\ n + 1 - 1 = n
    BY <1>1
  <2> QED
    BY <1>1, <2>1, <2>2
<1>6. CASE n = 0
  <2>1. FlattenSeq(s) \o x = x
    BY <1>2, <1>6, FlattenNone
  <2> QED
    BY <1>4, <1>5, <1>6, <2>1 DEF t
<1>7. CASE n # 0
  <2>1. PICK g : FlatFrom(s, g, n) /\ FlattenSeq(s) = g[n]
    BY <1>1, <1>7, FlattenIs DEF n
  <2>2. n <= n + 1 /\ n + 1 \in Nat /\ n \in 1..n
    BY <1>1, <1>7
  <2>3. \A i \in 1..n : g[i] = h[i]
    BY <1>1, <1>4, <2>1, <2>2, FlatAgree
  <2> QED
    BY <1>4, <1>5, <1>7, <2>1, <2>2, <2>3 DEF t
<1> QED
  BY <1>6, <1>7

\* What the files hold, and no more.
LEMMA FlattenTyped ==
    ASSUME NEW S, NEW s \in Seq(Seq(S))
    PROVE  FlattenSeq(s) \in Seq(S)
<1> DEFINE n == Len(s)
<1>1. n \in Nat /\ (n = 0 => s = <<>>) /\ \A i \in 1..n : s[i] \in Seq(S)
  OBVIOUS
<1> HIDE DEF n
<1>2. CASE n = 0
  <2>1. FlattenSeq(s) = <<>>
    BY <1>1, <1>2, FlattenNone
  <2>2. <<>> \in Seq(S)
    BY EmptySeq
  <2> QED
    BY <2>1, <2>2
<1>3. CASE n # 0
  <2>1. PICK g : FlatFrom(s, g, n) /\ FlattenSeq(s) = g[n]
    BY <1>1, <1>3, FlattenIs DEF n
  <2> DEFINE T == {k \in 0..n : k = 0 \/ g[k] \in Seq(S)}
  <2>2. 0 \in T
    BY <1>1
  <2>3. ASSUME NEW k \in 1..n, k - 1 \in T PROVE k \in T
    <3>1. g[k] = IF k = 1 THEN s[k] ELSE g[k - 1] \o s[k]
      BY <2>1 DEF FlatFrom
    <3>2. s[k] \in Seq(S) /\ (k # 1 => g[k - 1] \in Seq(S))
      BY <1>1, <2>3
    <3>3. g[k] \in Seq(S)
      BY <3>1, <3>2
    <3> QED
      BY <1>1, <3>3
  <2> HIDE DEF T
  <2>4. T = 0..n
    <3>1. T \in SUBSET (0..n)
      BY DEF T
    <3> QED
      BY <1>1, <2>2, <2>3, <3>1, UpToTheBound
  <2>5. n \in T
    BY <1>1, <2>4
  <2> QED
    BY <1>3, <2>1, <2>5 DEF T
<1> QED
  BY <1>2, <1>3

\* The elements of a concatenation are those of its parts.
LEMMA JoinHas ==
    ASSUME NEW S, NEW s \in Seq(S), NEW t \in Seq(S)
    PROVE  /\ \A p \in 1..Len(s) : p \in 1..Len(s \o t) /\ (s \o t)[p] = s[p]
           /\ \A p \in 1..Len(t) : Len(s) + p \in 1..Len(s \o t) /\ (s \o t)[Len(s) + p] = t[p]
<1>1. Len(s) \in Nat /\ Len(t) \in Nat
  OBVIOUS
<1>2. /\ Len(s \o t) = Len(s) + Len(t)
      /\ \A i \in 1..(Len(s) + Len(t)) : (s \o t)[i] = IF i <= Len(s) THEN s[i] ELSE t[i - Len(s)]
  BY ConcatProperties
<1>3. \A p \in 1..Len(s) : p \in 1..(Len(s) + Len(t)) /\ p <= Len(s)
  BY <1>1
<1>4. \A p \in 1..Len(t) : Len(s) + p \in 1..(Len(s) + Len(t)) /\ ~(Len(s) + p <= Len(s))
                         /\ Len(s) + p - Len(s) = p
  BY <1>1
<1> QED
  BY <1>2, <1>3, <1>4

\* A line more of a sequence.
LEMMA SubSeqMore ==
    ASSUME NEW S, NEW s \in Seq(S), NEW m \in 1..Len(s), NEW n \in m..Len(s)
    PROVE  /\ SubSeq(s, m, n) = Append(SubSeq(s, m, n - 1), s[n])
           /\ SubSeq(s, m, n - 1) \in Seq(S) /\ s[n] \in S
<1>1. SubSeq(s, m, n) = SubSeq(s, m, n - 1) \o <<s[n]>>
  BY SubSeqRecursiveSecond
<1>2. SubSeq(s, m, n - 1) \in Seq(S) /\ s[n] \in S
  OBVIOUS
<1>3. PICK u, x : u = SubSeq(s, m, n - 1) /\ x = s[n]
  OBVIOUS
<1>4. u \in Seq(S) /\ x \in S
  BY <1>2, <1>3
<1>5. Append(u, x) = u \o <<x>>
  BY <1>4, AppendIsConcat
<1> QED
  BY <1>1, <1>2, <1>3, <1>5

\* Every line of every file is a line of the concatenated files.
LEMMA FlattenHas ==
    ASSUME NEW S, NEW s \in Seq(Seq(S)), NEW i \in 1..Len(s), NEW j \in 1..Len(s[i])
    PROVE  \E p \in 1..Len(FlattenSeq(s)) : FlattenSeq(s)[p] = s[i][j]
<1> DEFINE n == Len(s)
<1>1. n \in Nat /\ n # 0 /\ i \in 1..n /\ \A k \in 1..n : s[k] \in Seq(S)
  OBVIOUS
<1> HIDE DEF n
<1>2. PICK g : FlatFrom(s, g, n) /\ FlattenSeq(s) = g[n]
  BY <1>1, FlattenIs DEF n
<1> DEFINE T == {k \in 0..n : k = 0 \/ (g[k] \in Seq(S) /\ (i <= k => \E p \in 1..Len(g[k]) : g[k][p] = s[i][j]))}
<1>3. 0 \in T
  BY <1>1
<1>4. ASSUME NEW k \in 1..n, k - 1 \in T PROVE k \in T
  <2>1. g[k] = IF k = 1 THEN s[k] ELSE g[k - 1] \o s[k]
    BY <1>2 DEF FlatFrom
  <2>2. s[k] \in Seq(S) /\ (k # 1 => g[k - 1] \in Seq(S))
    BY <1>1, <1>4
  <2>3. g[k] \in Seq(S)
    BY <2>1, <2>2
  <2>4. ASSUME i <= k PROVE \E p \in 1..Len(g[k]) : g[k][p] = s[i][j]
    <3>1. CASE i = k
      <4>1. CASE k = 1
        BY <2>1, <3>1, <4>1
      <4>2. CASE k # 1
        <5> DEFINE p == Len(g[k - 1]) + j
        <5>1. g[k] = g[k - 1] \o s[k] /\ g[k - 1] \in Seq(S) /\ s[k] \in Seq(S) /\ j \in 1..Len(s[k])
          BY <2>1, <2>2, <3>1, <4>2
        <5>2. p \in 1..Len(g[k]) /\ g[k][p] = s[k][j]
          <6>1. PICK a, b : a = g[k - 1] /\ b = s[k]
            OBVIOUS
          <6>2. a \in Seq(S) /\ b \in Seq(S) /\ j \in 1..Len(b) /\ g[k] = a \o b
            BY <5>1, <6>1
          <6>3. Len(a) + j \in 1..Len(a \o b) /\ (a \o b)[Len(a) + j] = b[j]
            BY <6>2, JoinHas
          <6> QED
            BY <6>1, <6>2, <6>3
        <5> QED
          BY <3>1, <5>2
      <4> QED
        BY <4>1, <4>2
    <3>2. CASE i # k
      <4>1. k # 1 /\ i <= k - 1 /\ k - 1 # 0
        BY <1>1, <2>4, <3>2
      <4>2. PICK p \in 1..Len(g[k - 1]) : g[k - 1][p] = s[i][j]
        BY <1>4, <4>1
      <4>3. g[k] = g[k - 1] \o s[k] /\ g[k - 1] \in Seq(S) /\ s[k] \in Seq(S)
        BY <2>1, <2>2, <4>1
      <4>4. p \in 1..Len(g[k]) /\ g[k][p] = g[k - 1][p]
        <5>1. PICK a, b : a = g[k - 1] /\ b = s[k]
          OBVIOUS
        <5>2. a \in Seq(S) /\ b \in Seq(S) /\ p \in 1..Len(a) /\ g[k] = a \o b
          BY <4>3, <5>1
        <5>3. p \in 1..Len(a \o b) /\ (a \o b)[p] = a[p]
          BY <5>2, JoinHas
        <5> QED
          BY <5>1, <5>2, <5>3
      <4> QED
        BY <4>2, <4>4
    <3> QED
      BY <3>1, <3>2
  <2> QED
    BY <1>1, <2>3, <2>4
<1> HIDE DEF T
<1>5. T = 0..n
  <2>1. T \in SUBSET (0..n)
    BY DEF T
  <2> QED
    BY <1>1, <1>3, <1>4, <2>1, UpToTheBound
<1>6. n \in T /\ i <= n
  BY <1>1, <1>5
<1> QED
  BY <1>1, <1>2, <1>6 DEF T

\* The files before a cut, and those after it.
LEMMA FlattenSplit ==
    ASSUME NEW S, NEW s \in Seq(Seq(S)), NEW n \in 0..Len(s)
    PROVE  FlattenSeq(s) = FlattenSeq(SubSeq(s, 1, n)) \o FlattenSeq(SubSeq(s, n + 1, Len(s)))
<1> DEFINE top == Len(s) - n
           Pre == FlattenSeq(SubSeq(s, 1, n))
           Mid(k) == FlattenSeq(SubSeq(s, n + 1, n + k))
           T == {k \in 0..top : FlattenSeq(SubSeq(s, 1, n + k)) = Pre \o Mid(k)}
<1>1. top \in Nat /\ n + top = Len(s) /\ n \in Nat /\ SubSeq(s, 1, Len(s)) = s
  OBVIOUS
<1>2. SubSeq(s, 1, n) \in Seq(Seq(S)) /\ Pre \in Seq(S)
  <2>1. SubSeq(s, 1, n) \in Seq(Seq(S))
    OBVIOUS
  <2> QED
    BY <2>1, FlattenTyped
<1> HIDE DEF top
<1>3. 0 \in T
  <2>1. SubSeq(s, n + 1, n + 0) = <<>> /\ n + 0 = n
    OBVIOUS
  <2>2. Mid(0) = <<>>
    BY <2>1, FlattenNone
  <2>3. FlattenSeq(SubSeq(s, 1, n + 0)) = Pre
    BY <2>1
  <2> HIDE DEF Mid, Pre
  <2> QED
    BY <1>1, <1>2, <2>2, <2>3
<1>4. ASSUME NEW k \in 1..top, k - 1 \in T PROVE k \in T
  <2> DEFINE u == SubSeq(s, 1, n + (k - 1))
             v == SubSeq(s, n + 1, n + (k - 1))
             x == s[n + k]
  <2>1. /\ u \in Seq(Seq(S)) /\ v \in Seq(Seq(S)) /\ x \in Seq(S)
        /\ SubSeq(s, 1, n + k) = Append(u, x) /\ SubSeq(s, n + 1, n + k) = Append(v, x)
    <3>1. /\ 1 \in 1..Len(s) /\ n + k \in 1..Len(s) /\ n + 1 \in 1..Len(s) /\ n + k \in (n + 1)..Len(s)
          /\ n + k - 1 = n + (k - 1)
      BY <1>1
    <3> QED
      BY <3>1, SubSeqMore, SMTT(30)
  <2>2. FlattenSeq(u) = Pre \o FlattenSeq(v)
    BY <1>4
  <2> HIDE DEF u, v, x
  <2>3. FlattenSeq(v) \in Seq(S)
    BY <2>1, FlattenTyped
  <2>4. FlattenSeq(Append(u, x)) = FlattenSeq(u) \o x
    BY <2>1, FlattenAppend
  <2>5. FlattenSeq(Append(v, x)) = FlattenSeq(v) \o x
    BY <2>1, FlattenAppend
  <2>6. PICK f, a : f = FlattenSeq(v) /\ a = Pre
    OBVIOUS
  <2> HIDE DEF Pre
  <2>7. (a \o f) \o x = a \o (f \o x)
    <3>1. a \in Seq(S) /\ f \in Seq(S) /\ x \in Seq(S)
      BY <1>2, <2>1, <2>3, <2>6
    <3>2. \A b, c, d \in Seq(S) : (b \o c) \o d = b \o (c \o d)
      BY ConcatAssociative, SMTT(30)
    <3> QED
      BY <3>1, <3>2
  <2>8. FlattenSeq(SubSeq(s, 1, n + k)) = Pre \o Mid(k)
    BY <2>1, <2>2, <2>4, <2>5, <2>6, <2>7
  <2> QED
    BY <2>8
<1> HIDE DEF T
<1>5. T = 0..top
  <2>1. T \in SUBSET (0..top)
    BY DEF T
  <2> QED
    BY <1>1, <1>3, <1>4, <2>1, UpToTheBound
<1>6. top \in T
  BY <1>1, <1>5
<1>7. FlattenSeq(SubSeq(s, 1, n + top)) = Pre \o Mid(top)
  BY <1>6 DEF T
<1> QED
  BY <1>1, <1>7

-----------------------------------------------------------------------------
\* Ends of sequences.
LEMMA AppendToEnd ==
    ASSUME NEW S, NEW s \in Seq(S), NEW x \in S, NEW off \in 0..Len(s)
    PROVE  SubSeq(Append(s, x), off + 1, Len(s) + 1) = Append(SubSeq(s, off + 1, Len(s)), x)
<1> DEFINE t == Append(s, x)
           n == Len(s)
<1>1. t \in Seq(S) /\ n \in Nat /\ Len(t) = n + 1 /\ t[n + 1] = x /\ \A i \in 1..n : t[i] = s[i]
  OBVIOUS
<1>3. SubSeq(t, off + 1, n) = SubSeq(s, off + 1, n)
  <2>1. \A i \in (off + 1)..n : t[i] = s[i]
    BY <1>1
  <2> QED
    BY <1>1, <2>1
<1> HIDE DEF t, n
<1>4. SubSeq(t, off + 1, n + 1) = Append(SubSeq(t, off + 1, n), t[n + 1])
  <2>1. \A i \in 1..Len(t) : \A j \in i..Len(t) : SubSeq(t, i, j) = Append(SubSeq(t, i, j - 1), t[j])
    BY <1>1, SubSeqMore
  <2>2. PICK a, b : a = off + 1 /\ b = n + 1
    OBVIOUS
  <2>3. off \in Nat /\ off <= n
    BY DEF n
  <2>4. a \in 1..(n + 1) /\ b \in a..(n + 1) /\ b - 1 = n
    BY <1>1, <2>2, <2>3
  <2>5. SubSeq(t, a, b) = Append(SubSeq(t, a, b - 1), t[b])
    BY <1>1, <2>1, <2>4
  <2> QED
    BY <2>2, <2>4, <2>5
<1> QED
  BY <1>1, <1>3, <1>4 DEF t, n

\* What is left of the end of a sequence, once its first part is cut off, is an
\* end of it too.
LEMMA EndOfEnd ==
    ASSUME NEW S, NEW s \in Seq(S), NEW a \in Seq(S), NEW b \in Seq(S), NEW off \in 0..Len(s),
           SubSeq(s, off + 1, Len(s)) = a \o b
    PROVE  /\ off + Len(a) \in 0..Len(s)
           /\ b = SubSeq(s, off + Len(a) + 1, Len(s))
<1> DEFINE n == Len(s)
           e == SubSeq(s, off + 1, n)
           k == off + Len(a)
           r == SubSeq(s, k + 1, n)
<1>1. n \in Nat /\ Len(a) \in Nat /\ Len(b) \in Nat /\ e = a \o b
  OBVIOUS
<1>2. Len(e) = n - off /\ \A i \in 1..(n - off) : e[i] = s[off + i]
  OBVIOUS
<1>3. Len(a \o b) = Len(a) + Len(b)
  OBVIOUS
<1>4. \A p \in 1..Len(b) : (a \o b)[Len(a) + p] = b[p]
  BY JoinHas
<1> HIDE DEF n, e
<1>5. k \in 0..n /\ Len(b) = n - k
  BY <1>1, <1>2, <1>3 DEF n
<1>6. r \in Seq(S) /\ Len(r) = n - k /\ \A p \in 1..(n - k) : r[p] = s[k + p]
  BY <1>5 DEF n
<1>7. \A p \in 1..Len(b) : b[p] = r[p]
  <2> SUFFICES ASSUME NEW p \in 1..Len(b) PROVE b[p] = r[p]
    OBVIOUS
  <2>1. Len(a) + p \in 1..(n - off) /\ off + (Len(a) + p) = k + p /\ p \in 1..(n - k)
    BY <1>1, <1>2, <1>3, <1>5 DEF n
  <2>2. e[Len(a) + p] = s[k + p]
    BY <1>2, <2>1
  <2> QED
    BY <1>1, <1>4, <1>6, <2>1, <2>2
<1> HIDE DEF r, k
<1>8. b = r
  <2>1. \A s1, s2 \in Seq(S) : Len(s1) = Len(s2) /\ (\A i \in 1..Len(s1) : s1[i] = s2[i]) => s1 = s2
    BY SeqEqual
  <2> QED
    BY <1>5, <1>6, <1>7, <2>1
<1> QED
  BY <1>5, <1>8 DEF n, k, r

\* The walk over the end of a chain finds at most that its first line follows
\* nothing.
LEMMA EndsVerify ==
    ASSUME NEW ls, Len(ls) \in Nat,
           \A i \in 1..Len(ls) : Consistent(ls[i]),
           \A i \in 2..Len(ls) : ls[i].prev = ls[i-1].hash /\ ls[i].seq = ls[i-1].seq + 1
    PROVE  \A f \in Verify(ls).found : f[1] = 1 /\ f[2] # "hash mismatch"
<1> DEFINE top == Len(ls)
<1>1. PICK w : WalkFrom(ls, w, top) /\ Verify(ls) = w[top]
  BY VerifyWalks
<1>2. /\ top \in Nat /\ \A i \in 1..top : Consistent(ls[i])
      /\ \A i \in 2..top : ls[i].prev = ls[i-1].hash /\ ls[i].seq = ls[i-1].seq + 1
  OBVIOUS
<1> HIDE DEF top
<1> DEFINE Fine(n) == /\ DOMAIN w[n] = ResultFields /\ w[n].at = n
                      /\ \A f \in w[n].found : f[1] = 1 /\ f[2] # "hash mismatch"
                      /\ n # 0 => w[n].prev = ls[n].hash /\ w[n].expected = ls[n].seq + 1
           T == {n \in 0..top : Fine(n)}
<1>3. w[0] = EmptyResult /\ \A n \in 1..top : w[n] = CheckLine(w[n - 1], ls[n])
  BY <1>1, <1>2 DEF WalkFrom
<1>4. 0 \in T
  <2>1. Fine(0)
    BY <1>3 DEF EmptyResult, ResultFields
  <2>2. 0 \in 0..top
    BY <1>2
  <2> HIDE DEF Fine
  <2> QED
    BY <2>1, <2>2
<1>5. ASSUME NEW n \in 1..top, n - 1 \in T PROVE n \in T
  <2> DEFINE m == n - 1
  <2>1. Fine(m)
    BY <1>5
  <2>2. w[n] = CheckLine(w[m], ls[n]) /\ m \in Nat /\ n = m + 1 /\ n # 0 /\ (m = 0 => n = 1) /\ (m # 0 => n \in 2..top)
    BY <1>2, <1>3
  <2>3. m # 0 => ls[n].prev = ls[m].hash /\ ls[n].seq = ls[m].seq + 1
    BY <1>2, <2>2
  <2> HIDE DEF m, T
  <2>4. LineFinds(w[n], w[m], ls[n], n)
    <3>1. DOMAIN w[m] = ResultFields /\ w[m].at + 1 = n
      BY <2>1, <2>2
    <3> QED
      BY <2>2, <3>1, CheckLineFinds
  <2>5. Consistent(ls[n])
    BY <1>2
  <2>6. ls[n].kind = "row"
    BY <2>5 DEF Consistent
  <2>7. m # 0 => w[n].found = w[m].found
    <3>1. m # 0 => Continues(w[m], ls[n])
      BY <2>1, <2>3, <2>5 DEF Continues, Consistent
    <3> QED
      BY <2>4, <3>1 DEF LineFinds
  <2>8. \A f \in w[n].found \ w[m].found : f[1] = n /\ f[2] # "hash mismatch"
    BY <2>4, <2>5 DEF LineFinds
  <2>9. \A f \in w[n].found : f[1] = 1 /\ f[2] # "hash mismatch"
    BY <2>1, <2>2, <2>7, <2>8
  <2>10. Fine(n)
    BY <2>4, <2>6, <2>9 DEF LineFinds
  <2>11. n \in 0..top
    BY <1>2
  <2> HIDE DEF Fine
  <2> QED
    BY <2>10, <2>11 DEF T
<1> HIDE DEF T
<1>6. T = 0..top
  <2>1. T \in SUBSET (0..top)
    BY DEF T
  <2> QED
    BY <1>2, <1>4, <1>5, <2>1, UpToTheBound
<1>7. top \in T
  BY <1>2, <1>6
<1> QED
  BY <1>1, <1>7 DEF T

-----------------------------------------------------------------------------
\* The rows that were written, as they are and with another event in them, and
\* every line that is no row: what the files hold unless they diverged.
Undisturbed == {written[i] : i \in 1..Len(written)}
Reworded    == {[written[i] EXCEPT !.ev = 2] : i \in 1..Len(written)}
NoRows      == {line \in Line : line.kind # "row"}
Own == Undisturbed \cup Reworded \cup NoRows

WrittenInv ==
    /\ written \in Seq(Line)
    /\ LinkedTo(written, Len(written))
    /\ \A i \in 1..Len(written) : written[i].ev = 1

ManifestInv ==
    \A m \in manifests : m.end \in 0..Len(written) - 1 /\ m.head = written[m.end + 1].hash

FilesInv ==
    /\ damage = <<>> => archives \in Seq(Seq(Undisturbed)) /\ active \in Seq(Undisturbed)
    /\ "diverge" \notin ToSet(damage) => archives \in Seq(Seq(Own)) /\ active \in Seq(Own)

EndInv ==
    damage = <<>> /\ ~stranded =>
        \E off \in 0..Len(written) :
            DirLines = SubSeq(written, off + 1, Len(written)) /\ (~purged => off = 0)

DirectoryInv == TypeOK /\ WrittenInv /\ ManifestInv /\ FilesInv /\ EndInv

\* The row that is written next.
LEMMA NextRowIs ==
    ASSUME WrittenInv
    PROVE  /\ NextRow(1) \in Line /\ NextRow(1).kind = "row" /\ NextRow(1).seq = Len(written)
           /\ NextRow(1).prev = (IF Len(written) = 0 THEN NoDigest ELSE written[Len(written)].hash)
           /\ NextRow(1).hash = HashEvent(NextRow(1).prev, NextRow(1).seq, NextRow(1).ev)
           /\ NextRow(1).ev = 1
<1>1. Len(written) \in Nat /\ (written = <<>> <=> Len(written) = 0)
  BY DEF WrittenInv
<1>2. TailDigest(written) \in Digest
  <2>1. CASE written = <<>>
    <3>1. <<>> \in Seq(Nat \X Event)
      BY EmptySeq
    <3> QED
      BY <2>1, <3>1 DEF TailDigest, Digest, NoDigest
  <2>2. CASE written # <<>>
    <3>1. Len(written) \in 1..Len(written)
      BY <1>1, <2>2
    <3>2. written[Len(written)] \in Line
      BY <3>1 DEF WrittenInv
    <3> QED
      BY <2>2, <3>2 DEF TailDigest, Line
  <2> QED
    BY <2>1, <2>2
<1>3. PICK prev, n : prev = TailDigest(written) /\ n = Len(written)
  OBVIOUS
<1>4. prev \in Digest /\ n \in Nat
  BY <1>1, <1>2, <1>3
<1>5. HashEvent(prev, n, 1) \in Digest
  BY <1>4 DEF HashEvent, Digest, Event
<1>6. StampedRow(prev, n, 1) \in Line
  BY <1>4, <1>5 DEF StampedRow, Line, Event
<1> QED
  BY <1>1, <1>3, <1>6 DEF NextRow, StampedRow, TailDigest

\* Two rows of the same place, one of them reworded, have different digests.
LEMMA DigestsDiffer ==
    ASSUME NEW p \in Digest, NEW n \in Nat
    PROVE  HashEvent(p, n, 1) # HashEvent(p, n, 2)
<1>1. HashEvent(p, n, 1)[Len(p) + 1] = <<n, 1>> /\ HashEvent(p, n, 2)[Len(p) + 1] = <<n, 2>>
  BY DEF HashEvent, Digest
<1>2. <<n, 1>> # <<n, 2>>
  OBVIOUS
<1> QED
  BY <1>1, <1>2

\* A consistent row of the files is one that was written.
LEMMA ConsistentIsWritten ==
    ASSUME WrittenInv, NEW line \in Own, Consistent(line)
    PROVE  \E i \in 1..Len(written) : line = written[i]
<1>1. CASE line \in Undisturbed
  BY <1>1 DEF Undisturbed
<1>2. CASE line \in NoRows
  BY <1>2 DEF NoRows, Consistent
<1>3. CASE line \in Reworded
  <2>1. PICK i \in 1..Len(written) : line = [written[i] EXCEPT !.ev = 2]
    BY <1>3 DEF Reworded
  <2>2. written[i] \in Line /\ written[i].ev = 1 /\ Consistent(written[i])
    BY DEF WrittenInv, LinkedTo, Consistent
  <2>3. /\ line.ev = 2 /\ line.prev = written[i].prev /\ line.seq = written[i].seq
        /\ line.hash = written[i].hash
    BY <2>1, <2>2 DEF Line
  <2>4. HashEvent(line.prev, line.seq, 1) = HashEvent(line.prev, line.seq, 2)
    BY <2>2, <2>3 DEF Consistent
  <2>5. line.prev \in Digest /\ line.seq \in Nat
    BY <2>2, <2>3 DEF Line
  <2> QED
    BY <2>4, <2>5, DigestsDiffer
<1> QED
  BY <1>1, <1>2, <1>3 DEF Own

\* What one damage makes of a file.
LEMMA DamagesTyped ==
    ASSUME NEW T, T \subseteq Line, NEW s \in Seq(T), BareRow(1) \in T, Garbled(1) \in T,
           \A line \in T : [line EXCEPT !.ev = 2] \in T,
           NEW d \in Damages(s),
           d[1] = "diverge" => \A line \in T : StampedRow(line.prev, line.seq, 2) \in T
    PROVE  d[2] \in Seq(T)
<1>0. Len(s) \in Nat /\ \A i \in 1..Len(s) : s[i] \in T
  OBVIOUS
<1>1. ASSUME NEW i \in 1..Len(s) PROVE RemoveLine(s, i) \in Seq(T)
  <2>1. SubSeq(s, 1, i - 1) \in Seq(T)
    OBVIOUS
  <2>2. SubSeq(s, i + 1, Len(s)) \in Seq(T)
    OBVIOUS
  <2> QED
    BY <2>1, <2>2 DEF RemoveLine
<1>2. ASSUME NEW i \in 1..Len(s), NEW line \in T PROVE [s EXCEPT ![i] = line] \in Seq(T)
  BY <1>2
<1>3. ASSUME NEW i \in 1..Len(s) - 1 PROVE SwapLines(s, i) \in Seq(T)
  <2>1. i \in 1..Len(s) /\ i + 1 \in 1..Len(s)
    BY <1>0
  <2>2. s[i] \in T /\ s[i+1] \in T
    BY <1>0, <2>1
  <2> QED
    BY <2>1, <2>2 DEF SwapLines
<1>4. ASSUME NEW n \in 0..Len(s) - 1 PROVE SubSeq(s, 1, n) \in Seq(T)
  BY <1>4
<1>5. CASE \E i \in 1..Len(s) : d = <<"drop", RemoveLine(s, i)>>
  BY <1>1, <1>5
<1>6. CASE \E i \in 1..Len(s) : d = <<"edit", [s EXCEPT ![i].ev = 2]>>
  <2>1. PICK i \in 1..Len(s) : d = <<"edit", [s EXCEPT ![i].ev = 2]>>
    BY <1>6
  <2>2. [s[i] EXCEPT !.ev = 2] \in T
    BY <1>0
  <2>3. d[2] = [s EXCEPT ![i] = [s[i] EXCEPT !.ev = 2]]
    BY <2>1
  <2> QED
    BY <1>2, <2>2, <2>3
<1>7. CASE \E i \in 1..Len(s) - 1 : d = <<"swap", SwapLines(s, i)>>
  BY <1>3, <1>7
<1>8. CASE \E i \in 1..Len(s) : d = <<"strip", [s EXCEPT ![i] = BareRow(1)]>>
  BY <1>2, <1>8
<1>9. CASE \E i \in 1..Len(s) : d = <<"garble", [s EXCEPT ![i] = Garbled(1)]>>
  BY <1>2, <1>9
<1>10. CASE \E n \in 0..Len(s) - 1 : d = <<"tail", SubSeq(s, 1, n)>>
  BY <1>4, <1>10
<1>11. CASE \E n \in {k \in 0..Len(s) - 1 : s[k + 1].kind = "row"} : d = <<"diverge", Diverged(s, n)>>
  <2>1. PICK n \in 0..Len(s) - 1 : d = <<"diverge", Diverged(s, n)>>
    BY <1>11
  <2>2. n + 1 \in 1..Len(s)
    BY <1>0
  <2>3. StampedRow(s[n + 1].prev, s[n + 1].seq, 2) \in T
    BY <1>0, <2>1, <2>2
  <2>4. SubSeq(s, 1, n) \in Seq(T)
    BY <1>4
  <2>5. Diverged(s, n) = Append(SubSeq(s, 1, n), StampedRow(s[n + 1].prev, s[n + 1].seq, 2))
    BY DEF Diverged
  <2>6. PICK u, x : u = SubSeq(s, 1, n) /\ x = StampedRow(s[n + 1].prev, s[n + 1].seq, 2)
    OBVIOUS
  <2>7. Append(u, x) \in Seq(T)
    BY <2>3, <2>4, <2>6
  <2> QED
    BY <2>1, <2>5, <2>6, <2>7
<1> QED
  BY <1>5, <1>6, <1>7, <1>8, <1>9, <1>10, <1>11 DEF Damages

\* Lines stay lines, and what the files hold stays what it was.
LEMMA LinesClosed ==
    /\ BareRow(1) \in Line /\ Garbled(1) \in Line
    /\ \A line \in Line : [line EXCEPT !.ev = 2] \in Line
    /\ \A line \in Line : StampedRow(line.prev, line.seq, 2) \in Line
<1>1. NoDigest \in Digest
  BY EmptySeq DEF NoDigest, Digest
<1>2. BareRow(1) \in Line /\ Garbled(1) \in Line
  BY <1>1 DEF BareRow, Garbled, PlainLine, Line, Event
<1>3. \A line \in Line : [line EXCEPT !.ev = 2] \in Line
  BY DEF Line, Event
<1>4. ASSUME NEW line \in Line PROVE StampedRow(line.prev, line.seq, 2) \in Line
  <2>1. PICK p, n : p = line.prev /\ n = line.seq
    OBVIOUS
  <2>2. p \in Digest /\ n \in Nat
    BY <2>1 DEF Line
  <2>3. HashEvent(p, n, 2) \in Digest
    BY <2>2 DEF HashEvent, Digest, Event
  <2>4. StampedRow(p, n, 2) \in Line
    BY <2>2, <2>3 DEF StampedRow, Line, Event
  <2> QED
    BY <2>1, <2>4
<1> QED
  BY <1>2, <1>3, <1>4

\* The damages but divergence turn lines the files may hold into such lines.
LEMMA OwnClosed ==
    ASSUME WrittenInv
    PROVE  /\ Own \subseteq Line /\ Undisturbed \subseteq Own /\ BareRow(1) \in Own /\ Garbled(1) \in Own
           /\ \A line \in Own : [line EXCEPT !.ev = 2] \in Own
<1>1. \A i \in 1..Len(written) : written[i] \in Line
  BY DEF WrittenInv
<1>2. Undisturbed \subseteq Line /\ Reworded \subseteq Line
  BY <1>1, LinesClosed DEF Undisturbed, Reworded
<1>3. Own \subseteq Line /\ Undisturbed \subseteq Own
  BY <1>2 DEF Own, NoRows
<1>4. BareRow(1).kind = "bare" /\ Garbled(1).kind = "garbled"
  BY DEF BareRow, Garbled, PlainLine
<1>5. BareRow(1) \in Own /\ Garbled(1) \in Own
  BY <1>4, LinesClosed DEF Own, NoRows
<1>6. ASSUME NEW line \in Own PROVE [line EXCEPT !.ev = 2] \in Own
  <2>1. CASE line \in Undisturbed
    BY <2>1 DEF Own, Undisturbed, Reworded
  <2>2. CASE line \in Reworded
    <3>1. PICK i \in 1..Len(written) : line = [written[i] EXCEPT !.ev = 2]
      BY <2>2 DEF Reworded
    <3>2. PICK r : r = written[i]
      OBVIOUS
    <3>3. [[r EXCEPT !.ev = 2] EXCEPT !.ev = 2] = [r EXCEPT !.ev = 2]
      OBVIOUS
    <3>4. [line EXCEPT !.ev = 2] = line
      BY <3>1, <3>2, <3>3
    <3> QED
      BY <3>4
  <2>3. CASE line \in NoRows
    <3>1. line \in Line /\ line.kind # "row"
      BY <2>3 DEF NoRows
    <3>2. [line EXCEPT !.ev = 2].kind = line.kind
      BY <3>1 DEF Line
    <3> QED
      BY <3>1, <3>2, LinesClosed DEF Own, NoRows
  <2> QED
    BY <2>1, <2>2, <2>3 DEF Own
<1> QED
  BY <1>3, <1>5, <1>6

\* So the files keep holding lines of the same set.
LEMMA DamageKeeps ==
    ASSUME NEW T, T \subseteq Line, BareRow(1) \in T, Garbled(1) \in T,
           \A line \in T : [line EXCEPT !.ev = 2] \in T,
           archives \in Seq(Seq(T)), active \in Seq(T), Damage,
           \/ "diverge" \notin ToSet(damage')
           \/ \A line \in T : StampedRow(line.prev, line.seq, 2) \in T,
           damage \in Seq(DamageKinds)
    PROVE  archives' \in Seq(Seq(T)) /\ active' \in Seq(T)
<1>1. PICK kind \in DamageKinds :
         /\ damage' = Append(damage, kind)
         /\ \/ \E d \in Damages(active) :
                   d[1] = kind /\ active' = d[2] /\ UNCHANGED archives
            \/ \E i \in 1..Len(archives) : \E d \in Damages(archives[i]) :
                   /\ d[1] = kind
                   /\ archives' = [archives EXCEPT ![i] = d[2]]
                   /\ UNCHANGED active
  BY DEF Damage
<1>2. kind = "diverge" => \A line \in T : StampedRow(line.prev, line.seq, 2) \in T
  <2>1. kind \in ToSet(damage')
    <3>1. damage'[Len(damage) + 1] = kind /\ Len(damage) + 1 \in DOMAIN damage'
      BY <1>1
    <3> QED
      BY <3>1 DEF ToSet
  <2> QED
    BY <2>1
<1>3. CASE \E d \in Damages(active) : d[1] = kind /\ active' = d[2] /\ UNCHANGED archives
  <2>1. PICK d \in Damages(active) : d[1] = kind /\ active' = d[2] /\ UNCHANGED archives
    BY <1>3
  <2>2. PICK s : s = active
    OBVIOUS
  <2>3. s \in Seq(T) /\ d \in Damages(s)
    BY <2>1, <2>2
  <2>4. d[2] \in Seq(T)
    BY <1>2, <2>1, <2>3, DamagesTyped
  <2> QED
    BY <2>1, <2>4
<1>4. CASE \E i \in 1..Len(archives) : \E d \in Damages(archives[i]) :
                   /\ d[1] = kind
                   /\ archives' = [archives EXCEPT ![i] = d[2]]
                   /\ UNCHANGED active
  <2>a. PICK i \in 1..Len(archives) :
            \E d \in Damages(archives[i]) :
                d[1] = kind /\ archives' = [archives EXCEPT ![i] = d[2]] /\ UNCHANGED active
    BY <1>4
  <2>1. PICK d \in Damages(archives[i]) :
            d[1] = kind /\ archives' = [archives EXCEPT ![i] = d[2]] /\ UNCHANGED active
    BY <2>a
  <2>2. PICK s : s = archives[i]
    OBVIOUS
  <2>3. s \in Seq(T) /\ d \in Damages(s)
    BY <2>1, <2>2
  <2>4. d[2] \in Seq(T)
    BY <1>2, <2>1, <2>3, DamagesTyped
  <2>5. archives' \in Seq(Seq(T))
    <3>1. PICK x : x = d[2]
      OBVIOUS
    <3>2. x \in Seq(T) /\ archives' = [archives EXCEPT ![i] = x]
      BY <2>1, <2>4, <3>1
    <3> QED
      BY <3>2
  <2> QED
    BY <2>1, <2>5
<1> QED
  BY <1>1, <1>3, <1>4

-----------------------------------------------------------------------------
\* Every step keeps the types.
LEMMA DirectoryTyped ==
    ASSUME DirectoryInv, [Next]_vars
    PROVE  TypeOK'
<1>0. /\ archives \in Seq(Seq(Line)) /\ Len(archives) <= MaxFiles /\ active \in Seq(Line)
      /\ rotating \in Seq(Line) /\ manifests \subseteq Manifest /\ written \in Seq(Line)
      /\ purged \in BOOLEAN /\ stranded \in BOOLEAN
      /\ damage \in Seq(DamageKinds) /\ Len(damage) <= MaxDamage /\ WrittenInv
      /\ MaxFiles \in Nat /\ MaxDamage \in Nat
  BY DirectoryAssumption DEF DirectoryInv, TypeOK
<1>1. CASE LogRow
  <2>1. NextRow(1) \in Line
    BY <1>0, NextRowIs
  <2>2. active' \in Seq(Line) /\ written' \in Seq(Line)
    BY <1>0, <1>1, <2>1 DEF LogRow
  <2> QED
    BY <1>0, <1>1, <2>2 DEF LogRow, TypeOK
<1>2. CASE Checkpoint
  <2> DEFINE covered == {i \in 1..Len(written) : \E m \in manifests : i - 1 <= m.end}
             new == [start |-> Cardinality(covered), end |-> Len(written) - 1, head |-> TailDigest(written)]
  <2>1. manifests' = manifests \cup {new} /\ written # <<>>
        /\ UNCHANGED <<archives, active, rotating, written, purged, stranded, damage>>
    BY <1>2 DEF Checkpoint
  <2>2. Len(written) \in Nat /\ Len(written) \in 1..Len(written)
    BY <1>0, <2>1
  <2>3. Cardinality(covered) \in Nat
    <3>1. IsFiniteSet(1..Len(written))
      BY <2>2, FS_Interval
    <3>2. IsFiniteSet(covered)
      BY <3>1, FS_Subset
    <3> QED
      BY <3>2, FS_CardinalityType
  <2>4. TailDigest(written) \in Digest
    <3>1. written[Len(written)] \in Line
      BY <1>0, <2>2
    <3> QED
      BY <2>1, <3>1 DEF TailDigest, Line
  <2>5. Len(written) - 1 \in Nat
    BY <2>2
  <2> HIDE DEF covered
  <2>6. new \in Manifest
    BY <2>3, <2>4, <2>5 DEF Manifest
  <2> QED
    BY <1>0, <2>1, <2>6 DEF TypeOK
<1>3. CASE Rotate
  <2>1. Len(archives') <= MaxFiles /\ archives' \in Seq(Seq(Line))
    BY <1>0, <1>3 DEF Rotate
  <2>2. <<>> \in Seq(Line)
    BY EmptySeq
  <2> QED
    BY <1>0, <1>3, <2>1, <2>2 DEF Rotate, TypeOK
<1>4. CASE RotateFails
  <2>1. <<>> \in Seq(Line)
    BY EmptySeq
  <2> QED
    BY <1>0, <1>4, <2>1 DEF RotateFails, TypeOK
<1>5. CASE Purge
  <2>1. PICK n \in 1..Len(archives) :
          /\ archives' = SubSeq(archives, n + 1, Len(archives)) /\ purged' = TRUE
          /\ UNCHANGED <<active, rotating, manifests, written, stranded, damage>>
    BY <1>5 DEF Purge
  <2>2. archives' \in Seq(Seq(Line)) /\ Len(archives') <= Len(archives)
    BY <1>0, <2>1
  <2>3. Len(archives') <= MaxFiles
    BY <1>0, <2>2
  <2> QED
    BY <1>0, <2>1, <2>2, <2>3 DEF TypeOK
<1>6. CASE Damage
  <2>1. archives' \in Seq(Seq(Line)) /\ active' \in Seq(Line)
    BY <1>0, <1>6, LinesClosed, DamageKeeps
  <2>2. damage' \in Seq(DamageKinds) /\ Len(damage') <= MaxDamage
    BY <1>0, <1>6 DEF Damage
  <2>3. Len(archives') = Len(archives)
    BY <1>0, <1>6 DEF Damage
  <2>4. UNCHANGED <<rotating, manifests, written, purged, stranded>>
    BY <1>6 DEF Damage
  <2> QED
    BY <1>0, <2>1, <2>2, <2>3, <2>4 DEF TypeOK
<1>7. CASE UNCHANGED vars
  BY <1>0, <1>7 DEF vars, TypeOK
<1> QED
  BY <1>1, <1>2, <1>3, <1>4, <1>5, <1>6, <1>7 DEF Next

\* What was written grows by rows that continue it.
LEMMA WrittenGrows ==
    ASSUME WrittenInv, [Next]_vars
    PROVE  /\ WrittenInv'
           /\ Len(written) <= Len(written') /\ \A i \in 1..Len(written) : written'[i] = written[i]
<1>0. written \in Seq(Line) /\ Len(written) \in Nat /\ LinkedTo(written, Len(written))
      /\ \A i \in 1..Len(written) : written[i].ev = 1
  BY DEF WrittenInv
<1>1. CASE LogRow
  <2>1. PICK x, n : x = NextRow(1) /\ n = Len(written)
    OBVIOUS
  <2>2. /\ x \in Line /\ x.kind = "row" /\ x.seq = n /\ x.hash = HashEvent(x.prev, x.seq, x.ev) /\ x.ev = 1
        /\ x.prev = (IF n = 0 THEN NoDigest ELSE written[n].hash)
    BY <2>1, NextRowIs
  <2>3. written' = Append(written, x) /\ n \in Nat
    BY <1>0, <1>1, <2>1 DEF LogRow
  <2>4. written' \in Seq(Line) /\ Len(written') = n + 1 /\ written'[n + 1] = x
        /\ \A i \in 1..n : written'[i] = written[i]
    BY <1>0, <2>1, <2>2, <2>3
  <2>5. \A i \in 1..(n + 1) : i \in 1..n \/ i = n + 1
    BY <2>3
  <2>6. \A i \in 1..(n + 1) : written'[i].ev = 1
    BY <1>0, <2>1, <2>2, <2>4, <2>5
  <2>7. ASSUME NEW i \in 1..(n + 1)
        PROVE  /\ written'[i].kind = "row" /\ written'[i].seq = i - 1
               /\ written'[i].prev = IF i = 1 THEN NoDigest ELSE written'[i-1].hash
               /\ written'[i].hash = HashEvent(written'[i].prev, written'[i].seq, written'[i].ev)
    <3>1. CASE i \in 1..n
      <4>1. i = 1 \/ i - 1 \in 1..n
        BY <2>3, <3>1
      <4>2. written'[i] = written[i] /\ (i # 1 => written'[i-1] = written[i-1])
        BY <2>4, <3>1, <4>1
      <4> QED
        BY <1>0, <2>1, <3>1, <4>2 DEF LinkedTo
    <3>2. CASE i = n + 1
      <4>1. i - 1 = n /\ (i = 1 <=> n = 0) /\ (n # 0 => n \in 1..n)
        BY <2>3, <3>2
      <4>2. n # 0 => written'[n] = written[n]
        BY <2>4, <4>1
      <4> QED
        BY <2>2, <2>4, <3>2, <4>1, <4>2
    <3> QED
      BY <2>5, <3>1, <3>2
  <2>8. LinkedTo(written', n + 1)
    BY <2>7 DEF LinkedTo
  <2>9. n <= n + 1
    BY <2>3
  <2> QED
    BY <2>1, <2>4, <2>6, <2>8, <2>9 DEF WrittenInv
<1>2. CASE written' = written
  BY <1>0, <1>2 DEF WrittenInv
<1> QED
  BY <1>1, <1>2 DEF Next, vars, Checkpoint, Rotate, RotateFails, Purge, Damage

\* A manifest pins a row that was written.
LEMMA ManifestKept ==
    ASSUME DirectoryInv, [Next]_vars
    PROVE  ManifestInv'
<1>0. WrittenInv /\ ManifestInv /\ written \in Seq(Line) /\ Len(written) \in Nat
  BY DEF DirectoryInv, WrittenInv
<1>1. CASE Checkpoint
  <2> DEFINE new == [start |-> Cardinality({i \in 1..Len(written) : \E m \in manifests : i - 1 <= m.end}),
                     end |-> Len(written) - 1, head |-> TailDigest(written)]
  <2>1. manifests' = manifests \cup {new} /\ written' = written /\ written # <<>>
    BY <1>1 DEF Checkpoint
  <2>2. new.end = Len(written) - 1 /\ new.head = written[Len(written)].hash
    BY <2>1 DEF TailDigest
  <2>3. Len(written) - 1 \in 0..Len(written) - 1 /\ Len(written) - 1 + 1 = Len(written)
    BY <1>0, <2>1
  <2> HIDE DEF new
  <2> QED
    BY <1>0, <2>1, <2>2, <2>3 DEF ManifestInv
<1>2. CASE manifests' = manifests
  <2>1. /\ written' \in Seq(Line) /\ Len(written) <= Len(written')
        /\ \A i \in 1..Len(written) : written'[i] = written[i]
    BY <1>0, WrittenGrows DEF WrittenInv
  <2>2. ASSUME NEW m \in manifests
        PROVE  m.end \in 0..Len(written') - 1 /\ m.head = written'[m.end + 1].hash
    <3>1. m.end \in 0..Len(written) - 1 /\ m.head = written[m.end + 1].hash
      BY <1>0 DEF ManifestInv
    <3>2. m.end + 1 \in 1..Len(written) /\ m.end \in 0..Len(written') - 1
      BY <1>0, <2>1, <3>1
    <3> QED
      BY <2>1, <3>1, <3>2
  <2> QED
    BY <1>2, <2>2 DEF ManifestInv
<1> QED
  BY <1>1, <1>2 DEF Next, vars, LogRow, Rotate, RotateFails, Purge, Damage

\* The program itself puts nothing but the row it writes into the files.
LEMMA FilesMove ==
    ASSUME NEW T, NEW U, T \subseteq U, archives \in Seq(Seq(T)), active \in Seq(T),
           LogRow => NextRow(1) \in U,
           LogRow \/ Checkpoint \/ Rotate \/ RotateFails \/ Purge \/ UNCHANGED vars
    PROVE  archives' \in Seq(Seq(U)) /\ active' \in Seq(U)
<1>1. archives \in Seq(Seq(U)) /\ active \in Seq(U)
  <2>1. Seq(T) \subseteq Seq(U)
    BY SeqMonotonic
  <2>2. archives \in Seq(Seq(U))
    BY <2>1, SeqMonotonic
  <2> QED
    BY <2>1, <2>2
<1>2. <<>> \in Seq(U)
  BY EmptySeq
<1>3. CASE LogRow
  <2>1. PICK x : x = NextRow(1)
    OBVIOUS
  <2>2. x \in U /\ active' = Append(active, x) /\ archives' = archives
    BY <1>3, <2>1 DEF LogRow
  <2> QED
    BY <1>1, <2>2
<1>4. CASE Checkpoint \/ UNCHANGED vars
  BY <1>1, <1>4 DEF Checkpoint, vars
<1>5. CASE Rotate
  <2>1. archives' = Append(archives, active) /\ active' = <<>>
    BY <1>5 DEF Rotate
  <2> QED
    BY <1>1, <1>2, <2>1
<1>6. CASE RotateFails
  BY <1>1, <1>2, <1>6 DEF RotateFails
<1>7. CASE Purge
  <2>1. PICK n \in 1..Len(archives) :
          archives' = SubSeq(archives, n + 1, Len(archives)) /\ active' = active
    BY <1>7 DEF Purge
  <2> QED
    BY <1>1, <2>1
<1> QED
  BY <1>3, <1>4, <1>5, <1>6, <1>7

\* The files hold rows that were written, and what damage makes of them.
LEMMA FilesKept ==
    ASSUME DirectoryInv, [Next]_vars
    PROVE  FilesInv'
<1>0. /\ WrittenInv /\ FilesInv /\ damage \in Seq(DamageKinds)
      /\ written \in Seq(Line) /\ Len(written) \in Nat
  <2>1. WrittenInv /\ FilesInv /\ TypeOK
    BY DEF DirectoryInv
  <2>2. written \in Seq(Line)
    BY <2>1 DEF WrittenInv
  <2>3. Len(written) \in Nat
    BY <2>2
  <2>4. damage \in Seq(DamageKinds)
    BY <2>1 DEF TypeOK
  <2> QED
    BY <2>1, <2>2, <2>3, <2>4
<1>1. /\ Undisturbed \subseteq Undisturbed' /\ Own \subseteq Own'
  <2>1. \A i \in 1..Len(written) : i \in 1..Len(written') /\ written'[i] = written[i]
    <3>1. /\ written' \in Seq(Line) /\ Len(written) <= Len(written')
          /\ \A i \in 1..Len(written) : written'[i] = written[i]
      BY <1>0, WrittenGrows DEF WrittenInv
    <3>2. Len(written') \in Nat
      BY <3>1
    <3> QED
      BY <1>0, <3>1, <3>2
  <2>2. Undisturbed \subseteq Undisturbed'
    BY <2>1 DEF Undisturbed
  <2>3. Reworded \subseteq Reworded'
    BY <2>1 DEF Reworded
  <2> QED
    BY <2>2, <2>3 DEF Own
<1>2. LogRow => NextRow(1) \in Undisturbed'
  <2> SUFFICES ASSUME LogRow PROVE NextRow(1) \in Undisturbed'
    OBVIOUS
  <2>1. PICK x : x = NextRow(1)
    OBVIOUS
  <2>2. written' = Append(written, x)
    BY <2>1 DEF LogRow
  <2>3. Len(written') = Len(written) + 1 /\ written'[Len(written) + 1] = x
    BY <1>0, <2>2
  <2>4. Len(written) + 1 \in 1..Len(written')
    BY <1>0, <2>3
  <2> QED
    BY <2>1, <2>3, <2>4 DEF Undisturbed
<1>3. Undisturbed' \subseteq Own'
  BY DEF Own
<1>4. CASE LogRow \/ Checkpoint \/ Rotate \/ RotateFails \/ Purge \/ UNCHANGED vars
  <2>1. damage' = damage
    BY <1>4 DEF LogRow, Checkpoint, Rotate, RotateFails, Purge, vars
  <2>2. PICK U, V, A, B : U = Undisturbed' /\ V = Own' /\ A = Undisturbed /\ B = Own
    OBVIOUS
  <2>3. ASSUME damage = <<>> PROVE archives' \in Seq(Seq(U)) /\ active' \in Seq(U)
    <3>1. archives \in Seq(Seq(A)) /\ active \in Seq(A) /\ A \subseteq U /\ (LogRow => NextRow(1) \in U)
      BY <1>0, <1>1, <1>2, <2>2, <2>3 DEF FilesInv
    <3> QED
      BY <1>4, <3>1, FilesMove
  <2>4. ASSUME "diverge" \notin ToSet(damage) PROVE archives' \in Seq(Seq(V)) /\ active' \in Seq(V)
    <3>1. archives \in Seq(Seq(B)) /\ active \in Seq(B) /\ B \subseteq V /\ (LogRow => NextRow(1) \in V)
      BY <1>0, <1>1, <1>2, <1>3, <2>2, <2>4 DEF FilesInv
    <3> QED
      BY <1>4, <3>1, FilesMove
  <2> QED
    BY <2>1, <2>2, <2>3, <2>4 DEF FilesInv
<1>5. CASE Damage
  <2>1. PICK kind \in DamageKinds : damage' = Append(damage, kind)
    BY <1>5 DEF Damage
  <2>2. damage' # <<>>
    BY <1>0, <2>1
  <2>3. "diverge" \notin ToSet(damage') => "diverge" \notin ToSet(damage)
    <3>1. \A i \in DOMAIN damage : i \in DOMAIN damage' /\ damage'[i] = damage[i]
      BY <1>0, <2>1
    <3> QED
      BY <3>1 DEF ToSet
  <2>4. PICK B : B = Own
    OBVIOUS
  <2>5. Own' = Own
    BY <1>5 DEF Damage, Own, Undisturbed, Reworded
  <2>6. ASSUME "diverge" \notin ToSet(damage') PROVE archives' \in Seq(Seq(B)) /\ active' \in Seq(B)
    <3>1. archives \in Seq(Seq(B)) /\ active \in Seq(B)
      BY <1>0, <2>3, <2>4, <2>6 DEF FilesInv
    <3>2. /\ B \subseteq Line /\ BareRow(1) \in B /\ Garbled(1) \in B
          /\ \A line \in B : [line EXCEPT !.ev = 2] \in B
      BY <1>0, <2>4, OwnClosed
    <3> QED
      BY <1>0, <1>5, <2>6, <3>1, <3>2, DamageKeeps
  <2> QED
    BY <2>2, <2>4, <2>5, <2>6 DEF FilesInv
<1> QED
  BY <1>4, <1>5 DEF Next

\* While nothing is disturbed, the directory is the end of what was written.
LEMMA EndKept ==
    ASSUME DirectoryInv, [Next]_vars
    PROVE  EndInv'
<1> SUFFICES ASSUME damage' = <<>>, ~stranded'
             PROVE  \E off \in 0..Len(written') :
                        DirLines' = SubSeq(written', off + 1, Len(written')) /\ (~purged' => off = 0)
  BY DEF EndInv
<1>0. /\ WrittenInv /\ EndInv /\ damage \in Seq(DamageKinds) /\ stranded \in BOOLEAN
      /\ written \in Seq(Line) /\ Len(written) \in Nat
      /\ archives \in Seq(Seq(Line)) /\ active \in Seq(Line)
  BY DEF DirectoryInv, WrittenInv, TypeOK
<1>1. ~Damage /\ ~RotateFails
  <2>1. ASSUME Damage PROVE FALSE
    <3>1. PICK kind \in DamageKinds : damage' = Append(damage, kind)
      BY <2>1 DEF Damage
    <3>2. damage \in Seq(DamageKinds)
      BY <1>0
    <3> QED
      BY <3>1, <3>2, AppendProperties
  <2>2. RotateFails => stranded'
    BY DEF RotateFails
  <2> QED
    BY <2>1, <2>2
<1>2. damage' = damage /\ stranded' = stranded
  BY <1>1 DEF Next, vars, LogRow, Checkpoint, Rotate, Purge
<1>3. PICK off \in 0..Len(written) :
          DirLines = SubSeq(written, off + 1, Len(written)) /\ (~purged => off = 0)
  BY <1>0, <1>2 DEF EndInv
<1>4. PICK flat : flat = FlattenSeq(archives)
  OBVIOUS
<1>5. flat \in Seq(Line) /\ DirLines = flat \o active
  BY <1>0, <1>4, FlattenTyped DEF DirLines
<1>6. CASE LogRow
  <2>1. PICK x : x = NextRow(1)
    OBVIOUS
  <2>2. x \in Line
    BY <1>0, <2>1, NextRowIs
  <2>3. active' = Append(active, x) /\ written' = Append(written, x) /\ archives' = archives /\ purged' = purged
    BY <1>6, <2>1 DEF LogRow
  <2>4. DirLines' = flat \o Append(active, x)
    BY <1>4, <2>3 DEF DirLines
  <2>5. flat \o Append(active, x) = Append(flat \o active, x)
    <3>1. \A b, c, d \in Seq(Line) : (b \o c) \o d = b \o (c \o d)
      BY ConcatAssociative, SMTT(30)
    <3>2. Append(active, x) = active \o <<x>> /\ <<x>> \in Seq(Line)
      BY <1>0, <2>2, AppendIsConcat
    <3>3. flat \o active \in Seq(Line)
      BY <1>0, <1>5
    <3>4. Append(flat \o active, x) = (flat \o active) \o <<x>>
      BY <2>2, <3>3, AppendIsConcat
    <3> QED
      BY <1>0, <1>5, <3>1, <3>2, <3>4
  <2>6. SubSeq(Append(written, x), off + 1, Len(written) + 1) = Append(SubSeq(written, off + 1, Len(written)), x)
    BY <1>0, <1>3, <2>2, AppendToEnd
  <2>7. Len(written') = Len(written) + 1
    BY <1>0, <2>3
  <2>8. off \in 0..Len(written')
    BY <1>0, <2>7
  <2>9. DirLines' = SubSeq(written', off + 1, Len(written'))
    BY <1>3, <1>5, <2>3, <2>4, <2>5, <2>6, <2>7
  <2> QED
    BY <1>3, <2>3, <2>8, <2>9
<1>7. CASE Checkpoint \/ UNCHANGED vars
  <2>1. UNCHANGED <<archives, active, written, purged>>
    BY <1>7 DEF Checkpoint, vars
  <2>2. DirLines' = DirLines
    BY <2>1 DEF DirLines
  <2> QED
    BY <1>3, <2>1, <2>2
<1>8. CASE Rotate
  <2>1. archives' = Append(archives, active) /\ active' = <<>> /\ UNCHANGED <<written, purged>>
    BY <1>8 DEF Rotate
  <2>2. DirLines' = FlattenSeq(Append(archives, active)) \o <<>>
    BY <2>1 DEF DirLines
  <2>3. FlattenSeq(Append(archives, active)) = flat \o active
    BY <1>0, <1>4, FlattenAppend
  <2>4. (flat \o active) \o <<>> = flat \o active
    <3>1. flat \o active \in Seq(Line)
      BY <1>0, <1>5
    <3> QED
      BY <3>1, ConcatEmptySeq
  <2> QED
    BY <1>3, <1>5, <2>1, <2>2, <2>3, <2>4
<1>9. CASE Purge
  <2>1. PICK n \in 1..Len(archives) :
          /\ archives' = SubSeq(archives, n + 1, Len(archives)) /\ purged' = TRUE
          /\ UNCHANGED <<active, written>>
    BY <1>9 DEF Purge
  <2>2. n \in 0..Len(archives)
    BY <1>0
  <2>3. PICK pre, post : pre = FlattenSeq(SubSeq(archives, 1, n))
                       /\ post = FlattenSeq(SubSeq(archives, n + 1, Len(archives)))
    OBVIOUS
  <2>4. flat = pre \o post
    BY <1>0, <1>4, <2>2, <2>3, FlattenSplit
  <2>5. pre \in Seq(Line) /\ post \in Seq(Line)
    <3>1. SubSeq(archives, 1, n) \in Seq(Seq(Line)) /\ SubSeq(archives, n + 1, Len(archives)) \in Seq(Seq(Line))
      BY <1>0, <2>2
    <3> QED
      BY <2>3, <3>1, FlattenTyped
  <2>6. DirLines' = post \o active
    BY <2>1, <2>3 DEF DirLines
  <2>7. (pre \o post) \o active = pre \o (post \o active)
    <3>1. \A b, c, d \in Seq(Line) : (b \o c) \o d = b \o (c \o d)
      BY ConcatAssociative, SMTT(30)
    <3> QED
      BY <1>0, <2>5, <3>1
  <2>8. PICK rest : rest = post \o active
    OBVIOUS
  <2>9. rest \in Seq(Line)
    BY <1>0, <2>5, <2>8
  <2>10. SubSeq(written, off + 1, Len(written)) = pre \o rest
    BY <1>3, <1>5, <2>4, <2>7, <2>8
  <2>11. off + Len(pre) \in 0..Len(written) /\ rest = SubSeq(written, off + Len(pre) + 1, Len(written))
    <3>1. \A s, a, b \in Seq(Line) : \A k \in 0..Len(s) :
             SubSeq(s, k + 1, Len(s)) = a \o b =>
                 k + Len(a) \in 0..Len(s) /\ b = SubSeq(s, k + Len(a) + 1, Len(s))
      BY EndOfEnd
    <3> QED
      BY <1>0, <1>3, <2>5, <2>9, <2>10, <3>1
  <2> QED
    BY <2>1, <2>6, <2>8, <2>11
<1> QED
  BY <1>1, <1>6, <1>7, <1>8, <1>9 DEF Next

\* An empty directory satisfies the invariant.
LEMMA DirectoryStarts ==
    ASSUME Init
    PROVE  DirectoryInv
<1>1. /\ archives = <<>> /\ active = <<>> /\ rotating = <<>> /\ manifests = {} /\ written = <<>>
      /\ purged = FALSE /\ stranded = FALSE /\ damage = <<>>
  BY DEF Init
<1>2. /\ <<>> \in Seq(Line) /\ <<>> \in Seq(Seq(Line)) /\ <<>> \in Seq(DamageKinds)
      /\ \A S : <<>> \in Seq(S)
  BY EmptySeq
<1>3. Len(<<>>) = 0 /\ \A i \in 1..0 : FALSE
  OBVIOUS
<1>4. TypeOK
  <2>1. Len(archives) <= MaxFiles /\ Len(damage) <= MaxDamage
    <3>1. Len(archives) = 0 /\ Len(damage) = 0
      BY <1>1, <1>3
    <3>2. MaxFiles \in Nat /\ MaxDamage \in Nat
      BY DirectoryAssumption
    <3> QED
      BY <3>1, <3>2
  <2>2. /\ archives \in Seq(Seq(Line)) /\ active \in Seq(Line) /\ rotating \in Seq(Line)
        /\ written \in Seq(Line) /\ damage \in Seq(DamageKinds) /\ manifests \subseteq Manifest
    BY <1>1, <1>2
  <2> QED
    BY <1>1, <2>1, <2>2 DEF TypeOK
<1>5. WrittenInv
  BY <1>1, <1>2, <1>3 DEF WrittenInv, LinkedTo
<1>6. ManifestInv
  BY <1>1 DEF ManifestInv
<1>7. FilesInv
  <2>1. PICK A, B : A = Undisturbed /\ B = Own
    OBVIOUS
  <2>2. archives \in Seq(Seq(A)) /\ active \in Seq(A) /\ archives \in Seq(Seq(B)) /\ active \in Seq(B)
    BY <1>1, <1>2
  <2> QED
    BY <2>1, <2>2 DEF FilesInv
<1>8. EndInv
  <2>1. DirLines = <<>> \o <<>>
    BY <1>1, FlattenNone DEF DirLines
  <2>2. <<>> \o <<>> = <<>>
    BY <1>2, ConcatEmptySeq
  <2>3. DirLines = SubSeq(written, 0 + 1, Len(written)) /\ 0 \in 0..Len(written)
    <3>1. SubSeq(<<>>, 1, 0) = <<>>
      BY EmptySeq
    <3> QED
      BY <1>1, <1>3, <2>1, <2>2, <3>1
  <2> QED
    BY <2>3 DEF EndInv
<1> QED
  BY <1>4, <1>5, <1>6, <1>7, <1>8 DEF DirectoryInv

\* Every step of the directory keeps the invariant.
LEMMA DirectoryKept ==
    ASSUME DirectoryInv, [Next]_vars
    PROVE  DirectoryInv'
<1>1. WrittenInv
  BY DEF DirectoryInv
<1>2. WrittenInv'
  BY <1>1, WrittenGrows
<1> QED
  BY <1>2, DirectoryTyped, ManifestKept, FilesKept, EndKept DEF DirectoryInv

-----------------------------------------------------------------------------
\* What the invariant says of a verification.

\* A row of the files is a line of the walk.
LEMMA InDirectory ==
    ASSUME archives \in Seq(Seq(Line)), active \in Seq(Line),
           \A p \in 1..Len(DirLines) : DirLines[p].kind = "row"
    PROVE  /\ \A i \in 1..Len(archives) : \A j \in 1..Len(archives[i]) : archives[i][j].kind = "row"
           /\ \A j \in 1..Len(active) : active[j].kind = "row"
<1>1. PICK flat, act : flat = FlattenSeq(archives) /\ act = active
  OBVIOUS
<1>2. flat \in Seq(Line) /\ act \in Seq(Line) /\ DirLines = flat \o act
  BY <1>1, FlattenTyped DEF DirLines
<1>3. /\ \A p \in 1..Len(flat) : p \in 1..Len(flat \o act) /\ (flat \o act)[p] = flat[p]
      /\ \A p \in 1..Len(act) : Len(flat) + p \in 1..Len(flat \o act) /\ (flat \o act)[Len(flat) + p] = act[p]
  BY <1>2, JoinHas
<1>4. ASSUME NEW i \in 1..Len(archives), NEW j \in 1..Len(archives[i])
      PROVE  archives[i][j].kind = "row"
  <2>1. \E p \in 1..Len(flat) : flat[p] = archives[i][j]
    BY <1>1, FlattenHas
  <2> QED
    BY <1>2, <1>3, <2>1
<1>5. ASSUME NEW j \in 1..Len(act) PROVE act[j].kind = "row"
  <2>1. Len(flat) + j \in 1..Len(flat \o act) /\ (flat \o act)[Len(flat) + j] = act[j]
    BY <1>3
  <2>2. PICK k : k = Len(flat) + j
    OBVIOUS
  <2>3. k \in 1..Len(DirLines) /\ DirLines[k] = act[j]
    BY <1>2, <2>1, <2>2
  <2> QED
    BY <2>3
<1> QED
  BY <1>1, <1>4, <1>5

\* Files of rows alone have their integrity.
LEMMA RowsIntegrity ==
    ASSUME archives \in Seq(Seq(Line)), active \in Seq(Line),
           \A i \in 1..Len(archives) : \A j \in 1..Len(archives[i]) : archives[i][j].kind = "row",
           \A j \in 1..Len(active) : active[j].kind = "row"
    PROVE  VerifyIntegrity
<1>1. ASSUME NEW a \in ToSet(archives), NEW line \in ToSet(a) PROVE line.kind \notin {"torn", "garbled"}
  <2>1. PICK i \in DOMAIN archives : a = archives[i]
    BY <1>1 DEF ToSet
  <2>2. i \in 1..Len(archives) /\ a \in Seq(Line)
    BY <2>1
  <2>3. PICK j \in DOMAIN a : line = a[j]
    BY <1>1 DEF ToSet
  <2>4. j \in 1..Len(a)
    BY <2>2, <2>3
  <2> QED
    BY <2>1, <2>2, <2>3, <2>4
<1>2. ASSUME NEW line \in ToSet(active) PROVE line.kind # "garbled"
  <2>1. PICK j \in DOMAIN active : line = active[j]
    BY <1>2 DEF ToSet
  <2> QED
    BY <2>1
<1> QED
  BY <1>1, <1>2 DEF VerifyIntegrity

\* The lines of the directory, typed; and what they are unless it diverged.
LEMMA DirectoryLines ==
    ASSUME DirectoryInv
    PROVE  /\ DirLines \in Seq(Line) /\ Len(DirLines) \in Nat
           /\ "diverge" \notin ToSet(damage) => DirLines \in Seq(Own)
<1>1. TypeOK /\ FilesInv
  BY DEF DirectoryInv
<1>2. archives \in Seq(Seq(Line)) /\ active \in Seq(Line)
  BY <1>1 DEF TypeOK
<1>3. ASSUME NEW T, archives \in Seq(Seq(T)), active \in Seq(T) PROVE DirLines \in Seq(T)
  <2>1. FlattenSeq(archives) \in Seq(T)
    BY <1>3, FlattenTyped
  <2>2. PICK flat : flat = FlattenSeq(archives)
    OBVIOUS
  <2> QED
    BY <1>3, <2>1, <2>2 DEF DirLines
<1>4. DirLines \in Seq(Line)
  BY <1>2, <1>3
<1>5. ASSUME "diverge" \notin ToSet(damage) PROVE DirLines \in Seq(Own)
  <2>1. PICK B : B = Own
    OBVIOUS
  <2>2. archives \in Seq(Seq(B)) /\ active \in Seq(B)
    BY <1>1, <1>5, <2>1 DEF FilesInv
  <2> QED
    BY <1>3, <2>1, <2>2
<1>6. Len(DirLines) \in Nat
  BY <1>4
<1> QED
  BY <1>4, <1>5, <1>6

\* A directory nothing happened to is one chain, or the end of one.
LEMMA AlarmsAreTrue ==
    ASSUME DirectoryInv
    PROVE  NoFalseAlarm
<1> DEFINE n == Len(written)
<1>0. /\ TypeOK /\ WrittenInv /\ ManifestInv /\ FilesInv /\ EndInv
  BY DEF DirectoryInv
<1>1. /\ written \in Seq(Line) /\ n \in Nat /\ LinkedTo(written, n)
      /\ archives \in Seq(Seq(Line)) /\ active \in Seq(Line)
  BY <1>0 DEF WrittenInv, TypeOK
<1>2. ASSUME damage = <<>>, ~purged, ~stranded PROVE FullOK(DirLines, manifests)
  <2>1. DirLines = written
    <3>1. PICK off \in 0..n : DirLines = SubSeq(written, off + 1, n) /\ off = 0
      BY <1>0, <1>2 DEF EndInv
    <3>2. SubSeq(written, 1, n) = written
      BY <1>1
    <3> QED
      BY <3>1, <3>2
  <2>2. /\ Verify(written).found = {} /\ Verify(written).headSeq = n - 1
        /\ n # 0 => Verify(written).headHash = written[n].hash
    BY <1>1, VerifySays
  <2>3. ASSUME NEW m \in manifests PROVE ManifestOK(m, Verify(written))
    <3>1. m.end \in 0..n - 1 /\ m.head = written[m.end + 1].hash
      BY <1>0 DEF ManifestInv
    <3>2. m.end <= n - 1 /\ n # 0 /\ (m.end = n - 1 => m.end + 1 = n)
      BY <1>1, <3>1
    <3> QED
      BY <2>2, <3>1, <3>2 DEF ManifestOK
  <2> QED
    BY <2>1, <2>2, <2>3 DEF FullOK, ChainOK
<1>3. ASSUME damage = <<>>, ~stranded
      PROVE  \A f \in DirResult.found : f[1] = 1 /\ f[2] # "hash mismatch"
  <2>1. PICK off \in 0..n : DirLines = SubSeq(written, off + 1, n)
    BY <1>0, <1>3 DEF EndInv
  <2>2. PICK ls : ls = SubSeq(written, off + 1, n)
    OBVIOUS
  <2>3. Len(ls) = n - off /\ \A i \in 1..(n - off) : ls[i] = written[off + i]
    BY <1>1, <2>2
  <2> HIDE DEF n
  <2>4. /\ Len(ls) \in Nat /\ \A i \in 1..Len(ls) : off + i \in 1..n
        /\ \A i \in 2..Len(ls) : i \in 1..Len(ls) /\ i - 1 \in 1..Len(ls) /\ off + i # 1 /\ off + (i - 1) = (off + i) - 1
    <3>1. PICK k : k = Len(ls)
      OBVIOUS
    <3>2. k = n - off /\ k \in Nat /\ off \in Nat
      BY <1>1, <2>3, <3>1
    <3>3. \A i \in 1..k : off + i \in 1..n
      BY <1>1, <3>2
    <3>4. \A i \in 2..k : i \in 1..k /\ i - 1 \in 1..k /\ off + i # 1 /\ off + (i - 1) = (off + i) - 1
      BY <3>2
    <3> QED
      BY <3>1, <3>2, <3>3, <3>4
  <2>5. ASSUME NEW i \in 1..Len(ls) PROVE Consistent(ls[i])
    <3>1. PICK k : k = off + i
      OBVIOUS
    <3>2. k \in 1..n /\ ls[i] = written[k]
      BY <2>3, <2>4, <3>1
    <3> QED
      BY <1>1, <3>2 DEF LinkedTo, Consistent
  <2>6. ASSUME NEW i \in 2..Len(ls) PROVE ls[i].prev = ls[i-1].hash /\ ls[i].seq = ls[i-1].seq + 1
    <3>1. PICK k : k = off + i
      OBVIOUS
    <3>2. /\ k \in 1..n /\ k # 1 /\ k - 1 \in 1..n /\ k - 1 = (k - 1 - 1) + 1
          /\ ls[i] = written[k] /\ ls[i-1] = written[k - 1]
      BY <1>1, <2>3, <2>4, <3>1
    <3>3. written[k].prev = written[k-1].hash
      BY <1>1, <3>2 DEF LinkedTo
    <3>4. written[k].seq = k - 1 /\ written[k-1].seq = k - 1 - 1
      BY <1>1, <3>2 DEF LinkedTo
    <3> QED
      BY <3>2, <3>3, <3>4
  <2> QED
    BY <2>1, <2>2, <2>4, <2>5, <2>6, EndsVerify DEF DirResult
<1>4. ASSUME damage = <<>> \/ ChainOK(DirResult) PROVE VerifyIntegrity
  <2>1. CASE damage = <<>>
    <3>1. PICK A : A = Undisturbed
      OBVIOUS
    <3>2. archives \in Seq(Seq(A)) /\ active \in Seq(A)
      BY <1>0, <2>1, <3>1 DEF FilesInv
    <3>3. \A line \in A : line.kind = "row"
      BY <1>1, <3>1 DEF Undisturbed, LinkedTo
    <3>4. \A i \in 1..Len(archives) : archives[i] \in Seq(A)
      BY <3>2
    <3>5. \A i \in 1..Len(archives) : \A j \in 1..Len(archives[i]) : archives[i][j] \in A
      BY <3>4
    <3>6. \A j \in 1..Len(active) : active[j] \in A
      BY <3>2
    <3> QED
      BY <1>1, <3>3, <3>5, <3>6, RowsIntegrity
  <2>2. CASE ChainOK(DirResult)
    <3>1. PICK ls : ls = DirLines
      OBVIOUS
    <3>2. Len(ls) \in Nat /\ Verify(ls).found = {}
      BY <2>2, <3>1, DirectoryLines DEF ChainOK, DirResult
    <3>3. LinkedTo(ls, Len(ls))
      BY <3>2, VerifySays
    <3>4. \A p \in 1..Len(DirLines) : DirLines[p].kind = "row"
      BY <3>1, <3>3 DEF LinkedTo
    <3> QED
      BY <1>1, <3>4, InDirectory, RowsIntegrity
  <2> QED
    BY <1>4, <2>1, <2>2
<1> QED
  BY <1>2, <1>3, <1>4 DEF NoFalseAlarm

\* Lines with the same fields are the same line.
LEMMA SameFields ==
    ASSUME NEW a \in Line, NEW b \in Line,
           a.kind = b.kind, a.seq = b.seq, a.prev = b.prev, a.hash = b.hash, a.ev = b.ev
    PROVE  a = b
<1>1. \A line \in Line :
         line = [kind |-> line.kind, seq |-> line.seq, prev |-> line.prev, hash |-> line.hash, ev |-> line.ev]
  BY DEF Line
<1>2. a = [kind |-> a.kind, seq |-> a.seq, prev |-> a.prev, hash |-> a.hash, ev |-> a.ev]
  BY <1>1
<1>3. b = [kind |-> b.kind, seq |-> b.seq, prev |-> b.prev, hash |-> b.hash, ev |-> b.ev]
  BY <1>1
<1> QED
  BY <1>2, <1>3

\* Chains whose heads have the same digest are the same chain.
LEMMA SameHeads ==
    ASSUME NEW s \in Seq(Line), NEW t \in Seq(Line), NEW n \in Nat, n # 0, n <= Len(s), n <= Len(t),
           LinkedTo(s, n), LinkedTo(t, n), s[n].hash = t[n].hash
    PROVE  \A i \in 1..n : s[i] = t[i]
<1> DEFINE top == n - 1
           T == {k \in 0..top : s[n - k].hash = t[n - k].hash}
<1>0. top \in Nat /\ \A i \in 1..n : s[i] \in Line /\ t[i] \in Line
  OBVIOUS
<1>1. 0 \in T
  BY <1>0
<1>2. ASSUME NEW i \in 1..n, s[i].hash = t[i].hash
      PROVE  s[i].prev = t[i].prev /\ s[i].ev = t[i].ev
  <2>1. /\ s[i].hash = Append(s[i].prev, <<s[i].seq, s[i].ev>>)
        /\ t[i].hash = Append(t[i].prev, <<t[i].seq, t[i].ev>>)
    BY DEF LinkedTo, HashEvent
  <2>2. /\ s[i].prev \in Seq(Nat \X Event) /\ t[i].prev \in Seq(Nat \X Event)
        /\ s[i].seq \in Nat /\ s[i].ev \in Event /\ t[i].seq \in Nat /\ t[i].ev \in Event
    BY <1>0 DEF Line, Digest
  <2>3. PICK p, q, x, y : /\ p = s[i].prev /\ q = t[i].prev
                          /\ x = <<s[i].seq, s[i].ev>> /\ y = <<t[i].seq, t[i].ev>>
    OBVIOUS
  <2>4. x \in Nat \X Event /\ y \in Nat \X Event
    BY <2>2, <2>3
  <2>5. Append(p, x) = Append(q, y)
    BY <1>2, <2>1, <2>3
  <2>6. p = q /\ x = y
    <3>1. PICK D : D = Nat \X Event
      OBVIOUS
    <3>2. p \in Seq(D) /\ q \in Seq(D) /\ x \in D /\ y \in D
      BY <2>2, <2>3, <2>4, <3>1
    <3>3. \A u, v \in Seq(D) : \A e, f \in D : Append(u, e) = Append(v, f) => u = v /\ e = f
      BY AppendInjective
    <3> QED
      BY <2>5, <3>2, <3>3
  <2> QED
    BY <2>3, <2>6
<1>3. ASSUME NEW k \in 1..top, k - 1 \in T PROVE k \in T
  <2>1. PICK i : i = n - (k - 1)
    OBVIOUS
  <2>2. i \in 1..n /\ i # 1 /\ n - k = i - 1 /\ k \in 0..top
    BY <1>0, <2>1
  <2>3. s[i].hash = t[i].hash
    BY <1>3, <2>1
  <2>4. s[i].prev = t[i].prev
    BY <1>2, <2>2, <2>3
  <2>5. s[i].prev = s[i-1].hash /\ t[i].prev = t[i-1].hash
    BY <2>2 DEF LinkedTo
  <2> QED
    BY <2>2, <2>4, <2>5
<1>4. T = 0..top
  <2>1. T \in SUBSET (0..top)
    OBVIOUS
  <2> HIDE DEF T, top
  <2> QED
    BY <1>0, <1>1, <1>3, <2>1, UpToTheBound
<1>5. ASSUME NEW i \in 1..n PROVE s[i] = t[i]
  <2>1. n - i \in 0..top /\ n - (n - i) = i
    BY <1>0
  <2>2. s[i].hash = t[i].hash
    BY <1>4, <2>1
  <2>3. s[i].prev = t[i].prev /\ s[i].ev = t[i].ev
    BY <1>2, <2>2
  <2>4. s[i].kind = t[i].kind /\ s[i].seq = t[i].seq
    BY DEF LinkedTo
  <2>5. PICK a, b : a = s[i] /\ b = t[i]
    OBVIOUS
  <2>6. a \in Line /\ b \in Line
    BY <1>0, <2>5
  <2>7. /\ a.hash = b.hash /\ a.prev = b.prev /\ a.ev = b.ev /\ a.kind = b.kind /\ a.seq = b.seq
    BY <2>2, <2>3, <2>4, <2>5
  <2>8. a = b
    BY <2>6, <2>7, SameFields
  <2> QED
    BY <2>5, <2>8
<1> QED
  BY <1>5

\* A sequence that agrees with another as far as it goes is a prefix of it.
LEMMA PrefixBy ==
    ASSUME NEW S, NEW s \in Seq(S), NEW t \in Seq(S), Len(s) <= Len(t),
           \A i \in 1..Len(s) : s[i] = t[i]
    PROVE  IsPrefix(s, t)
<1>1. SubSeq(s, 1, Len(s)) = SubSeq(t, 1, Len(s))
  OBVIOUS
<1> QED
  BY <1>1 DEF IsPrefix

\* The rows a clean verification has walked over.
LEMMA CleanLines ==
    ASSUME DirectoryInv, ChainOK(DirResult)
    PROVE  LinkedTo(DirLines, Len(DirLines))
<1>1. PICK ls : ls = DirLines
  OBVIOUS
<1>2. Len(ls) \in Nat /\ Verify(ls).found = {}
  BY <1>1, DirectoryLines DEF ChainOK, DirResult
<1>3. LinkedTo(ls, Len(ls))
  BY <1>2, VerifySays
<1> QED
  BY <1>1, <1>3

\* A consistent row of the files was written, and its seq says where.
LEMMA CleanPrefix ==
    ASSUME DirectoryInv
    PROVE  CleanIsPrefix
<1> SUFFICES ASSUME ChainOK(DirResult), "diverge" \notin ToSet(damage)
             PROVE  IsPrefix(DirLines, written)
  BY DEF CleanIsPrefix
<1>0. WrittenInv
  BY DEF DirectoryInv
<1>1. written \in Seq(Line) /\ Len(written) \in Nat /\ LinkedTo(written, Len(written))
  BY <1>0 DEF WrittenInv
<1>2. PICK ls : ls = DirLines
  OBVIOUS
<1>3. ls \in Seq(Own) /\ ls \in Seq(Line) /\ Len(ls) \in Nat
  BY <1>2, DirectoryLines
<1>4. LinkedTo(ls, Len(ls))
  BY <1>2, CleanLines
<1>5. ASSUME NEW i \in 1..Len(ls) PROVE i \in 1..Len(written) /\ ls[i] = written[i]
  <2>1. ls[i] \in Own
    BY <1>3
  <2>2. Consistent(ls[i]) /\ ls[i].seq = i - 1
    BY <1>4 DEF LinkedTo, Consistent
  <2>3. PICK j \in 1..Len(written) : ls[i] = written[j]
    BY <1>0, <2>1, <2>2, ConsistentIsWritten
  <2>4. written[j].seq = j - 1
    BY <1>1 DEF LinkedTo
  <2>5. i = j
    <3>1. i - 1 = j - 1
      BY <2>2, <2>3, <2>4
    <3> QED
      BY <1>1, <1>3, <3>1
  <2> QED
    BY <2>3, <2>5
<1>6. Len(ls) <= Len(written)
  <2>1. CASE Len(ls) = 0
    BY <1>1, <2>1
  <2>2. CASE Len(ls) # 0
    <3>1. Len(ls) \in 1..Len(ls)
      BY <1>3, <2>2
    <3>2. Len(ls) \in 1..Len(written)
      BY <1>5, <3>1
    <3> QED
      BY <1>1, <3>2
  <2> QED
    BY <2>1, <2>2
<1> QED
  BY <1>1, <1>2, <1>3, <1>5, <1>6, PrefixBy

\* The head that a clean walk reached stands for every row before it.
LEMMA PinnedPresent ==
    ASSUME DirectoryInv
    PROVE  PinnedRowsPresent
<1> SUFFICES ASSUME FullOK(DirLines, manifests), DirLines # <<>>
             PROVE  /\ \A m \in manifests : Len(DirLines) > m.end
                    /\ (\E m \in manifests : m.end = DirResult.headSeq) => IsPrefix(DirLines, written)
  BY DEF PinnedRowsPresent
<1>0. WrittenInv /\ ManifestInv
  BY DEF DirectoryInv
<1>1. written \in Seq(Line) /\ Len(written) \in Nat /\ LinkedTo(written, Len(written))
  BY <1>0 DEF WrittenInv
<1>2. PICK ls, n : ls = DirLines /\ n = Len(ls)
  OBVIOUS
<1>3. ls \in Seq(Line) /\ n \in Nat
  BY <1>2, DirectoryLines
<1>4. n # 0
  BY <1>2, <1>3
<1>5. ChainOK(DirResult) /\ \A m \in manifests : ManifestOK(m, DirResult)
  BY DEF FullOK, DirResult
<1>6. LinkedTo(ls, n)
  BY <1>2, <1>5, CleanLines
<1>7. DirResult.headSeq = n - 1 /\ DirResult.headHash = ls[n].hash
  BY <1>2, <1>3, <1>4, <1>6, VerifySays DEF DirResult
<1>8. n - 1 # NoHead
  BY <1>3, <1>4 DEF NoHead
<1>9. ASSUME NEW m \in manifests
      PROVE  n > m.end /\ (m.end = n - 1 => m.head = ls[n].hash) /\ m.end \in 0..Len(written) - 1
  <2>1. m.end <= n - 1 /\ (m.end = n - 1 => m.head = ls[n].hash)
    BY <1>5, <1>7, <1>8 DEF ManifestOK
  <2>2. m.end \in 0..Len(written) - 1
    BY <1>0 DEF ManifestInv
  <2> QED
    BY <1>1, <1>3, <2>1, <2>2
<1>10. ASSUME NEW m \in manifests, m.end = DirResult.headSeq PROVE IsPrefix(ls, written)
  <2>1. m.end = n - 1 /\ m.head = ls[n].hash
    BY <1>7, <1>9, <1>10
  <2>2. m.head = written[m.end + 1].hash /\ m.end + 1 = n /\ n <= Len(written)
    <3>1. m.head = written[m.end + 1].hash
      BY <1>0 DEF ManifestInv
    <3>2. m.end + 1 = n /\ n <= Len(written)
      BY <1>1, <1>3, <1>9, <2>1
    <3> QED
      BY <3>1, <3>2
  <2>3. LinkedTo(written, n)
    <3>1. \A i \in 1..n : i \in 1..Len(written)
      BY <1>1, <1>3, <2>2
    <3> QED
      BY <1>1, <3>1 DEF LinkedTo
  <2>4. ls[n].hash = written[n].hash
    BY <2>1, <2>2
  <2>5. n <= Len(ls)
    BY <1>2, <1>3
  <2>6. \A i \in 1..n : ls[i] = written[i]
    BY <1>1, <1>3, <1>4, <1>6, <2>2, <2>3, <2>4, <2>5, SameHeads
  <2> QED
    BY <1>1, <1>2, <1>3, <2>2, <2>6, PrefixBy
<1> QED
  BY <1>2, <1>9, <1>10

\* The invariant implies the properties of the directory.
LEMMA DirectorySays ==
    ASSUME DirectoryInv
    PROVE  TypeOK /\ NoFalseAlarm /\ FirstFindingLocates /\ CleanMeansWritten
<1>1. TypeOK
  BY DEF DirectoryInv
<1>2. FirstFindingLocates
  BY DirectoryLines, FirstFinding
<1>3. CleanMeansWritten
  BY CleanPrefix, PinnedPresent DEF CleanMeansWritten
<1> QED
  BY <1>1, <1>2, <1>3, AlarmsAreTrue

-----------------------------------------------------------------------------

Rotated == Tiering!Tiers \X (1..batches)

BundleFields == {"st", "left", "listed", "live", "got"}

TiersTyped ==
    /\ policy \in Tiering!Policies /\ day \in 0..MaxDay /\ batches \in 0..MaxBatches
    /\ DOMAIN files \subseteq Rotated
    /\ \A n \in DOMAIN files : files[n] \in Tiering!File /\ files[n].at <= day
                               /\ born[n[2]] <= files[n].at
    /\ now \in 0..day /\ todo \subseteq Rotated
    /\ scrubbing \in Rotated \cup {Tiering!NoName}
    /\ born \in [Tiering!Batch -> 0..MaxDay] /\ expunged \subseteq Tiering!Batch
    /\ cut \in BOOLEAN /\ applied \in BOOLEAN

\* The copy a scrub is making: the only file that is not whole.
Half(n) == n[1] \in {"warm", "cold"} /\ n \in DOMAIN files /\ ~files[n].whole

ScrubInv ==
    /\ scrubbing # Tiering!NoName =>
          /\ scrubbing[1] = "hot" /\ policy.gdpr
          /\ \E t \in {"warm", "cold"} : Half(<<t, scrubbing[2]>>)
    /\ cut => policy.gdpr
    /\ \A n \in DOMAIN files : n[1] = "hot" => files[n].whole
    /\ policy.gdpr => \A n \in DOMAIN files : n[1] # "hot" => files[n].scrubbed

\* Unless ApplyRetention died in a scrub.
KeptInv ==
    /\ \A n \in DOMAIN files : ~files[n].whole => scrubbing # Tiering!NoName /\ n[2] = scrubbing[2]
    /\ \A m, n \in DOMAIN files :
          m[2] = n[2] /\ m # n =>
              scrubbing # Tiering!NoName /\ m[2] = scrubbing[2] /\ (m[1] = "hot" \/ n[1] = "hot")
    /\ \A b \in 1..batches :
          b \notin expunged /\ (policy.purge = -1 \/ day - born[b] < policy.purge) =>
              \E t \in Tiering!Tiers : <<t, b>> \in DOMAIN files /\ files[<<t, b>>].whole

\* How long an archive is in the log, and the tier for it.
Lies(n) == Tiering!targetTier(day - born[n[2]])

\* Without scrubs.
SortedInv ==
    /\ scrubbing = Tiering!NoName
    /\ \A n \in DOMAIN files :
          /\ files[n].at = born[n[2]]
          /\ n[1] = "warm" => Lies(n) \in {"warm", "cold"}
          /\ n[1] = "cold" => Lies(n) = "cold"
          /\ (applied \/ (todo # {} /\ now = day)) /\ n \notin todo /\ born[n[2]] < day
                => n[1] = Lies(n)

BundleInv ==
    /\ DOMAIN bundle = BundleFields
    /\ bundle.st \in {"none", "open", "done", "failed"}
    /\ bundle.st = "open" =>
          /\ Tiering!Active \in bundle.left /\ bundle.left \ {Tiering!Active} \subseteq Rotated
          /\ bundle.live \in 1..batches + 1
          /\ \A b \in bundle.listed : b \in bundle.got \/ \E n \in bundle.left \ {Tiering!Active} : n[2] = b
    /\ bundle.st = "done" =>
          /\ bundle.listed \subseteq bundle.got /\ bundle.live \in 1..batches + 1
          /\ bundle.live \in bundle.got \/ bundle.live <= batches

TiersInv ==
    /\ TiersTyped /\ ScrubInv /\ BundleInv
    /\ applied => todo = {}
    /\ ~cut => KeptInv
    /\ ~policy.gdpr => SortedInv

-----------------------------------------------------------------------------
\* The name looked at next is one of those left.
LEMMA FirstIsIn ==
    ASSUME NEW ns, ns \subseteq Tiering!ArchiveNames, ns # {}
    PROVE  Tiering!First(ns) \in ns
<1> DEFINE R == {Tiering!Rank(n) : n \in ns}
<1>1. \A n \in ns : Tiering!Rank(n) \in Nat
  <2> SUFFICES ASSUME NEW n \in ns PROVE Tiering!Rank(n) \in Nat
    OBVIOUS
  <2>1. n[2] \in Nat /\ n[1] \in Tiering!Tiers /\ MaxBatches \in Nat
    BY TieringAssumption DEF Tiering!ArchiveNames, Tiering!Batch
  <2>2. CASE n[1] = "hot"
    BY <2>1, <2>2 DEF Tiering!Rank
  <2>3. CASE n[1] = "cold"
    BY <2>1, <2>3 DEF Tiering!Rank
  <2>4. CASE n[1] = "warm"
    BY <2>1, <2>4 DEF Tiering!Rank
  <2> QED
    BY <2>1, <2>2, <2>3, <2>4 DEF Tiering!Tiers
<1>2. R \subseteq Nat /\ R # {}
  BY <1>1
<1>3. PICK r \in R : \A k \in R : r <= k
  BY <1>2, LeastNumber
<1>4. PICK n \in ns : Tiering!Rank(n) = r
  BY <1>3
<1>5. \A m \in ns : Tiering!Rank(n) <= Tiering!Rank(m)
  BY <1>3, <1>4
<1> QED
  BY <1>5 DEF Tiering!First

\* The numbers of the policy, the day and the batches.
LEMMA PolicyIs ==
    ASSUME TiersTyped
    PROVE  /\ policy.hot \in Nat /\ policy.warm \in Nat /\ policy.cold \in Nat
           /\ policy.purge \in Nat \cup {-1} /\ policy.gdpr \in BOOLEAN
           /\ day \in Nat /\ now \in Nat /\ now <= day /\ batches \in Nat /\ batches <= MaxBatches
           /\ 1..batches \subseteq Tiering!Batch
<1>1. /\ policy.hot \in PolicyDays /\ policy.warm \in PolicyDays /\ policy.cold \in PolicyDays
      /\ policy.purge \in PolicyDays \cup {-1} /\ policy.gdpr \in BOOLEAN
  BY DEF TiersTyped, Tiering!Policies
<1>2. day \in 0..MaxDay /\ batches \in 0..MaxBatches /\ now \in 0..day
  BY DEF TiersTyped
<1>3. policy.hot \in Nat /\ policy.warm \in Nat /\ policy.cold \in Nat
      /\ policy.purge \in Nat \cup {-1} /\ policy.gdpr \in BOOLEAN
  BY <1>1, TieringAssumption
<1>4. /\ day \in Nat /\ now \in Nat /\ now <= day /\ batches \in Nat /\ batches <= MaxBatches
      /\ MaxBatches \in Nat
  BY <1>2, TieringAssumption
<1>5. 1..batches \subseteq Tiering!Batch
  BY <1>4 DEF Tiering!Batch
<1> QED
  BY <1>3, <1>4, <1>5

\* What the name of an archive consists of.
LEMMA ArchiveIs ==
    ASSUME TiersTyped, NEW n \in Rotated
    PROVE  /\ n = <<n[1], n[2]>> /\ n[1] \in Tiering!Tiers /\ n[2] \in 1..batches /\ n[2] \in Tiering!Batch
           /\ born[n[2]] \in Nat /\ n \in Tiering!ArchiveNames /\ n # Tiering!NoName /\ n # Tiering!Active
  BY PolicyIs, TieringAssumption, SMTT(30) DEF TiersTyped, Rotated, Tiering!Batch, Tiering!ArchiveNames, Tiering!NoName, Tiering!Active, Tiering!Tiers

\* What is known of an archive that is there.
LEMMA FileIs ==
    ASSUME TiersTyped, NEW n \in DOMAIN files
    PROVE  /\ n \in Rotated /\ files[n].whole \in BOOLEAN /\ files[n].scrubbed \in BOOLEAN
           /\ files[n].at \in Nat /\ files[n].at <= day /\ born[n[2]] <= files[n].at
  BY TieringAssumption DEF TiersTyped, Tiering!File

\* The tier for an age, and how it goes on with the age.
LEMMA TargetIs ==
    ASSUME TiersTyped, NEW age \in Int, NEW later \in Int, age <= later
    PROVE  /\ Tiering!targetTier(age) \in Tiering!Tiers
           /\ Tiering!targetTier(age) = "cold" => Tiering!targetTier(later) = "cold"
           /\ Tiering!targetTier(age) = "warm" => Tiering!targetTier(later) \in {"warm", "cold"}
<1>1. policy.hot \in Nat /\ policy.warm \in Nat /\ policy.cold \in Nat
  BY PolicyIs
<1> QED
  BY <1>1 DEF Tiering!targetTier, Tiering!Tiers

\* targetTier is a tier, whatever the age.
LEMMA TargetIsTier == \A age : Tiering!targetTier(age) \in Tiering!Tiers
  BY DEF Tiering!targetTier, Tiering!Tiers

\* What ApplyRetention does with one name.
Passes(n, to) ==
    /\ UNCHANGED <<files, scrubbing>>
    /\ n \notin DOMAIN files \/ <<n[1], to>> \notin Tiering!Moves \/ (policy.gdpr /\ ~files[n].whole)
Expires(n) ==
    /\ n \in DOMAIN files /\ policy.purge >= 0 /\ now - files[n].at >= policy.purge
    /\ DOMAIN files' = DOMAIN files \ {n} /\ \A m \in DOMAIN files' : files'[m] = files[m]
    /\ scrubbing' = scrubbing
ScrubBegins(n, to, dst) ==
    /\ n \in DOMAIN files /\ n[1] = "hot" /\ to \in {"warm", "cold"} /\ policy.gdpr
    /\ dst = <<to, n[2]>> /\ DOMAIN files' = DOMAIN files \cup {dst}
    /\ files'[dst] = [whole |-> FALSE, scrubbed |-> TRUE, at |-> day]
    /\ \A m \in DOMAIN files \ {dst} : files'[m] = files[m]
    /\ scrubbing' = n
Moved(n, to, dst) ==
    /\ n \in DOMAIN files /\ <<n[1], to>> \in Tiering!Moves /\ (policy.gdpr => n[1] = "warm")
    /\ dst = <<to, n[2]>> /\ dst # n /\ DOMAIN files' = (DOMAIN files \ {n}) \cup {dst}
    /\ files'[dst] = files[n]
    /\ \A m \in DOMAIN files \ {n, dst} : files'[m] = files[m]
    /\ scrubbing' = scrubbing

Looked(n) ==
    /\ n \in todo /\ n \in Rotated /\ scrubbing = Tiering!NoName /\ todo' = todo \ {n}
    /\ UNCHANGED <<policy, day, batches, now, bundle, born, expunged, cut>>
    /\ \E to \in Tiering!Tiers :
          /\ n \in DOMAIN files => to = Tiering!targetTier(now - files[n].at)
          /\ \E dst \in Rotated :
                Passes(n, to) \/ Expires(n) \/ ScrubBegins(n, to, dst) \/ Moved(n, to, dst)
    /\ applied' = IF todo' = {} /\ scrubbing' = Tiering!NoName THEN now = day ELSE applied

\* A step of ApplyRetention looks at one name and does one of four things to it.
LEMMA ApplyStepLooks ==
    ASSUME TiersTyped, Tiering!ApplyStep
    PROVE  \E n : Looked(n)
<1> DEFINE n  == Tiering!First(todo)
           to == Tiering!targetTier(Tiering!Age(n, now))
           gone   == n \notin DOMAIN files
           purge  == ~gone /\ policy.purge >= 0 /\ Tiering!Age(n, now) >= policy.purge
           moves  == ~gone /\ ~purge /\ <<n[1], to>> \in Tiering!Moves
           dst    == <<to, n[2]>>
           scrubs == moves /\ Tiering!Scrubs(n[1], to) /\ files[n].whole
<1>1. todo # {} /\ scrubbing = Tiering!NoName /\ todo \subseteq Tiering!ArchiveNames
  BY ArchiveIs DEF Tiering!ApplyStep, TiersTyped
<1>2. n \in todo /\ n \in Rotated /\ n # Tiering!NoName
  BY <1>1, FirstIsIn, ArchiveIs DEF TiersTyped
<1>3. /\ scrubbing' = IF scrubs THEN n ELSE Tiering!NoName
      /\ files' = CASE purge  -> Tiering!Without(files, n)
                    [] scrubs -> Tiering!With(files, dst, [whole |-> FALSE, scrubbed |-> TRUE, at |-> day])
                    [] moves /\ ~Tiering!Scrubs(n[1], to) -> Tiering!With(Tiering!Without(files, n), dst, files[n])
                    [] OTHER  -> files
      /\ todo' = todo \ {n}
      /\ applied' = IF todo' = {} /\ ~scrubs THEN now = day ELSE applied
      /\ UNCHANGED <<policy, day, batches, now, bundle, born, expunged, cut>>
  BY DEF Tiering!ApplyStep
<1>4. to \in Tiering!Tiers /\ (~gone => to = Tiering!targetTier(now - files[n].at))
  BY TargetIsTier DEF Tiering!Age
<1>5. policy.gdpr \in BOOLEAN
  BY PolicyIs
<1>6. Tiering!Scrubs(n[1], to) <=> policy.gdpr /\ n[1] = "hot"
  BY DEF Tiering!Scrubs
<1>7. purge <=> ~gone /\ policy.purge >= 0 /\ now - files[n].at >= policy.purge
  BY DEF Tiering!Age
<1>8. <<n[1], to>> \in Tiering!Moves =>
         /\ to \in {"warm", "cold"} /\ n[1] \in {"hot", "warm"}
  BY DEF Tiering!Moves
<1>13. dst \in Rotated
  BY <1>2, <1>4, ArchiveIs DEF Rotated
<1> HIDE DEF n, to
<1>9. CASE purge
  <2>1. Expires(n)
    BY <1>1, <1>3, <1>7, <1>9 DEF Expires, Tiering!Without
  <2> QED
    BY <1>1, <1>2, <1>3, <1>4, <1>9, <1>13, <2>1 DEF Looked
<1>10. CASE ~purge /\ scrubs
  <2> DEFINE f == [whole |-> FALSE, scrubbed |-> TRUE, at |-> day]
  <2>1. files' = Tiering!With(files, dst, f) /\ scrubbing' = n /\ n \in DOMAIN files /\ n[1] = "hot"
        /\ to \in {"warm", "cold"} /\ policy.gdpr
    BY <1>3, <1>6, <1>8, <1>10
  <2> HIDE DEF f
  <2>2. /\ DOMAIN files' = DOMAIN files \cup {dst} /\ files'[dst] = f
        /\ \A m \in DOMAIN files \ {dst} : files'[m] = files[m]
    BY <2>1 DEF Tiering!With
  <2>3. ScrubBegins(n, to, dst)
    BY <2>1, <2>2 DEF ScrubBegins, f
  <2> QED
    BY <1>1, <1>2, <1>3, <1>4, <1>10, <1>13, <2>3 DEF Looked
<1>11. CASE ~purge /\ ~scrubs /\ moves /\ ~Tiering!Scrubs(n[1], to)
  <2>1. files' = Tiering!With(Tiering!Without(files, n), dst, files[n]) /\ scrubbing' = scrubbing
        /\ n \in DOMAIN files /\ <<n[1], to>> \in Tiering!Moves /\ (policy.gdpr => n[1] = "warm")
    BY <1>1, <1>3, <1>6, <1>8, <1>11
  <2>2. dst # n
    BY <2>1 DEF Tiering!Moves
  <2>3. /\ DOMAIN files' = (DOMAIN files \ {n}) \cup {dst} /\ files'[dst] = files[n]
        /\ \A m \in DOMAIN files \ {n, dst} : files'[m] = files[m]
    BY <2>1, <2>2 DEF Tiering!With, Tiering!Without
  <2>4. Moved(n, to, dst)
    BY <2>1, <2>2, <2>3 DEF Moved
  <2> QED
    BY <1>1, <1>2, <1>3, <1>4, <1>11, <1>13, <2>4 DEF Looked
<1>12. CASE ~purge /\ ~scrubs /\ ~(moves /\ ~Tiering!Scrubs(n[1], to))
  <2>1. n \notin DOMAIN files \/ <<n[1], to>> \notin Tiering!Moves \/ (policy.gdpr /\ ~files[n].whole)
    BY <1>6, <1>12
  <2> QED
    BY <1>1, <1>2, <1>3, <1>4, <1>12, <1>13, <2>1 DEF Looked, Passes
<1> QED
  BY <1>9, <1>10, <1>11, <1>12

\* What the end of a scrub does: the copy is whole, and the source is gone.
ScrubDone(dst) ==
    /\ scrubbing # Tiering!NoName /\ scrubbing \in Rotated /\ scrubbing[1] = "hot" /\ policy.gdpr
    /\ dst \in Rotated /\ dst[1] \in {"warm", "cold"} /\ dst[2] = scrubbing[2]
    /\ dst \in DOMAIN files /\ ~files[dst].whole
    /\ DOMAIN files' = DOMAIN files \ {scrubbing}
    /\ files'[dst] \in Tiering!File /\ files'[dst].at = day /\ files'[dst].whole
    /\ files'[dst].scrubbed = files[dst].scrubbed
    /\ \A m \in DOMAIN files \ {scrubbing, dst} : files'[m] = files[m]
    /\ scrubbing' = Tiering!NoName /\ applied' = IF todo = {} THEN now = day ELSE applied
    /\ UNCHANGED <<policy, day, batches, now, todo, bundle, born, expunged, cut>>

\* The scrub that ends has one copy to complete.
LEMMA ScrubEndsIs ==
    ASSUME TiersTyped, ScrubInv, Tiering!ScrubEnds
    PROVE  \E dst : ScrubDone(dst)
<1> DEFINE to == CHOOSE t \in {"warm", "cold"} : <<t, scrubbing[2]>> \in DOMAIN files
                                                /\ ~files[<<t, scrubbing[2]>>].whole
           dst == <<to, scrubbing[2]>>
           fs  == [files EXCEPT ![dst].whole = TRUE, ![dst].at = day]
<1>1. /\ scrubbing # Tiering!NoName /\ files' = Tiering!Without(fs, scrubbing) /\ scrubbing' = Tiering!NoName
      /\ applied' = IF todo = {} THEN now = day ELSE applied
      /\ UNCHANGED <<policy, day, batches, now, todo, bundle, born, expunged, cut>>
  BY DEF Tiering!ScrubEnds
<1>2. scrubbing \in Rotated /\ \E t \in {"warm", "cold"} : Half(<<t, scrubbing[2]>>)
      /\ scrubbing[1] = "hot" /\ policy.gdpr
  BY <1>1 DEF TiersTyped, ScrubInv
<1>3. to \in {"warm", "cold"} /\ dst \in DOMAIN files /\ ~files[dst].whole /\ dst[2] = scrubbing[2]
      /\ dst[1] = to
  BY <1>2 DEF Half
<1> HIDE DEF to, dst
<1>4. DOMAIN fs = DOMAIN files /\ \A m \in DOMAIN files \ {dst} : fs[m] = files[m]
  OBVIOUS
<1>5. fs[dst] = [files[dst] EXCEPT !.whole = TRUE, !.at = day]
  BY <1>3
<1> HIDE DEF fs
<1>6. fs[dst] \in Tiering!File /\ fs[dst].at = day /\ fs[dst].whole /\ fs[dst].scrubbed = files[dst].scrubbed
  <2>1. DOMAIN files[dst] = {"whole", "scrubbed", "at"} /\ files[dst].scrubbed \in BOOLEAN
        /\ files[dst] = [whole |-> files[dst].whole, scrubbed |-> files[dst].scrubbed, at |-> files[dst].at]
    BY <1>3 DEF TiersTyped, Tiering!File
  <2>2. fs[dst] = [whole |-> TRUE, scrubbed |-> files[dst].scrubbed, at |-> day]
    BY <1>5, <2>1
  <2>3. day \in 0..MaxDay
    BY DEF TiersTyped
  <2> QED
    BY <2>1, <2>2, <2>3 DEF Tiering!File
<1>7. DOMAIN files' = DOMAIN files \ {scrubbing} /\ \A m \in DOMAIN files' : files'[m] = fs[m]
  BY <1>1, <1>4 DEF Tiering!Without
<1>8. dst \in DOMAIN files' /\ dst \in Rotated
  BY <1>2, <1>3, <1>7 DEF TiersTyped
<1>9. ScrubDone(dst)
  BY <1>1, <1>2, <1>3, <1>4, <1>6, <1>7, <1>8 DEF ScrubDone
<1> QED
  BY <1>9

\* What a rotation does.
Grown(n, f) ==
    /\ batches < MaxBatches /\ batches' = batches + 1 /\ batches + 1 \in Tiering!Batch
    /\ n[1] = "hot" /\ n[2] = batches + 1 /\ n \in Rotated' /\ n \notin Rotated /\ Rotated \subseteq Rotated'
    /\ f.whole /\ f.at = day /\ f \in Tiering!File
    /\ DOMAIN files' = DOMAIN files \cup {n} /\ files'[n] = f
    /\ \A m \in DOMAIN files \ {n} : files'[m] = files[m]
    /\ born' \in [Tiering!Batch -> 0..MaxDay] /\ born'[batches + 1] = day
    /\ \A b \in 1..batches : born'[b] = born[b]
    /\ UNCHANGED <<policy, day, now, todo, scrubbing, bundle, expunged, cut, applied>>

\* A rotation adds one archive that is hot and whole.
LEMMA RotatesIs ==
    ASSUME TiersTyped, Tiering!Rotates
    PROVE  \E n, f : Grown(n, f)
<1> DEFINE n == <<"hot", batches + 1>>
           f == [whole |-> TRUE, scrubbed |-> FALSE, at |-> day]
<1>0. /\ day \in Nat /\ batches \in Nat /\ now \in Nat /\ MaxDay \in Nat /\ MaxBatches \in Nat
  BY PolicyIs, TieringAssumption DEF TiersTyped
<1>1. /\ batches < MaxBatches /\ batches' = batches + 1 /\ files' = Tiering!With(files, n, f)
      /\ born' = [born EXCEPT ![batches + 1] = day]
      /\ UNCHANGED <<policy, day, now, todo, scrubbing, bundle, expunged, cut, applied>>
  BY DEF Tiering!Rotates
<1>2. /\ batches + 1 \in Tiering!Batch /\ 1..batches \subseteq 1..batches'
      /\ batches + 1 \in 1..batches' /\ day \in 0..MaxDay /\ batches + 1 \notin 1..batches
  BY <1>0, <1>1 DEF Tiering!Batch, TiersTyped
<1>3. Rotated \subseteq Rotated' /\ n \in Rotated' /\ n \notin Rotated
  BY <1>2 DEF Rotated, Tiering!Tiers
<1>4. born' \in [Tiering!Batch -> 0..MaxDay] /\ born'[batches + 1] = day
      /\ \A b \in 1..batches : born'[b] = born[b]
  BY <1>1, <1>2, PolicyIs DEF TiersTyped
<1>5. f \in Tiering!File /\ f.at = day /\ f.whole
  BY <1>2 DEF Tiering!File
<1>6. n[1] = "hot" /\ n[2] = batches + 1
  OBVIOUS
<1> HIDE DEF n, f
<1>7. /\ DOMAIN files' = DOMAIN files \cup {n} /\ files'[n] = f
      /\ \A m \in DOMAIN files \ {n} : files'[m] = files[m]
  BY <1>1 DEF Tiering!With
<1>8. Grown(n, f)
  BY <1>1, <1>2, <1>3, <1>4, <1>5, <1>6, <1>7 DEF Grown
<1> QED
  BY <1>8

\* What a purge does.
Culled(days, old) ==
    /\ days \in PolicyDays /\ \A n \in old : n[1] = "hot" /\ n \in DOMAIN files
    /\ DOMAIN files' = DOMAIN files \ old /\ \A n \in DOMAIN files' : files'[n] = files[n]
    /\ expunged' = expunged \cup {n[2] : n \in old}
    /\ UNCHANGED <<policy, day, batches, now, todo, scrubbing, bundle, born, cut, applied>>

\* A purge removes hot archives that are old enough, and notes them.
LEMMA PurgeIs ==
    ASSUME Tiering!Purge
    PROVE  \E days, old : Culled(days, old)
<1>1. PICK days \in PolicyDays \ {0} :
          LET old == {n \in DOMAIN files : n[1] = "hot" /\ Tiering!Age(n, day) > days} IN
          /\ files' = [n \in DOMAIN files \ old |-> files[n]]
          /\ expunged' = expunged \cup {n[2] : n \in old}
          /\ UNCHANGED <<policy, day, batches, now, todo, scrubbing, bundle, born, cut, applied>>
  BY DEF Tiering!Purge
<1> DEFINE old == {n \in DOMAIN files : n[1] = "hot" /\ Tiering!Age(n, day) > days}
<1>2. \A n \in old : n[1] = "hot" /\ n \in DOMAIN files
  OBVIOUS
<1>3. /\ files' = [n \in DOMAIN files \ old |-> files[n]]
      /\ expunged' = expunged \cup {n[2] : n \in old}
      /\ UNCHANGED <<policy, day, batches, now, todo, scrubbing, bundle, born, cut, applied>>
  BY <1>1
<1> HIDE DEF old
<1>4. Culled(days, old)
  BY <1>2, <1>3 DEF Culled
<1> QED
  BY <1>4

-----------------------------------------------------------------------------
\* Every step keeps the types.
LEMMA TypedKept ==
    ASSUME TiersInv, [Tiering!RetentionNext]_Tiering!retentionVars
    PROVE  TiersTyped'
<1>0. /\ day \in Nat /\ batches \in Nat /\ now \in Nat /\ MaxDay \in Nat /\ MaxBatches \in Nat
      /\ day <= MaxDay /\ TiersTyped /\ ScrubInv
  BY PolicyIs, TieringAssumption DEF TiersTyped, TiersInv
<1>1. CASE Tiering!ApplyBegins
  <2>1. now' \in 0..day'
    BY <1>0, <1>1 DEF Tiering!ApplyBegins
  <2> QED
    BY <1>0, <1>1, <2>1 DEF Tiering!ApplyBegins, TiersTyped, Rotated
<1>2. CASE Tiering!ApplyStep
  <2>1. PICK n : Looked(n)
    BY <1>0, <1>2, ApplyStepLooks
  <2>2. PICK to \in Tiering!Tiers, dst \in Rotated :
            Passes(n, to) \/ Expires(n) \/ ScrubBegins(n, to, dst) \/ Moved(n, to, dst)
    BY <2>1 DEF Looked
  <2>3. n \in Rotated /\ UNCHANGED <<policy, day, batches, now, born, expunged, cut>>
        /\ todo' \subseteq todo /\ applied' \in BOOLEAN
    BY <1>0, <2>1 DEF Looked, TiersTyped
  <2>4. /\ DOMAIN files' \subseteq Rotated
        /\ \A m \in DOMAIN files' : files'[m] \in Tiering!File /\ files'[m].at <= day /\ born[m[2]] <= files'[m].at
        /\ scrubbing' \in Rotated \cup {Tiering!NoName}
    <3>1. CASE Passes(n, to)
      BY <1>0, <3>1 DEF Passes, TiersTyped
    <3>2. CASE Expires(n)
      BY <1>0, <3>2 DEF Expires, TiersTyped
    <3>3. CASE ScrubBegins(n, to, dst)
      <4>1. n \in DOMAIN files /\ dst[2] = n[2] /\ scrubbing' = n
            /\ DOMAIN files' = DOMAIN files \cup {dst}
            /\ files'[dst] = [whole |-> FALSE, scrubbed |-> TRUE, at |-> day]
            /\ \A m \in DOMAIN files \ {dst} : files'[m] = files[m]
        BY <3>3 DEF ScrubBegins
      <4>2. born[n[2]] \in Nat /\ born[n[2]] <= files[n].at /\ files[n].at <= day /\ files[n].at \in Nat
        BY <1>0, <2>3, <4>1, ArchiveIs, FileIs
      <4>3. files'[dst] \in Tiering!File /\ files'[dst].at <= day /\ born[n[2]] <= files'[dst].at
        BY <1>0, <4>1, <4>2 DEF Tiering!File
      <4> QED
        BY <1>0, <2>2, <2>3, <4>1, <4>3 DEF TiersTyped
    <3>4. CASE Moved(n, to, dst)
      <4>1. n \in DOMAIN files /\ dst[2] = n[2] /\ scrubbing' = scrubbing
            /\ DOMAIN files' = (DOMAIN files \ {n}) \cup {dst} /\ files'[dst] = files[n]
            /\ \A m \in DOMAIN files \ {n, dst} : files'[m] = files[m]
        BY <3>4 DEF Moved
      <4> QED
        BY <1>0, <2>2, <4>1 DEF TiersTyped
    <3> QED
      BY <2>2, <3>1, <3>2, <3>3, <3>4
  <2>5. Rotated' = Rotated
    BY <2>3 DEF Rotated
  <2> QED
    BY <1>0, <2>3, <2>4, <2>5 DEF TiersTyped
<1>3. CASE Tiering!ScrubEnds
  <2>1. PICK dst : ScrubDone(dst)
    BY <1>0, <1>3, ScrubEndsIs
  <2>2. UNCHANGED <<policy, day, batches, now, todo, born, expunged, cut>> /\ scrubbing' = Tiering!NoName
        /\ applied' \in BOOLEAN /\ DOMAIN files' \subseteq DOMAIN files
    BY <1>0, <2>1 DEF ScrubDone, TiersTyped
  <2>3. files'[dst] \in Tiering!File /\ files'[dst].at <= day /\ born[dst[2]] <= files'[dst].at
    <3>1. born[dst[2]] \in Nat /\ born[dst[2]] <= files[dst].at /\ files[dst].at <= day /\ files[dst].at \in Nat
      BY <1>0, <2>1, ArchiveIs, FileIs DEF ScrubDone
    <3> QED
      BY <1>0, <2>1, <3>1 DEF ScrubDone
  <2>4. \A m \in DOMAIN files' : files'[m] \in Tiering!File /\ files'[m].at <= day /\ born[m[2]] <= files'[m].at
    BY <1>0, <2>1, <2>3 DEF ScrubDone, TiersTyped
  <2> QED
    BY <1>0, <2>2, <2>4 DEF TiersTyped, Rotated
<1>4. CASE Tiering!Dies
  BY <1>0, <1>4 DEF Tiering!Dies, TiersTyped, Rotated
<1>5. CASE Tiering!Purge
  <2>1. PICK days, old : Culled(days, old)
    BY <1>5, PurgeIs
  <2>2. /\ DOMAIN files' \subseteq DOMAIN files /\ \A n \in DOMAIN files' : files'[n] = files[n]
        /\ expunged' \subseteq expunged \cup {n[2] : n \in DOMAIN files}
    BY <2>1 DEF Culled
  <2>3. \A n \in DOMAIN files : n[2] \in Tiering!Batch
    BY <1>0, ArchiveIs DEF TiersTyped
  <2>4. UNCHANGED <<policy, day, batches, now, todo, scrubbing, born, cut, applied>>
    BY <2>1 DEF Culled
  <2> QED
    BY <1>0, <2>2, <2>3, <2>4 DEF TiersTyped, Rotated
<1>6. CASE Tiering!BundleBegins \/ Tiering!BundleAdds \/ Tiering!BundleAddsActive
  <2>1. UNCHANGED <<policy, day, files, batches, now, todo, scrubbing, born, expunged, cut, applied>>
    BY <1>6 DEF Tiering!BundleBegins, Tiering!BundleAdds, Tiering!BundleAddsActive
  <2> QED
    BY <1>0, <2>1 DEF TiersTyped, Rotated
<1>7. CASE Tiering!Rotates
  <2>1. PICK n, f : Grown(n, f)
    BY <1>0, <1>7, RotatesIs
  <2>2. batches' \in 0..MaxBatches
    BY <1>0, <2>1 DEF Grown
  <2>3. \A m \in DOMAIN files' : files'[m] \in Tiering!File /\ files'[m].at <= day' /\ born'[m[2]] <= files'[m].at
    <3> SUFFICES ASSUME NEW m \in DOMAIN files'
                 PROVE  files'[m] \in Tiering!File /\ files'[m].at <= day' /\ born'[m[2]] <= files'[m].at
      OBVIOUS
    <3>1. CASE m = n
      BY <1>0, <2>1, <3>1 DEF Grown
    <3>2. CASE m # n
      <4>1. m \in DOMAIN files /\ m \in Rotated
        BY <1>0, <2>1, <3>2 DEF TiersTyped, Grown
      <4>2. m[2] \in 1..batches
        BY <1>0, <4>1, ArchiveIs
      <4> QED
        BY <1>0, <2>1, <3>2, <4>1, <4>2 DEF TiersTyped, Grown
    <3> QED
      BY <3>1, <3>2
  <2> QED
    BY <1>0, <2>1, <2>2, <2>3 DEF TiersTyped, Grown
<1>8. CASE Tiering!Day
  <2>1. /\ day < MaxDay /\ day' = day + 1 /\ applied' = FALSE
        /\ UNCHANGED <<policy, files, batches, now, todo, scrubbing, born, expunged, cut>>
    BY <1>8 DEF Tiering!Day
  <2>2. day' \in 0..MaxDay /\ now \in 0..day'
    BY <1>0, <2>1 DEF TiersTyped
  <2>3. \A n \in DOMAIN files : files[n].at <= day'
    <3> SUFFICES ASSUME NEW n \in DOMAIN files PROVE files[n].at <= day'
      OBVIOUS
    <3>1. files[n].at \in Nat /\ files[n].at <= day
      BY <1>0, FileIs
    <3> QED
      BY <1>0, <2>1, <3>1
  <2> QED
    BY <1>0, <2>1, <2>2, <2>3 DEF TiersTyped, Rotated
<1>9. CASE UNCHANGED Tiering!retentionVars
  BY <1>0, <1>9 DEF Tiering!retentionVars, TiersTyped, Rotated
<1> QED
  BY <1>1, <1>2, <1>3, <1>4, <1>5, <1>6, <1>7, <1>8, <1>9 DEF Tiering!RetentionNext

\* Every step keeps what is said of the scrub that is under way.
LEMMA ScrubKept ==
    ASSUME TiersInv, [Tiering!RetentionNext]_Tiering!retentionVars
    PROVE  ScrubInv'
<1>0. /\ TiersTyped /\ ScrubInv /\ policy.gdpr \in BOOLEAN
      /\ \A n \in DOMAIN files : n \in Rotated /\ n = <<n[1], n[2]>> /\ n # Tiering!NoName /\ n[1] \in Tiering!Tiers
  BY PolicyIs, ArchiveIs, FileIs DEF TiersInv
<1>1. CASE Tiering!ApplyBegins
  BY <1>0, <1>1 DEF Tiering!ApplyBegins, ScrubInv, Half
<1>2. CASE Tiering!ApplyStep
  <2>1. PICK n : Looked(n)
    BY <1>0, <1>2, ApplyStepLooks
  <2>2. PICK to \in Tiering!Tiers, dst \in Rotated :
            Passes(n, to) \/ Expires(n) \/ ScrubBegins(n, to, dst) \/ Moved(n, to, dst)
    BY <2>1 DEF Looked
  <2>3. scrubbing = Tiering!NoName /\ policy' = policy /\ cut' = cut
    BY <2>1 DEF Looked
  <2>4. CASE Passes(n, to)
    BY <1>0, <2>3, <2>4 DEF Passes, ScrubInv
  <2>5. CASE Expires(n)
    BY <1>0, <2>3, <2>5 DEF Expires, ScrubInv
  <2>6. CASE ScrubBegins(n, to, dst)
    <3>1. n[1] = "hot" /\ policy.gdpr /\ to \in {"warm", "cold"} /\ dst = <<to, n[2]>> /\ dst[1] = to
          /\ scrubbing' = n /\ dst \in DOMAIN files' /\ ~files'[dst].whole /\ files'[dst].scrubbed
          /\ DOMAIN files' = DOMAIN files \cup {dst}
          /\ \A m \in DOMAIN files \ {dst} : files'[m] = files[m]
      BY <2>6 DEF ScrubBegins
    <3>2. Half(dst)'
      BY <3>1 DEF Half
    <3> QED
      BY <1>0, <2>3, <3>1, <3>2 DEF ScrubInv
  <2>7. CASE Moved(n, to, dst)
    <3>1. n \in DOMAIN files /\ <<n[1], to>> \in Tiering!Moves /\ (policy.gdpr => n[1] = "warm")
          /\ dst = <<to, n[2]>> /\ DOMAIN files' = (DOMAIN files \ {n}) \cup {dst}
          /\ files'[dst] = files[n] /\ scrubbing' = scrubbing
          /\ \A m \in DOMAIN files \ {n, dst} : files'[m] = files[m]
      BY <2>7 DEF Moved
    <3>2. dst[1] # "hot" /\ (policy.gdpr => files'[dst].scrubbed)
      BY <1>0, <3>1 DEF Tiering!Moves, ScrubInv
    <3> QED
      BY <1>0, <2>3, <3>1, <3>2 DEF ScrubInv
  <2> QED
    BY <2>2, <2>4, <2>5, <2>6, <2>7
<1>3. CASE Tiering!ScrubEnds
  <2>1. PICK dst : ScrubDone(dst)
    BY <1>0, <1>3, ScrubEndsIs
  <2> QED
    BY <1>0, <2>1 DEF ScrubDone, ScrubInv
<1>4. CASE Tiering!Dies
  BY <1>0, <1>4 DEF Tiering!Dies, ScrubInv
<1>5. CASE Tiering!Purge
  <2>1. PICK days, old : Culled(days, old)
    BY <1>5, PurgeIs
  <2>2. \A n : Half(n) => Half(n)'
    BY <2>1 DEF Culled, Half
  <2> QED
    BY <1>0, <2>1, <2>2 DEF Culled, ScrubInv
<1>6. CASE Tiering!BundleBegins \/ Tiering!BundleAdds \/ Tiering!BundleAddsActive
  <2>1. UNCHANGED <<policy, day, files, batches, now, todo, scrubbing, born, expunged, cut, applied>>
    BY <1>6 DEF Tiering!BundleBegins, Tiering!BundleAdds, Tiering!BundleAddsActive
  <2> QED
    BY <1>0, <2>1 DEF ScrubInv, Half
<1>7. CASE Tiering!Rotates
  <2>1. PICK n, f : Grown(n, f)
    BY <1>0, <1>7, RotatesIs
  <2>2. \A m : Half(m) => Half(m)'
    BY <2>1 DEF Grown, Half
  <2> QED
    BY <1>0, <2>1, <2>2 DEF Grown, ScrubInv
<1>8. CASE Tiering!Day
  BY <1>0, <1>8 DEF Tiering!Day, ScrubInv, Half
<1>9. CASE UNCHANGED Tiering!retentionVars
  BY <1>0, <1>9 DEF Tiering!retentionVars, ScrubInv, Half
<1> QED
  BY <1>1, <1>2, <1>3, <1>4, <1>5, <1>6, <1>7, <1>8, <1>9 DEF Tiering!RetentionNext

\* An archive is looked for as long as its time is not over.
Due(b) == b \notin expunged /\ (policy.purge = -1 \/ day - born[b] < policy.purge)
There(b) == \E t \in Tiering!Tiers : <<t, b>> \in DOMAIN files /\ files[<<t, b>>].whole

\* A step that leaves the whole files of a batch, and no reason less, leaves it there.
LEMMA KeptKept ==
    ASSUME TiersInv, [Tiering!RetentionNext]_Tiering!retentionVars, ~cut'
    PROVE  KeptInv'
<1>0. /\ TiersTyped /\ ScrubInv /\ policy.gdpr \in BOOLEAN
      /\ \A n \in DOMAIN files : n \in Rotated /\ n = <<n[1], n[2]>> /\ n # Tiering!NoName /\ n[1] \in Tiering!Tiers
                               /\ n[2] \in 1..batches
  BY PolicyIs, ArchiveIs, FileIs DEF TiersInv
<1>a. ~cut
  <2>1. CASE Tiering!ApplyStep
    <3>1. PICK n : Looked(n)
      BY <1>0, <2>1, ApplyStepLooks
    <3> QED
      BY <3>1 DEF Looked
  <2> QED
    BY <2>1 DEF Tiering!RetentionNext, Tiering!retentionVars, Tiering!ApplyBegins, Tiering!ScrubEnds, Tiering!Dies, Tiering!Purge, Tiering!BundleBegins, Tiering!BundleAdds,
                Tiering!BundleAddsActive, Tiering!Rotates, Tiering!Day
<1>b. KeptInv
  BY <1>a DEF TiersInv
<1>c. /\ \A n \in DOMAIN files : ~files[n].whole => scrubbing # Tiering!NoName /\ n[2] = scrubbing[2]
      /\ \A m, n \in DOMAIN files :
            m[2] = n[2] /\ m # n =>
                scrubbing # Tiering!NoName /\ m[2] = scrubbing[2] /\ (m[1] = "hot" \/ n[1] = "hot")
      /\ \A b \in 1..batches : Due(b) => There(b)
  BY <1>b DEF KeptInv, Due, There
<1> SUFFICES
      /\ \A n \in DOMAIN files' : ~files'[n].whole => scrubbing' # Tiering!NoName /\ n[2] = scrubbing'[2]
      /\ \A m, n \in DOMAIN files' :
            m[2] = n[2] /\ m # n =>
                scrubbing' # Tiering!NoName /\ m[2] = scrubbing'[2] /\ (m[1] = "hot" \/ n[1] = "hot")
      /\ \A b \in 1..batches' : Due(b)' => There(b)'
  BY DEF KeptInv, Due, There
<1>1. CASE Tiering!ApplyBegins
  BY <1>c, <1>1 DEF Tiering!ApplyBegins, Due, There
<1>2. CASE Tiering!ApplyStep
  <2>1. PICK n : Looked(n)
    BY <1>0, <1>2, ApplyStepLooks
  <2>2. PICK to \in Tiering!Tiers, dst \in Rotated :
            Passes(n, to) \/ Expires(n) \/ ScrubBegins(n, to, dst) \/ Moved(n, to, dst)
    BY <2>1 DEF Looked
  <2>3. /\ scrubbing = Tiering!NoName /\ UNCHANGED <<policy, day, batches, born, expunged>> /\ n \in Rotated
    BY <2>1 DEF Looked
  <2>4. CASE Passes(n, to)
    BY <1>c, <2>3, <2>4 DEF Passes, Due, There
  <2>5. CASE Expires(n)
    <3>1. n \in DOMAIN files /\ policy.purge >= 0 /\ now - files[n].at >= policy.purge
          /\ DOMAIN files' = DOMAIN files \ {n} /\ scrubbing' = scrubbing
          /\ \A m \in DOMAIN files' : files'[m] = files[m]
      BY <2>5 DEF Expires
    <3>2. ~Due(n[2])
      <4>1. /\ born[n[2]] \in Nat /\ born[n[2]] <= files[n].at /\ files[n].at \in Nat
            /\ now \in Nat /\ now <= day /\ day \in Nat
        BY <1>0, <3>1, PolicyIs, ArchiveIs, FileIs
      <4>2. policy.purge \in Nat
        BY <1>0, <3>1, PolicyIs
      <4> QED
        BY <3>1, <4>1, <4>2 DEF Due
    <3>3. \A b \in 1..batches : Due(b)' => There(b)'
      <4> SUFFICES ASSUME NEW b \in 1..batches, Due(b)' PROVE There(b)'
        OBVIOUS
      <4>1. Due(b)
        BY <2>3 DEF Due
      <4>2. PICK t \in Tiering!Tiers : <<t, b>> \in DOMAIN files /\ files[<<t, b>>].whole
        BY <1>c, <4>1 DEF There
      <4>3. <<t, b>> # n
        BY <3>2, <4>1
      <4> QED
        BY <3>1, <4>2, <4>3 DEF There
    <3> QED
      BY <1>c, <2>3, <3>1, <3>3
  <2>6. CASE ScrubBegins(n, to, dst)
    <3>1. n \in DOMAIN files /\ n[1] = "hot" /\ to \in {"warm", "cold"} /\ dst = <<to, n[2]>> /\ dst[2] = n[2]
          /\ scrubbing' = n /\ ~files'[dst].whole /\ DOMAIN files' = DOMAIN files \cup {dst}
          /\ \A m \in DOMAIN files \ {dst} : files'[m] = files[m]
      BY <2>6 DEF ScrubBegins
    <3>2. n # Tiering!NoName /\ dst # n
      BY <1>0, <3>1
    <3>3. \A m \in DOMAIN files : m[2] = n[2] => m = n
      BY <1>c, <2>3, <3>1
    <3>4. dst \notin DOMAIN files
      BY <3>1, <3>2, <3>3
    <3>5. \A b \in 1..batches : Due(b)' => There(b)'
      <4> SUFFICES ASSUME NEW b \in 1..batches, Due(b)' PROVE There(b)'
        OBVIOUS
      <4>1. Due(b)
        BY <2>3 DEF Due
      <4>2. PICK t \in Tiering!Tiers : <<t, b>> \in DOMAIN files /\ files[<<t, b>>].whole
        BY <1>c, <4>1 DEF There
      <4> QED
        BY <3>1, <3>4, <4>2 DEF There
    <3>6. \A m \in DOMAIN files' : ~files'[m].whole => scrubbing' # Tiering!NoName /\ m[2] = scrubbing'[2]
      BY <1>c, <2>3, <3>1, <3>2
    <3>7. \A m, k \in DOMAIN files' :
             m[2] = k[2] /\ m # k =>
                scrubbing' # Tiering!NoName /\ m[2] = scrubbing'[2] /\ (m[1] = "hot" \/ k[1] = "hot")
      BY <1>c, <2>3, <3>1, <3>2, <3>3
    <3> QED
      BY <2>3, <3>5, <3>6, <3>7
  <2>7. CASE Moved(n, to, dst)
    <3>1. n \in DOMAIN files /\ dst = <<to, n[2]>> /\ dst[2] = n[2] /\ dst # n
          /\ DOMAIN files' = (DOMAIN files \ {n}) \cup {dst}
          /\ files'[dst] = files[n] /\ scrubbing' = scrubbing
          /\ \A m \in DOMAIN files \ {n, dst} : files'[m] = files[m]
      BY <2>7 DEF Moved
    <3>2. \A m \in DOMAIN files : m[2] = n[2] => m = n
      BY <1>c, <2>3, <3>1
    <3>3. files[n].whole
      BY <1>c, <2>3, <3>1
    <3>4. \A b \in 1..batches : Due(b)' => There(b)'
      <4> SUFFICES ASSUME NEW b \in 1..batches, Due(b)' PROVE There(b)'
        OBVIOUS
      <4>1. Due(b)
        BY <2>3 DEF Due
      <4>2. PICK t \in Tiering!Tiers : <<t, b>> \in DOMAIN files /\ files[<<t, b>>].whole
        BY <1>c, <4>1 DEF There
      <4>3. CASE b = n[2]
        BY <3>1, <3>3, <4>3 DEF There
      <4>4. CASE b # n[2]
        <5>1. <<t, b>> # n /\ <<t, b>> # dst
          BY <3>1, <4>4
        <5> QED
          BY <3>1, <4>2, <5>1 DEF There
      <4> QED
        BY <4>3, <4>4
    <3>5. \A m \in DOMAIN files' : files'[m].whole
      BY <1>c, <2>3, <3>1, <3>3
    <3>6. \A m, k \in DOMAIN files' : m[2] = k[2] => m = k
      BY <1>c, <2>3, <3>1, <3>2
    <3> QED
      BY <2>3, <3>4, <3>5, <3>6
  <2> QED
    BY <2>2, <2>4, <2>5, <2>6, <2>7
<1>3. CASE Tiering!ScrubEnds
  <2>1. PICK dst : ScrubDone(dst)
    BY <1>0, <1>3, ScrubEndsIs
  <2>2. /\ scrubbing # Tiering!NoName /\ scrubbing[1] = "hot" /\ dst \in Rotated
        /\ dst[1] \in {"warm", "cold"} /\ dst[2] = scrubbing[2] /\ dst \in DOMAIN files
        /\ DOMAIN files' = DOMAIN files \ {scrubbing} /\ files'[dst].whole
        /\ \A m \in DOMAIN files \ {scrubbing, dst} : files'[m] = files[m]
        /\ UNCHANGED <<policy, day, batches, born, expunged>>
    BY <2>1 DEF ScrubDone
  <2>3. dst \in DOMAIN files'
    BY <2>2
  <2>4. \A m \in DOMAIN files : m[2] = scrubbing[2] /\ m # scrubbing => m = dst
    <3> SUFFICES ASSUME NEW m \in DOMAIN files, m[2] = scrubbing[2], m # scrubbing, m # dst PROVE FALSE
      OBVIOUS
    <3>1. m[1] = "hot"
      BY <1>c, <2>2
    <3>2. m = <<m[1], m[2]>> /\ scrubbing = <<scrubbing[1], scrubbing[2]>>
      BY <1>0, <2>1, ArchiveIs DEF ScrubDone
    <3> QED
      BY <2>2, <3>1, <3>2
  <2>5. \A m \in DOMAIN files' : files'[m].whole
    BY <1>c, <2>2, <2>4
  <2>6. \A m, k \in DOMAIN files' : m[2] = k[2] => m = k
    BY <1>c, <2>2, <2>4
  <2>7. \A b \in 1..batches : Due(b)' => There(b)'
    <3> SUFFICES ASSUME NEW b \in 1..batches, Due(b)' PROVE There(b)'
      OBVIOUS
    <3>1. Due(b)
      BY <2>2 DEF Due
    <3>2. PICK t \in Tiering!Tiers : <<t, b>> \in DOMAIN files /\ files[<<t, b>>].whole
      BY <1>c, <3>1 DEF There
    <3>3. CASE b = scrubbing[2]
      <4>1. dst = <<dst[1], b>> /\ dst[1] \in Tiering!Tiers
        BY <1>0, <2>2, <3>3
      <4> QED
        BY <2>2, <2>3, <4>1 DEF There
    <3>4. CASE b # scrubbing[2]
      <4>1. <<t, b>> # scrubbing /\ <<t, b>> # dst
        BY <2>2, <3>4
      <4> QED
        BY <2>2, <3>2, <4>1 DEF There
    <3> QED
      BY <3>3, <3>4
  <2> QED
    BY <2>2, <2>5, <2>6, <2>7
<1>4. CASE Tiering!Dies
  <2>1. scrubbing = Tiering!NoName /\ scrubbing' = Tiering!NoName
    BY <1>4 DEF Tiering!Dies
  <2> QED
    BY <1>c, <1>4, <2>1 DEF Tiering!Dies, Due, There
<1>5. CASE Tiering!Purge
  <2>1. PICK days, old : Culled(days, old)
    BY <1>5, PurgeIs
  <2>2. \A b \in 1..batches : Due(b)' => There(b)'
    <3> SUFFICES ASSUME NEW b \in 1..batches, Due(b)' PROVE There(b)'
      OBVIOUS
    <3>1. Due(b) /\ b \notin {n[2] : n \in old}
      BY <2>1 DEF Due, Culled
    <3>2. PICK t \in Tiering!Tiers : <<t, b>> \in DOMAIN files /\ files[<<t, b>>].whole
      BY <1>c, <3>1 DEF There
    <3>3. <<t, b>> \notin old
      BY <3>1
    <3> QED
      BY <2>1, <3>2, <3>3 DEF There, Culled
  <2> QED
    BY <1>c, <2>1, <2>2 DEF Culled
<1>6. CASE Tiering!BundleBegins \/ Tiering!BundleAdds \/ Tiering!BundleAddsActive
  <2>1. UNCHANGED <<policy, day, files, batches, now, todo, scrubbing, born, expunged, cut, applied>>
    BY <1>6 DEF Tiering!BundleBegins, Tiering!BundleAdds, Tiering!BundleAddsActive
  <2> QED
    BY <1>c, <2>1 DEF Due, There
<1>7. CASE Tiering!Rotates
  <2>1. PICK n, f : Grown(n, f)
    BY <1>0, <1>7, RotatesIs
  <2>2. n = <<n[1], n[2]>> /\ n[1] = "hot" /\ n[2] = batches + 1 /\ batches \in Nat /\ batches + 1 \notin 1..batches
        /\ batches' = batches + 1
    BY <1>0, <2>1, PolicyIs DEF Grown, Rotated
  <2>3. \A b \in 1..batches' : Due(b)' => There(b)'
    <3> SUFFICES ASSUME NEW b \in 1..batches', Due(b)' PROVE There(b)'
      OBVIOUS
    <3>1. CASE b = batches + 1
      BY <2>1, <2>2, <3>1 DEF There, Grown, Tiering!Tiers
    <3>2. CASE b # batches + 1
      <4>1. b \in 1..batches
        BY <2>2, <3>2
      <4>2. Due(b)
        BY <2>1, <4>1 DEF Due, Grown
      <4>3. PICK t \in Tiering!Tiers : <<t, b>> \in DOMAIN files /\ files[<<t, b>>].whole
        BY <1>c, <4>1, <4>2 DEF There
      <4>4. <<t, b>> # n
        BY <2>2, <3>2
      <4> QED
        BY <2>1, <4>3, <4>4 DEF There, Grown
    <3> QED
      BY <3>1, <3>2
  <2>4. \A m \in DOMAIN files' : m = n \/ (m \in DOMAIN files /\ m # n /\ m[2] # n[2] /\ files'[m] = files[m])
    BY <1>0, <2>1, <2>2 DEF Grown
  <2>5. files'[n].whole /\ scrubbing' = scrubbing
    BY <2>1 DEF Grown
  <2> QED
    BY <1>c, <2>3, <2>4, <2>5
<1>8. CASE Tiering!Day
  <2>1. day' = day + 1 /\ UNCHANGED <<policy, files, batches, scrubbing, born, expunged>>
    BY <1>8 DEF Tiering!Day
  <2>2. \A b \in 1..batches : Due(b)' => Due(b)
    <3> SUFFICES ASSUME NEW b \in 1..batches, Due(b)' PROVE Due(b)
      OBVIOUS
    <3>1. b \in Tiering!Batch /\ day \in Nat /\ policy.purge \in Nat \cup {-1}
      BY <1>0, PolicyIs
    <3>2. born[b] \in 0..MaxDay
      BY <1>0, <3>1 DEF TiersTyped
    <3>3. born[b] \in Int
      BY <3>2
    <3>4. policy'.purge = policy.purge /\ born'[b] = born[b] /\ expunged' = expunged
      BY <2>1
    <3>5. b \notin expunged /\ (policy.purge = -1 \/ day + 1 - born[b] < policy.purge)
      <4>1. b \notin expunged' /\ (policy'.purge = -1 \/ day' - born'[b] < policy'.purge)
        BY DEF Due
      <4>2. /\ b \notin expunged' /\ b \notin expunged
            /\ policy'.purge = -1 \/ day' - born'[b] < policy'.purge
        BY <3>4, <4>1
      <4>3. policy.purge = -1 \/ day' - born[b] < policy.purge
        BY <3>4, <4>2
      <4>4. day' = day + 1
        BY <2>1
      <4>5. b \notin expunged
        BY <4>2
      <4>6. CASE policy.purge = -1
        BY <4>5, <4>6
      <4>7. CASE day' - born[b] < policy.purge
        BY <3>1, <3>3, <4>4, <4>5, <4>7
      <4> QED
        BY <4>3, <4>6, <4>7
    <3>6. policy.purge = -1 \/ day - born[b] < policy.purge
      <4>1. policy.purge \in Int
        BY <3>1
      <4> QED
        BY <3>1, <3>3, <3>5, <4>1
    <3> QED
      BY <3>5, <3>6 DEF Due
  <2>3. \A b : There(b)' <=> There(b)
    BY <2>1 DEF There
  <2> QED
    BY <1>c, <2>1, <2>2, <2>3
<1>9. CASE UNCHANGED Tiering!retentionVars
  BY <1>c, <1>9 DEF Tiering!retentionVars, Due, There
<1> QED
  BY <1>1, <1>2, <1>3, <1>4, <1>5, <1>6, <1>7, <1>8, <1>9 DEF Tiering!RetentionNext

\* Every step keeps the archives in the order of their age.
LEMMA SortedKept ==
    ASSUME TiersInv, [Tiering!RetentionNext]_Tiering!retentionVars, ~policy'.gdpr
    PROVE  SortedInv'
<1>0. /\ TiersTyped /\ ScrubInv /\ applied \in BOOLEAN /\ cut \in BOOLEAN /\ (applied => todo = {})
      /\ \A n \in DOMAIN files : n \in Rotated /\ n = <<n[1], n[2]>> /\ n # Tiering!NoName /\ n[1] \in Tiering!Tiers
                               /\ n[2] \in 1..batches
      /\ day \in Nat /\ now \in Nat /\ now <= day /\ batches \in Nat
  BY PolicyIs, ArchiveIs, FileIs DEF TiersInv, TiersTyped
<1>a. policy' = policy
  <2>1. CASE Tiering!ApplyStep
    BY <1>0, <2>1, ApplyStepLooks DEF Looked
  <2> QED
    BY <2>1 DEF Tiering!RetentionNext, Tiering!retentionVars, Tiering!ApplyBegins, Tiering!ScrubEnds, Tiering!Dies, Tiering!Purge, Tiering!BundleBegins, Tiering!BundleAdds,
                Tiering!BundleAddsActive, Tiering!Rotates, Tiering!Day
<1>b. ~policy.gdpr /\ SortedInv
  BY <1>a DEF TiersInv
<1>c. scrubbing = Tiering!NoName
  BY <1>b DEF SortedInv
<1>d. \A n \in DOMAIN files : born[n[2]] \in Nat /\ born[n[2]] <= day
  <2> SUFFICES ASSUME NEW n \in DOMAIN files PROVE born[n[2]] \in Nat /\ born[n[2]] <= day
    OBVIOUS
  <2>1. born[n[2]] \in Nat /\ born[n[2]] <= files[n].at /\ files[n].at <= day /\ files[n].at \in Nat
    BY <1>0, ArchiveIs, FileIs
  <2> QED
    BY <1>0, <2>1
<1>e. \A age, later \in Int : age <= later =>
          /\ Tiering!targetTier(age) \in Tiering!Tiers
          /\ Tiering!targetTier(age) = "cold" => Tiering!targetTier(later) = "cold"
          /\ Tiering!targetTier(age) = "warm" => Tiering!targetTier(later) \in {"warm", "cold"}
  BY <1>0, TargetIs
<1>1. CASE Tiering!ApplyBegins
  <2>1. ~applied' /\ todo' = DOMAIN files /\ UNCHANGED <<policy, day, files, scrubbing, born>>
    BY <1>1 DEF Tiering!ApplyBegins
  <2>2. \A n : Lies(n)' = Lies(n)
    BY <2>1 DEF Lies, Tiering!targetTier
  <2> QED
    BY <1>b, <2>1, <2>2 DEF SortedInv
<1>2. CASE Tiering!ApplyStep
  <2>1. PICK n : Looked(n)
    BY <1>0, <1>2, ApplyStepLooks
  <2>2. /\ n \in todo /\ todo' = todo \ {n} /\ UNCHANGED <<policy, day, batches, now, born>>
        /\ ~applied /\ n \in Rotated
        /\ applied' => now = day
    BY <1>0, <2>1 DEF Looked
  <2>3. PICK to \in Tiering!Tiers, dst \in Rotated :
            /\ n \in DOMAIN files => to = Tiering!targetTier(now - files[n].at)
            /\ Passes(n, to) \/ Expires(n) \/ ScrubBegins(n, to, dst) \/ Moved(n, to, dst)
    BY <2>1 DEF Looked
  <2>4. \A m : Lies(m)' = Lies(m)
    BY <2>2 DEF Lies, Tiering!targetTier
  <2>5. \A m \in DOMAIN files :
           /\ files[m].at = born[m[2]] /\ (m[1] = "warm" => Lies(m) \in {"warm", "cold"})
           /\ (m[1] = "cold" => Lies(m) = "cold")
           /\ (now = day /\ m \notin todo /\ born[m[2]] < day => m[1] = Lies(m))
    BY <1>b, <2>2 DEF SortedInv
  <2>6. SUFFICES
          /\ scrubbing' = Tiering!NoName
          /\ \A m \in DOMAIN files' :
               /\ files'[m].at = born[m[2]]
               /\ m[1] = "warm" => Lies(m) \in {"warm", "cold"}
               /\ m[1] = "cold" => Lies(m) = "cold"
               /\ now = day /\ (m = n \/ m \notin todo) /\ born[m[2]] < day => m[1] = Lies(m)
    BY <2>2, <2>4 DEF SortedInv
  <2>7. n \in DOMAIN files =>
           /\ now = day => to = Lies(n)
           /\ to = "cold" => Lies(n) = "cold"
           /\ to = "warm" => Lies(n) \in {"warm", "cold"}
           /\ to \in Tiering!Tiers /\ Lies(n) \in Tiering!Tiers
    <3> SUFFICES ASSUME n \in DOMAIN files
                 PROVE  /\ now = day => to = Lies(n)
                        /\ to = "cold" => Lies(n) = "cold"
                        /\ to = "warm" => Lies(n) \in {"warm", "cold"}
                        /\ to \in Tiering!Tiers /\ Lies(n) \in Tiering!Tiers
      OBVIOUS
    <3> DEFINE a == now - born[n[2]]
               b == day - born[n[2]]
    <3>1. born[n[2]] \in Nat
      BY <1>d
    <3>2. a \in Int /\ b \in Int /\ a <= b
      BY <1>0, <3>1
    <3>3. to = Tiering!targetTier(a) /\ Lies(n) = Tiering!targetTier(b)
      BY <2>3, <2>5 DEF Lies
    <3>4. now = day => a = b
      OBVIOUS
    <3> HIDE DEF a, b
    <3> QED
      BY <1>e, <3>2, <3>3, <3>4, TargetIsTier
  <2>8. CASE Passes(n, to)
    <3>1. files' = files /\ scrubbing' = scrubbing /\ (n \notin DOMAIN files \/ <<n[1], to>> \notin Tiering!Moves)
      BY <1>b, <2>8 DEF Passes
    <3>2. n \in DOMAIN files /\ now = day => n[1] = Lies(n)
      <4> SUFFICES ASSUME n \in DOMAIN files, now = day PROVE n[1] = Lies(n)
        OBVIOUS
      <4>1. to = Lies(n) /\ n[1] \in Tiering!Tiers /\ to \in Tiering!Tiers /\ <<n[1], to>> \notin Tiering!Moves
        BY <1>0, <2>7, <3>1
      <4>2. (n[1] = "warm" => to \in {"warm", "cold"}) /\ (n[1] = "cold" => to = "cold")
        BY <2>5, <4>1
      <4> QED
        BY <4>1, <4>2 DEF Tiering!Moves, Tiering!Tiers
    <3> QED
      BY <1>c, <2>5, <3>1, <3>2
  <2>9. CASE Expires(n)
    <3>1. DOMAIN files' = DOMAIN files \ {n} /\ scrubbing' = scrubbing
          /\ \A m \in DOMAIN files' : files'[m] = files[m]
      BY <2>9 DEF Expires
    <3> QED
      BY <1>c, <2>5, <3>1
  <2>10. CASE ScrubBegins(n, to, dst)
    BY <1>b, <2>10 DEF ScrubBegins
  <2>11. CASE Moved(n, to, dst)
    <3>1. n \in DOMAIN files /\ dst = <<to, n[2]>> /\ dst[1] = to /\ dst[2] = n[2]
          /\ DOMAIN files' = (DOMAIN files \ {n}) \cup {dst}
          /\ files'[dst] = files[n] /\ scrubbing' = scrubbing
          /\ \A m \in DOMAIN files \ {n, dst} : files'[m] = files[m]
      BY <2>11 DEF Moved
    <3>2. Lies(dst) = Lies(n)
      BY <3>1 DEF Lies
    <3>3. /\ files'[dst].at = born[dst[2]]
          /\ dst[1] = "warm" => Lies(dst) \in {"warm", "cold"}
          /\ dst[1] = "cold" => Lies(dst) = "cold"
          /\ now = day => dst[1] = Lies(dst)
      BY <2>5, <2>7, <3>1, <3>2
    <3>4. \A m \in DOMAIN files' : m = dst \/ (m \in DOMAIN files /\ m # n /\ files'[m] = files[m])
      BY <3>1
    <3> QED
      BY <1>c, <2>5, <3>1, <3>3, <3>4
  <2> QED
    BY <2>3, <2>8, <2>9, <2>10, <2>11
<1>3. CASE Tiering!ScrubEnds
  BY <1>c, <1>3 DEF Tiering!ScrubEnds
<1>4. CASE Tiering!Dies
  <2>1. ~applied' /\ todo' = {} /\ scrubbing' = Tiering!NoName /\ UNCHANGED <<policy, day, files, born, now>>
    BY <1>0, <1>c, <1>4 DEF Tiering!Dies
  <2>2. \A n : Lies(n)' = Lies(n)
    BY <2>1 DEF Lies, Tiering!targetTier
  <2> QED
    BY <1>b, <2>1, <2>2 DEF SortedInv
<1>5. CASE Tiering!Purge
  <2>1. PICK days, old : Culled(days, old)
    BY <1>5, PurgeIs
  <2>2. \A n : Lies(n)' = Lies(n)
    BY <2>1 DEF Lies, Tiering!targetTier, Culled
  <2>3. /\ \A n \in DOMAIN files' : n \in DOMAIN files /\ files'[n] = files[n]
        /\ UNCHANGED <<policy, day, now, todo, scrubbing, born, applied>>
    BY <2>1 DEF Culled
  <2> QED
    BY <1>b, <2>2, <2>3 DEF SortedInv
<1>6. CASE Tiering!BundleBegins \/ Tiering!BundleAdds \/ Tiering!BundleAddsActive
  <2>1. UNCHANGED <<policy, day, files, batches, now, todo, scrubbing, born, expunged, cut, applied>>
    BY <1>6 DEF Tiering!BundleBegins, Tiering!BundleAdds, Tiering!BundleAddsActive
  <2>2. \A n : Lies(n)' = Lies(n)
    BY <2>1 DEF Lies, Tiering!targetTier
  <2> QED
    BY <1>b, <2>1, <2>2 DEF SortedInv
<1>7. CASE Tiering!Rotates
  <2>1. PICK n, f : Grown(n, f)
    BY <1>0, <1>7, RotatesIs
  <2>2. UNCHANGED <<policy, day, now, todo, scrubbing, applied>>
    BY <2>1 DEF Grown
  <2>3. \A m \in DOMAIN files : born'[m[2]] = born[m[2]] /\ Lies(m)' = Lies(m)
    <3> SUFFICES ASSUME NEW m \in DOMAIN files PROVE born'[m[2]] = born[m[2]] /\ Lies(m)' = Lies(m)
      OBVIOUS
    <3>1. born'[m[2]] = born[m[2]]
      BY <1>0, <2>1 DEF Grown
    <3> QED
      BY <2>2, <3>1 DEF Lies, Tiering!targetTier
  <2>4. \A m \in DOMAIN files' : m = n \/ (m \in DOMAIN files /\ files'[m] = files[m])
    BY <2>1 DEF Grown
  <2>5. n[1] = "hot" /\ files'[n].at = born'[n[2]] /\ born'[n[2]] = day /\ ~(born'[n[2]] < day)
    BY <1>0, <2>1 DEF Grown
  <2> QED
    BY <1>b, <2>2, <2>3, <2>4, <2>5 DEF SortedInv
<1>8. CASE Tiering!Day
  <2>1. ~applied' /\ day' = day + 1 /\ UNCHANGED <<policy, files, now, todo, scrubbing, born>>
    BY <1>8 DEF Tiering!Day
  <2>2. now' # day'
    BY <1>0, <2>1
  <2>3. \A n \in DOMAIN files :
           /\ Lies(n) = "cold" => Lies(n)' = "cold"
           /\ Lies(n) = "warm" => Lies(n)' \in {"warm", "cold"}
    <3> SUFFICES ASSUME NEW n \in DOMAIN files
                 PROVE  /\ Lies(n) = "cold" => Lies(n)' = "cold"
                        /\ Lies(n) = "warm" => Lies(n)' \in {"warm", "cold"}
      OBVIOUS
    <3> DEFINE a == day - born[n[2]]
               b == day + 1 - born[n[2]]
    <3>1. a \in Int /\ b \in Int /\ a <= b
      BY <1>0, <1>d
    <3>2. Lies(n)' = Tiering!targetTier(b)
      <4>1. day' - born'[n[2]] = b /\ policy' = policy
        BY <1>0, <1>d, <2>1
      <4> HIDE DEF a, b
      <4> QED
        BY <4>1 DEF Lies, Tiering!targetTier
    <3>3. Lies(n) = Tiering!targetTier(a)
      BY DEF Lies
    <3> HIDE DEF a, b
    <3> QED
      BY <1>e, <3>1, <3>2, <3>3
  <2> QED
    BY <1>b, <2>1, <2>2, <2>3 DEF SortedInv
<1>9. CASE UNCHANGED Tiering!retentionVars
  BY <1>b, <1>9 DEF Tiering!retentionVars, SortedInv, Lies, Tiering!targetTier
<1> QED
  BY <1>1, <1>2, <1>3, <1>4, <1>5, <1>6, <1>7, <1>8, <1>9 DEF Tiering!RetentionNext

\* Every step keeps the bundle.
LEMMA BundleKept ==
    ASSUME TiersInv, [Tiering!RetentionNext]_Tiering!retentionVars
    PROVE  BundleInv'
<1>0. /\ TiersTyped /\ BundleInv /\ batches \in Nat
      /\ \A n \in DOMAIN files : n \in Rotated /\ n # Tiering!Active
      /\ \A n \in Rotated : n \in Tiering!ArchiveNames /\ n # Tiering!Active
  BY PolicyIs, ArchiveIs, FileIs DEF TiersInv
<1>1. CASE Tiering!BundleBegins
  <2> DEFINE hot == {n \in DOMAIN files : n[1] = "hot"}
             nb  == [st |-> "open", left |-> hot \cup {Tiering!Active},
                     listed |-> {n[2] : n \in hot}, live |-> batches + 1, got |-> {}]
  <2>1. bundle' = nb /\ UNCHANGED batches
    BY <1>1 DEF Tiering!BundleBegins
  <2>2. /\ DOMAIN nb = BundleFields /\ nb.st = "open" /\ nb.left = hot \cup {Tiering!Active}
        /\ nb.listed = {n[2] : n \in hot} /\ nb.live = batches + 1
    BY DEF BundleFields
  <2>3. hot \subseteq Rotated /\ Tiering!Active \notin hot
    BY <1>0
  <2> HIDE DEF hot, nb
  <2>4. (hot \cup {Tiering!Active}) \ {Tiering!Active} = hot
    BY <2>3
  <2>5. batches + 1 \in 1..batches + 1
    BY <1>0
  <2>6. Rotated' = Rotated
    BY <2>1 DEF Rotated
  <2> QED
    BY <2>1, <2>2, <2>3, <2>4, <2>5, <2>6 DEF BundleInv
<1>2. CASE Tiering!BundleAdds
  <2> DEFINE n == Tiering!First(bundle.left \ {Tiering!Active})
             more == [bundle EXCEPT !.left = @ \ {n}, !.got = @ \cup {n[2]}]
             fails == [Tiering!NoBundle EXCEPT !.st = "failed"]
  <2>1. /\ bundle.st = "open" /\ bundle.left # {Tiering!Active} /\ bundle.left # {}
        /\ bundle' = more \/ bundle' = fails
    BY <1>2 DEF Tiering!BundleAdds
  <2>2. UNCHANGED batches
    BY <1>2 DEF Tiering!BundleAdds
  <2>3. n \in bundle.left \ {Tiering!Active} /\ Tiering!Active \in bundle.left
    <3>1. bundle.left \ {Tiering!Active} \subseteq Tiering!ArchiveNames /\ bundle.left \ {Tiering!Active} # {}
      BY <1>0, <2>1 DEF BundleInv
    <3> QED
      BY <1>0, <2>1, <3>1, FirstIsIn DEF BundleInv
  <2> HIDE DEF n
  <2>4. /\ DOMAIN more = BundleFields /\ more.st = "open" /\ more.left = bundle.left \ {n}
        /\ more.listed = bundle.listed /\ more.live = bundle.live /\ more.got = bundle.got \cup {n[2]}
    BY <1>0, <2>1 DEF BundleInv, BundleFields
  <2>5. DOMAIN fails = BundleFields /\ fails.st = "failed"
    BY DEF Tiering!NoBundle, BundleFields
  <2> HIDE DEF more, fails
  <2>6. Rotated' = Rotated
    BY <2>2 DEF Rotated
  <2>7. CASE bundle' = fails
    BY <2>5, <2>7 DEF BundleInv
  <2>8. CASE bundle' = more
    <3>1. \A b \in bundle.listed : b \in more.got \/ \E m \in more.left \ {Tiering!Active} : m[2] = b
      BY <1>0, <2>1, <2>4 DEF BundleInv
    <3>2. Tiering!Active \in more.left /\ more.left \ {Tiering!Active} \subseteq Rotated /\ more.live \in 1..batches + 1
      BY <1>0, <2>1, <2>3, <2>4 DEF BundleInv
    <3> QED
      BY <2>2, <2>4, <2>6, <2>8, <3>1, <3>2 DEF BundleInv
  <2> QED
    BY <2>1, <2>7, <2>8
<1>3. CASE Tiering!BundleAddsActive
  <2> DEFINE ends == [bundle EXCEPT !.st = "done", !.left = {}, !.got = @ \cup {batches + 1}]
             fails == [Tiering!NoBundle EXCEPT !.st = "failed"]
  <2>1. bundle.st = "open" /\ bundle.left = {Tiering!Active} /\ (bundle' = ends \/ bundle' = fails)
    BY <1>3 DEF Tiering!BundleAddsActive
  <2>2. UNCHANGED batches
    BY <1>3 DEF Tiering!BundleAddsActive
  <2>3. /\ DOMAIN ends = BundleFields /\ ends.st = "done" /\ ends.listed = bundle.listed
        /\ ends.live = bundle.live /\ ends.got = bundle.got \cup {batches + 1}
    BY <1>0, <2>1 DEF BundleInv, BundleFields
  <2>4. DOMAIN fails = BundleFields /\ fails.st = "failed"
    BY DEF Tiering!NoBundle, BundleFields
  <2> HIDE DEF ends, fails
  <2>5. bundle.listed \subseteq bundle.got /\ bundle.live \in 1..batches + 1
    BY <1>0, <2>1 DEF BundleInv
  <2>6. bundle.live = batches + 1 \/ bundle.live <= batches
    BY <1>0, <2>5
  <2> QED
    BY <2>1, <2>2, <2>3, <2>4, <2>5, <2>6 DEF BundleInv
<1>4. CASE Tiering!Rotates
  <2>1. PICK n, f : Grown(n, f)
    BY <1>0, <1>4, RotatesIs
  <2>2. bundle' = bundle /\ batches' = batches + 1 /\ Rotated \subseteq Rotated'
    BY <2>1 DEF Grown
  <2>3. bundle.live \in 1..batches + 1 => bundle.live \in 1..batches' + 1
    BY <1>0, <2>2
  <2>4. bundle.live \in 1..batches + 1 => (bundle.live <= batches => bundle.live <= batches')
    BY <1>0, <2>2
  <2> QED
    BY <1>0, <2>2, <2>3, <2>4 DEF BundleInv
<1>5. CASE UNCHANGED <<bundle, batches>>
  <2>1. Rotated' = Rotated
    BY <1>5 DEF Rotated
  <2> QED
    BY <1>0, <1>5, <2>1 DEF BundleInv
<1>6. CASE Tiering!ApplyStep
  BY <1>0, <1>5, <1>6, ApplyStepLooks DEF Looked
<1>7. CASE Tiering!ApplyBegins \/ Tiering!ScrubEnds \/ Tiering!Dies \/ Tiering!Purge \/ Tiering!Day \/ UNCHANGED Tiering!retentionVars
  BY <1>5, <1>7 DEF Tiering!ApplyBegins, Tiering!ScrubEnds, Tiering!Dies, Tiering!Purge, Tiering!Day, Tiering!retentionVars
<1> QED
  BY <1>1, <1>2, <1>3, <1>4, <1>6, <1>7 DEF Tiering!RetentionNext

\* The initial states satisfy the invariant.
LEMMA TiersInvInit ==
    ASSUME Tiering!RetentionInit
    PROVE  TiersInv
<1>1. /\ policy \in Tiering!Policies /\ day = 0 /\ DOMAIN files = {} /\ batches = 0 /\ now = 0 /\ todo = {}
      /\ scrubbing = Tiering!NoName /\ bundle = Tiering!NoBundle /\ born = [b \in Tiering!Batch |-> 0] /\ expunged = {}
      /\ cut = FALSE /\ applied = FALSE
  BY DEF Tiering!RetentionInit
<1>2. 0 \in 0..MaxDay /\ 0 \in 0..MaxBatches /\ 1..0 = {} /\ 0 \in 0..0
  BY TieringAssumption
<1>3. TiersTyped
  BY <1>1, <1>2 DEF TiersTyped, Rotated
<1>4. ScrubInv
  BY <1>1 DEF ScrubInv
<1>5. BundleInv
  BY <1>1 DEF BundleInv, Tiering!NoBundle, BundleFields
<1>6. KeptInv
  BY <1>1, <1>2 DEF KeptInv
<1>7. SortedInv
  BY <1>1 DEF SortedInv
<1> QED
  BY <1>1, <1>3, <1>4, <1>5, <1>6, <1>7 DEF TiersInv

\* Every step keeps the invariant.
LEMMA TiersInvKept ==
    ASSUME TiersInv, [Tiering!RetentionNext]_Tiering!retentionVars
    PROVE  TiersInv'
<1>1. TiersTyped' /\ ScrubInv' /\ BundleInv'
  BY TypedKept, ScrubKept, BundleKept
<1>2. ~cut' => KeptInv'
  BY KeptKept
<1>3. ~policy'.gdpr => SortedInv'
  BY SortedKept
<1>4. applied' => todo' = {}
  <2>1. (applied => todo = {}) /\ TiersTyped
    BY DEF TiersInv
  <2>2. CASE Tiering!ApplyStep
    <3>1. PICK n : Looked(n)
      BY <2>1, <2>2, ApplyStepLooks
    <3> QED
      BY <2>1, <3>1 DEF Looked
  <2>3. CASE Tiering!ScrubEnds
    BY <2>1, <2>3 DEF Tiering!ScrubEnds
  <2> QED
    BY <2>1, <2>2, <2>3 DEF Tiering!RetentionNext, Tiering!retentionVars, Tiering!ApplyBegins, Tiering!Dies, Tiering!Purge, Tiering!BundleBegins, Tiering!BundleAdds,
                            Tiering!BundleAddsActive, Tiering!Rotates, Tiering!Day
<1> QED
  BY <1>1, <1>2, <1>3, <1>4 DEF TiersInv

\* The invariant says what the properties say.
LEMMA TiersInvHolds ==
    ASSUME TiersInv
    PROVE  Tiering!RetentionHolds /\ Tiering!RetentionTypeOK
<1>0. /\ TiersTyped /\ ScrubInv /\ BundleInv /\ (~cut => KeptInv) /\ (~policy.gdpr => SortedInv)
      /\ (applied => todo = {})
  BY DEF TiersInv
<1>1. Tiering!KeptWholeAndScrubbed
  <2>1. policy.gdpr => \A n \in DOMAIN files : n[1] # "hot" => files[n].scrubbed
    BY <1>0 DEF ScrubInv
  <2>2. ASSUME ~cut, NEW b \in 1..batches,
               b \notin expunged /\ (policy.purge = -1 \/ day - born[b] < policy.purge)
        PROVE  /\ \E t \in Tiering!Tiers : <<t, b>> \in DOMAIN files /\ files[<<t, b>>].whole
               /\ scrubbing[2] # b => \E u \in Tiering!Tiers : {v \in Tiering!Tiers : <<v, b>> \in DOMAIN files} = {u}
    <3>1. PICK t \in Tiering!Tiers : <<t, b>> \in DOMAIN files /\ files[<<t, b>>].whole
      BY <1>0, <2>2 DEF KeptInv
    <3>2. ASSUME scrubbing[2] # b PROVE {u \in Tiering!Tiers : <<u, b>> \in DOMAIN files} = {t}
      <4>1. ASSUME NEW u \in Tiering!Tiers, <<u, b>> \in DOMAIN files, u # t PROVE FALSE
        <5>1. <<u, b>> # <<t, b>> /\ <<u, b>>[2] = b /\ <<t, b>>[2] = b
          BY <4>1
        <5> QED
          BY <1>0, <2>2, <3>1, <3>2, <4>1, <5>1 DEF KeptInv
      <4> QED
        BY <3>1, <4>1
    <3> QED
      BY <3>1, <3>2
  <2> QED
    BY <2>1, <2>2 DEF Tiering!KeptWholeAndScrubbed
<1>2. Tiering!InTheTierOfItsAge
  BY <1>0 DEF Tiering!InTheTierOfItsAge, SortedInv, Lies
<1>3. Tiering!BundlesAreComplete
  BY <1>0 DEF Tiering!BundlesAreComplete, BundleInv
<1>4. Tiering!RetentionTypeOK
  <2>1. Rotated \subseteq Tiering!ArchiveNames
    BY <1>0, ArchiveIs
  <2>2. now \in 0..MaxDay
    BY <1>0, PolicyIs, TieringAssumption DEF TiersTyped
  <2> QED
    BY <1>0, <2>1, <2>2 DEF TiersTyped, BundleInv, Tiering!RetentionTypeOK
<1> QED
  BY <1>1, <1>2, <1>3, <1>4 DEF Tiering!RetentionHolds

-----------------------------------------------------------------------------

Metas   == {Database!NoMeta} \cup {Database!Meta(a, v) : a \in BOOLEAN, v \in 1..Database!SchemaVersion}
Schemas == [version : 0..Database!SchemaVersion, cols : SUBSET {Database!Columns[i] : i \in DOMAIN Database!Columns},
            meta : Metas]

\* Some of the pages of a database.
Pages(w) ==
    /\ DOMAIN w \subseteq {"schema", "rows"}
    /\ "schema" \in DOMAIN w => w["schema"] \in Schemas
    /\ "rows" \in DOMAIN w => w["rows"] \in SUBSET (1..MaxDecisions)

PcValues      == {"closed", "columns", "add", "version", "insert", "bump", "open"}
BackupSteps   == {"idle", "stat", "vacuum", "prune", "metadata", "rename", "close"}
RestoreSteps  == {"idle", "destination", "probe", "copy", "rename", "stamp", "close", "done"}

StoreTyped ==
    /\ image \in Seq(Database!Images) /\ db \in 0..Len(image) /\ Pages(wal)
    /\ conn \in [Processes -> 0..Len(image)]
    /\ pc \in [Processes -> PcValues] /\ col \in [Processes -> 1..3]
    /\ \A p \in Processes : pc[p] = "closed" <=> conn[p] = 0
    /\ \A p \in Processes : pc[p] = "add" => col[p] <= 2
    /\ \A p \in Processes : pc[p] \notin {"columns", "add"} => col[p] = 1
    /\ issued \in 0..MaxDecisions /\ truth \in Database!Images

Pairings == {"nothing", "log", "connection"}

BackupTyped ==
    /\ backup \in [step : BackupSteps, audit : BOOLEAN]
    /\ backup.step \in {"idle", "stat"} \/ pc["backup"] = "open"
    /\ tmp \in Database!Images \cup {Database!NoFile} /\ out \in Database!Images \cup {Database!NoFile}
    /\ backup.step \in {"prune", "metadata", "rename"} => tmp \in Database!Images

RestoreTyped ==
    /\ copy \in Database!Images \cup {Database!NoFile} /\ restored \in Database!Images \cup {Database!NoFile}
    /\ restore \in [step : RestoreSteps, force : BOOLEAN, probes : BOOLEAN,
                    from : Database!Images \cup {Database!NoFile}]
    /\ restore.step \in {"destination", "probe", "copy"} => restore.from \in Database!Images
    /\ restore.step = "rename" => copy \in Database!Images

CommandsTyped ==
    /\ listening # "none" => pc["run"] = "open"
    /\ mispaired \in Pairings
    /\ BackupTyped /\ RestoreTyped

\* The file at the path, its log, its readers and its history belong together.
Together ==
    /\ \A p \in Processes : conn[p] \in {0, db}
    /\ db = 0 => wal = Database!NoLog
    /\ db # 0 => Database!Reads(db) = truth

\* How far each process has brought the schema.
Progress ==
    \A p \in Processes :
        /\ pc[p] \in {"columns", "add"} => \A i \in 1..col[p] - 1 : Database!Columns[i] \in truth.schema.cols
        /\ pc[p] \in {"version", "insert", "bump", "open"} =>
              \A i \in DOMAIN Database!Columns : Database!Columns[i] \in truth.schema.cols
        /\ pc[p] = "open" => truth.schema.version = Database!SchemaVersion

Honest(file, audit) == IF audit THEN file.rows \in window ELSE file.rows = {}

\* What the backup has at each of its steps.
Snapshot ==
    /\ backup.step = "vacuum" => truth.rows \in window
    /\ backup.step \in {"prune", "metadata", "rename"} => tmp.schema.version = Database!SchemaVersion
    /\ backup.step = "prune" => tmp.rows \in window
    /\ backup.step \in {"metadata", "rename"} => Honest(tmp, backup.audit)
    /\ backup.step = "rename" => tmp.schema.meta = Database!Meta(backup.audit, Database!SchemaVersion)
    /\ out # Database!NoFile =>
          /\ out.schema.version = Database!SchemaVersion /\ out.schema.meta # Database!NoMeta
          /\ Honest(out, out.schema.meta.audit)

DatabaseInv ==
    /\ StoreTyped /\ CommandsTyped
    /\ Database!WellPaired => Together /\ Progress /\ Snapshot

-----------------------------------------------------------------------------

\* The contents of a database, without the braces.
LEMMA ImagesAre == Database!Images = [schema : Schemas, rows : SUBSET (1..MaxDecisions)]
  BY DEF Database!Images, Schemas, Metas

\* Pages over pages over pages.
LEMMA OverAssociates ==
    ASSUME NEW a, NEW b, NEW c
    PROVE  Database!Over(Database!Over(a, b), c) = Database!Over(a, Database!Over(b, c))
  BY DEF Database!Over

\* A content is a schema and rows.
LEMMA ImageParts ==
    ASSUME NEW g \in Database!Images
    PROVE  /\ DOMAIN g = {"schema", "rows"} /\ g = [schema |-> g.schema, rows |-> g.rows]
           /\ g.schema \in Schemas /\ g.rows \in SUBSET (1..MaxDecisions)
           /\ g["schema"] = g.schema /\ g["rows"] = g.rows
  BY ImagesAre

\* A schema and rows are a content.
LEMMA ImageOf ==
    ASSUME NEW s \in Schemas, NEW r \in SUBSET (1..MaxDecisions)
    PROVE  [schema |-> s, rows |-> r] \in Database!Images
  BY ImagesAre

\* Without pages in the log, the file reads as it is.
LEMMA OverNothing ==
    ASSUME NEW g \in Database!Images
    PROVE  Database!Over(Database!NoLog, g) = g
<1>1. DOMAIN Database!NoLog = {}
  BY DEF Database!NoLog
<1>2. g = [x \in DOMAIN g |-> g[x]]
  BY ImagesAre
<1> QED
  BY <1>1, <1>2 DEF Database!Over

\* Under pages of the log, a content stays one.
LEMMA OverImage ==
    ASSUME NEW w, Pages(w), NEW g \in Database!Images
    PROVE  /\ Database!Over(w, g) \in Database!Images
           /\ Database!Over(w, g).schema = IF "schema" \in DOMAIN w THEN w["schema"] ELSE g.schema
           /\ Database!Over(w, g).rows = IF "rows" \in DOMAIN w THEN w["rows"] ELSE g.rows
<1>1. DOMAIN g = {"schema", "rows"} /\ g.schema \in Schemas /\ g.rows \in SUBSET (1..MaxDecisions)
  BY ImageParts
<1> DEFINE s == IF "schema" \in DOMAIN w THEN w["schema"] ELSE g.schema
           r == IF "rows" \in DOMAIN w THEN w["rows"] ELSE g.rows
<1>2. s \in Schemas /\ r \in SUBSET (1..MaxDecisions)
  BY <1>1 DEF Pages
<1>3. Database!Over(w, g) = [x \in {"schema", "rows"} |-> IF x \in DOMAIN w THEN w[x] ELSE g[x]]
  BY <1>1 DEF Database!Over, Pages
<1>4. Database!Over(w, g) = [schema |-> s, rows |-> r]
  BY <1>3
<1> HIDE DEF s, r
<1>5. Database!Over(w, g) \in Database!Images /\ Database!Over(w, g).schema = s /\ Database!Over(w, g).rows = r
  BY <1>2, <1>4, ImageOf
<1> QED
  BY <1>5 DEF s, r

\* Pages over pages are pages.
LEMMA OverPages ==
    ASSUME NEW v, NEW w, Pages(v), Pages(w)
    PROVE  Pages(Database!Over(v, w))
  BY DEF Pages, Database!Over

\* A transaction that writes the schema.
LEMMA SchemaPage ==
    ASSUME NEW s \in Schemas
    PROVE  Pages([schema |-> s]) /\ DOMAIN [schema |-> s] = {"schema"}
  BY DEF Pages

\* A transaction that writes decisions.
LEMMA RowsPage ==
    ASSUME NEW r \in SUBSET (1..MaxDecisions)
    PROVE  Pages([rows |-> r]) /\ DOMAIN [rows |-> r] = {"rows"}
  BY DEF Pages

\* An empty log holds no pages.
LEMMA EmptyLog == Pages(Database!NoLog) /\ DOMAIN Database!NoLog = {}
  BY DEF Pages, Database!NoLog

\* The schema is replaced and the rows stay.
LEMMA OverSchema ==
    ASSUME NEW s \in Schemas, NEW g \in Database!Images
    PROVE  Database!Over([schema |-> s], g) = [schema |-> s, rows |-> g.rows]
<1>1. DOMAIN g = {"schema", "rows"}
  BY ImageParts
<1> QED
  BY <1>1 DEF Database!Over

\* The rows are replaced and the schema stays.
LEMMA OverRows ==
    ASSUME NEW r \in SUBSET (1..MaxDecisions), NEW g \in Database!Images
    PROVE  Database!Over([rows |-> r], g) = [schema |-> g.schema, rows |-> r]
<1>1. DOMAIN g = {"schema", "rows"}
  BY ImageParts
<1> QED
  BY <1>1 DEF Database!Over

\* Metadata change neither rows nor version.
LEMMA WithMeta ==
    ASSUME NEW g \in Database!Images, NEW m \in Metas
    PROVE  LET h == [g EXCEPT !.schema.meta = m] IN
           /\ h \in Database!Images /\ h.rows = g.rows
           /\ h.schema.version = g.schema.version /\ h.schema.meta = m
<1>1. g.schema \in Schemas /\ g.rows \in SUBSET (1..MaxDecisions)
      /\ g = [schema |-> g.schema, rows |-> g.rows]
  BY ImageParts
<1> DEFINE s == [g.schema EXCEPT !.meta = m]
<1>2. s \in Schemas /\ s.version = g.schema.version /\ s.meta = m
  BY <1>1 DEF Schemas
<1>3. [g EXCEPT !.schema.meta = m] = [schema |-> s, rows |-> g.rows]
  BY <1>1
<1> HIDE DEF s
<1> QED
  BY <1>1, <1>2, <1>3, ImageOf

\* A backup without decisions keeps its schema.
LEMMA WithoutRows ==
    ASSUME NEW g \in Database!Images
    PROVE  LET h == [g EXCEPT !.rows = {}] IN
           h \in Database!Images /\ h.rows = {} /\ h.schema = g.schema
  BY ImagesAre

\* The metadata of a backup tell whether it holds decisions.
LEMMA MetaIs ==
    ASSUME NEW a \in BOOLEAN, NEW v \in 1..Database!SchemaVersion
    PROVE  Database!Meta(a, v) \in Metas /\ Database!Meta(a, v) # Database!NoMeta /\ Database!Meta(a, v).audit = a
<1>1. Database!Meta(a, v).kind = "meta" /\ Database!NoMeta.kind = "none" /\ Database!Meta(a, v).audit = a
  BY DEF Database!Meta, Database!NoMeta
<1>2. Database!Meta(a, v) \in Metas
  BY DEF Metas
<1> QED
  BY <1>1, <1>2

\* The constants of the store package.
LEMMA Constants ==
    /\ Database!SchemaVersion = 2 /\ Len(Database!Columns) = 2 /\ DOMAIN Database!Columns = 1..2
    /\ Database!Columns[1] = "agent_session_id" /\ Database!Columns[2] = "agent_name"
    /\ Database!Fresh \in Database!Images /\ Database!FirstRelease \in Database!Images /\ Database!OldBackup \in Database!Images
    /\ Database!Fresh.schema.version = 0
<1>1. Database!SchemaVersion = 2 /\ Len(Database!Columns) = 2 /\ DOMAIN Database!Columns = 1..2
      /\ Database!Columns[1] = "agent_session_id" /\ Database!Columns[2] = "agent_name"
  BY DEF Database!SchemaVersion, Database!Columns
<1>2. Database!Fresh \in Database!Images
  BY <1>1 DEF Database!Images, Database!Fresh
<1>3. Database!FirstRelease \in Database!Images
  BY <1>1 DEF Database!Images, Database!FirstRelease
<1>4. Database!Meta(FALSE, 1) \in Metas
  <2>1. 1 \in 1..Database!SchemaVersion /\ FALSE \in BOOLEAN
    BY <1>1
  <2> QED
    BY <2>1, MetaIs, Zenon
<1>5. Database!OldBackup \in Database!Images
  BY <1>3, <1>4, WithMeta DEF Database!OldBackup
<1> QED
  BY <1>1, <1>2, <1>3, <1>5 DEF Database!Fresh

\* What a process reads has the type of a database.
LEMMA ReadsTyped ==
    ASSUME StoreTyped, NEW p \in Processes, conn[p] # 0
    PROVE  /\ conn[p] \in 1..Len(image) /\ image[conn[p]] \in Database!Images
           /\ Database!Content(p) \in Database!Images /\ Database!Content(p).schema \in Schemas
           /\ Database!Content(p).rows \in SUBSET (1..MaxDecisions)
<1>1. conn[p] \in 1..Len(image) /\ image[conn[p]] \in Database!Images
  BY DEF StoreTyped
<1>2. Database!Content(p) \in Database!Images
  BY <1>1, OverImage DEF StoreTyped, Database!Content, Database!Reads
<1> QED
  BY <1>1, <1>2, ImageParts

\* A transaction changes the log, and the history with it.
LEMMA TransactTyped ==
    ASSUME StoreTyped, NEW p \in Processes, NEW pages, Pages(pages), Database!Transact(p, pages)
    PROVE  /\ UNCHANGED <<image, db, conn>> /\ Pages(wal') /\ truth' \in Database!Images
           /\ wal' = Database!Over(pages, wal)
           /\ conn[p] = db => truth' = Database!Over(pages, truth)
<1>1. UNCHANGED <<image, db, conn>> /\ wal' = Database!Over(pages, wal)
      /\ truth' = IF conn[p] = db THEN Database!Over(pages, truth) ELSE truth
  BY DEF Database!Transact, Database!Commit
<1> QED
  BY <1>1, OverPages, OverImage DEF StoreTyped

\* A connection that closes leaves the log, or checkpoints it as the last one.
LEMMA DisconnectTyped ==
    ASSUME StoreTyped, NEW p \in Processes, conn[p] # 0, Database!Disconnect(p)
    PROVE  /\ image' \in Seq(Database!Images) /\ Len(image') = Len(image) /\ Pages(wal')
           /\ db' = db /\ conn' = [conn EXCEPT ![p] = 0]
           /\ \/ UNCHANGED <<image, wal>>
              \/ wal' = Database!NoLog /\ image' = [image EXCEPT ![conn[p]] = Database!Reads(conn[p])]
<1>1. db' = db /\ conn' = [conn EXCEPT ![p] = 0]
  BY DEF Database!Disconnect
<1>2. conn[p] \in 1..Len(image) /\ Database!Reads(conn[p]) \in Database!Images
  BY ReadsTyped DEF Database!Content
<1>3. CASE UNCHANGED <<image, wal>>
  BY <1>1, <1>3 DEF StoreTyped
<1>4. CASE wal' = Database!NoLog /\ image' = [image EXCEPT ![conn[p]] = Database!Reads(conn[p])]
  BY <1>1, <1>2, <1>4, EmptyLog DEF StoreTyped
<1> QED
  BY <1>3, <1>4 DEF Database!Disconnect

-----------------------------------------------------------------------------
\* The store's operations keep its types.

\* The types, through an open.
LEMMA OpenStoreTyped ==
    ASSUME StoreTyped, NEW p \in Processes, Database!OpenStore(p)
    PROVE  StoreTyped'
<1>1. /\ pc[p] = "closed" /\ conn[p] = 0 /\ pc' = [pc EXCEPT ![p] = "columns"]
      /\ UNCHANGED <<wal, col, issued>> /\ conn' = [conn EXCEPT ![p] = db']
  BY DEF Database!OpenStore, Database!Connect, Database!Goto
<1>2. image' \in Seq(Database!Images) /\ db' \in 1..Len(image') /\ Len(image) <= Len(image')
  BY Constants DEF Database!OpenStore, Database!Connect, StoreTyped
<1>3. truth' \in Database!Images
  BY Constants DEF Database!OpenStore, StoreTyped
<1>4. conn' \in [Processes -> 0..Len(image')]
  BY <1>1, <1>2 DEF StoreTyped
<1>5. pc' \in [Processes -> PcValues]
  BY <1>1 DEF StoreTyped, PcValues
<1>6. \A q \in Processes : pc'[q] = "closed" <=> conn'[q] = 0
  BY <1>1, <1>2 DEF StoreTyped
<1> QED
  BY <1>1, <1>2, <1>3, <1>4, <1>5, <1>6 DEF StoreTyped, Pages

\* The types, through the ways a process lets go of the database.
LEMMA EndsTyped ==
    ASSUME StoreTyped, NEW p \in Processes,
           (Database!OpenFails(p) /\ conn[p] # 0) \/ Database!CloseStore(p) \/ Database!Die(p)
    PROVE  /\ StoreTyped' /\ pc' = [pc EXCEPT ![p] = "closed"] /\ UNCHANGED <<db, issued, truth>>
           /\ conn' = [conn EXCEPT ![p] = 0]
           /\ \/ UNCHANGED <<image, wal>>
              \/ /\ conn[p] # 0
                 /\ wal' = Database!NoLog /\ image' = [image EXCEPT ![conn[p]] = Database!Reads(conn[p])]
<1>1. /\ pc' = [pc EXCEPT ![p] = "closed"] /\ UNCHANGED <<db, issued, truth>>
      /\ conn' = [conn EXCEPT ![p] = 0]
  BY DEF Database!OpenFails, Database!CloseStore, Database!Die, Database!Goto, Database!Disconnect, Database!Abandon
<1>2. col' \in [Processes -> 1..3] /\ \A q \in Processes : q # p => col'[q] = col[q]
  BY DEF Database!OpenFails, Database!CloseStore, Database!Die, StoreTyped
<1>3. image' \in Seq(Database!Images) /\ Len(image') = Len(image) /\ Pages(wal')
      /\ (\/ UNCHANGED <<image, wal>>
          \/ conn[p] # 0 /\ wal' = Database!NoLog /\ image' = [image EXCEPT ![conn[p]] = Database!Reads(conn[p])])
  <2>1. CASE (Database!OpenFails(p) /\ conn[p] # 0) \/ Database!CloseStore(p)
    <3>1. conn[p] # 0 /\ Database!Disconnect(p)
      BY <2>1 DEF Database!OpenFails, Database!CloseStore, StoreTyped
    <3> QED
      BY <3>1, DisconnectTyped
  <2>2. CASE Database!Die(p)
    BY <2>2 DEF Database!Die, Database!Abandon, StoreTyped, Pages
  <2> QED
    BY <2>1, <2>2
<1>4. col'[p] = 1
  BY DEF Database!OpenFails, Database!CloseStore, Database!Die, StoreTyped
<1>5. pc' \in [Processes -> PcValues] /\ conn' \in [Processes -> 0..Len(image')]
  BY <1>1, <1>3 DEF StoreTyped, PcValues
<1> QED
  BY <1>1, <1>2, <1>3, <1>4, <1>5 DEF StoreTyped

\* The types, through a step of a process that stays connected.
LEMMA GotoTyped ==
    ASSUME StoreTyped, NEW p \in Processes, conn[p] # 0, UNCHANGED conn,
           NEW to \in PcValues, NEW c \in 1..3,
           pc' = [pc EXCEPT ![p] = to], col' = [col EXCEPT ![p] = c],
           to # "closed", to = "add" => c <= 2, to \notin {"columns", "add"} => c = 1
    PROVE  /\ pc' \in [Processes -> PcValues] /\ col' \in [Processes -> 1..3]
           /\ \A q \in Processes : pc'[q] = "closed" <=> conn'[q] = 0
           /\ \A q \in Processes : pc'[q] = "add" => col'[q] <= 2
           /\ \A q \in Processes : pc'[q] \notin {"columns", "add"} => col'[q] = 1
<1>1. pc' \in [Processes -> PcValues] /\ col' \in [Processes -> 1..3]
  BY DEF StoreTyped
<1>2. ASSUME NEW q \in Processes
      PROVE  /\ pc'[q] = "closed" <=> conn'[q] = 0
             /\ pc'[q] = "add" => col'[q] <= 2
             /\ pc'[q] \notin {"columns", "add"} => col'[q] = 1
  <2>1. CASE q = p
    BY <2>1 DEF StoreTyped
  <2>2. CASE q # p
    BY <2>2 DEF StoreTyped
  <2> QED
    BY <2>1, <2>2
<1> QED
  BY <1>1, <1>2

\* The types, through a step of the migration.
LEMMA MigrateTyped ==
    ASSUME StoreTyped, NEW p \in Processes, Database!Migrate(p)
    PROVE  StoreTyped'
<1>1. pc[p] # "closed" /\ conn[p] # 0
  BY DEF Database!Migrate, Database!ProbeColumn, Database!AddColumn, Database!ReadVersion, Database!StampVersion, StoreTyped
<1>2. Database!Content(p).schema \in Schemas
  BY <1>1, ReadsTyped
<1>a. col[p] \in 1..3 /\ col = [col EXCEPT ![p] = col[p]] /\ pc = [pc EXCEPT ![p] = pc[p]]
  BY DEF StoreTyped
<1>b. ASSUME NEW to \in {"columns", "add", "version", "insert", "bump", "open"}, NEW c \in 1..3,
             UNCHANGED <<image, db, conn, issued>>, Pages(wal'), truth' \in Database!Images,
             pc' = [pc EXCEPT ![p] = to], col' = [col EXCEPT ![p] = c],
             to = "add" => c <= 2, to \notin {"columns", "add"} => c = 1
      PROVE  StoreTyped'
  <2>1. to \in PcValues /\ to # "closed"
    BY DEF PcValues
  <2> QED
    BY <1>b, <1>1, <2>1, GotoTyped DEF StoreTyped
<1>3. CASE Database!ProbeColumn(p)
  <2>1. /\ UNCHANGED <<image, db, wal, conn, issued, truth>> /\ pc[p] = "columns"
        /\ \/ col[p] > 2 /\ pc' = [pc EXCEPT ![p] = "version"] /\ col' = [col EXCEPT ![p] = 1]
           \/ col[p] <= 2 /\ pc' = pc /\ col' = [col EXCEPT ![p] = col[p] + 1]
           \/ col[p] <= 2 /\ pc' = [pc EXCEPT ![p] = "add"] /\ col' = col
    BY <1>3, <1>a, Constants DEF Database!ProbeColumn, Database!Goto, Database!sqliteVars
  <2>2. Pages(wal') /\ truth' \in Database!Images /\ UNCHANGED <<image, db, conn, issued>>
    BY <2>1 DEF StoreTyped, Pages
  <2>3. CASE col[p] > 2 /\ pc' = [pc EXCEPT ![p] = "version"] /\ col' = [col EXCEPT ![p] = 1]
    BY <2>2, <2>3, <1>b
  <2>4. CASE col[p] <= 2 /\ pc' = pc /\ col' = [col EXCEPT ![p] = col[p] + 1]
    <3>1. pc' = [pc EXCEPT ![p] = "columns"] /\ col[p] + 1 \in 1..3
      BY <1>a, <2>1, <2>4
    <3> QED
      BY <2>2, <2>4, <3>1, <1>b
  <2>5. CASE col[p] <= 2 /\ pc' = [pc EXCEPT ![p] = "add"] /\ col' = col
    <3>1. col' = [col EXCEPT ![p] = col[p]]
      BY <1>a, <2>5
    <3> QED
      BY <2>2, <2>5, <3>1, <1>a, <1>b
  <2> QED
    BY <2>1, <2>3, <2>4, <2>5
<1>4. ASSUME NEW pages, Pages(pages), Database!Transact(p, pages), UNCHANGED issued,
             \/ pc[p] = "add" /\ pc' = [pc EXCEPT ![p] = "columns"] /\ col' = [col EXCEPT ![p] = col[p] + 1]
             \/ pc[p] \in {"insert", "bump"} /\ pc' = [pc EXCEPT ![p] = "open"] /\ col' = col
      PROVE  StoreTyped'
  <2>1. UNCHANGED <<image, db, conn, issued>> /\ Pages(wal') /\ truth' \in Database!Images
    BY <1>4, TransactTyped
  <2>2. CASE pc[p] = "add" /\ pc' = [pc EXCEPT ![p] = "columns"] /\ col' = [col EXCEPT ![p] = col[p] + 1]
    <3>1. col[p] + 1 \in 1..3
      BY <1>a, <2>2 DEF StoreTyped
    <3> QED
      BY <2>1, <2>2, <3>1, <1>b
  <2>3. CASE pc[p] \in {"insert", "bump"} /\ pc' = [pc EXCEPT ![p] = "open"] /\ col' = col
    <3>1. PICK c \in 1..3 : c = 1
      OBVIOUS
    <3>2. col' = [col EXCEPT ![p] = c]
      BY <1>a, <2>3, <3>1 DEF StoreTyped
    <3> QED
      BY <2>1, <2>3, <3>1, <3>2, <1>b
  <2> QED
    BY <1>4, <2>2, <2>3
<1>5. CASE Database!AddColumn(p)
  <2>1. CASE Database!OpenFails(p)
    BY <1>1, <2>1, EndsTyped
  <2>2. CASE ~Database!OpenFails(p)
    <3> DEFINE new == [Database!Content(p).schema EXCEPT !.cols = @ \cup {Database!Columns[col[p]]}]
    <3>1. Database!Transact(p, [schema |-> new]) /\ pc[p] = "add" /\ UNCHANGED issued
          /\ pc' = [pc EXCEPT ![p] = "columns"] /\ col' = [col EXCEPT ![p] = col[p] + 1]
      BY <1>5, <2>2 DEF Database!AddColumn, Database!Goto
    <3>2. col[p] \in DOMAIN Database!Columns
      BY <3>1, Constants DEF StoreTyped
    <3>3. new \in Schemas
      BY <1>2, <3>2 DEF Schemas
    <3> HIDE DEF new
    <3>4. Pages([schema |-> new])
      BY <3>3, SchemaPage
    <3> QED
      BY <3>1, <3>4, <1>4
  <2> QED
    BY <2>1, <2>2
<1>6. CASE Database!ReadVersion(p)
  <2>1. PICK to : to = CASE Database!Content(p).schema.version = 0 -> "insert"
                         [] Database!Content(p).schema.version < Database!SchemaVersion -> "bump"
                         [] OTHER -> "open"
    OBVIOUS
  <2>2. /\ UNCHANGED <<image, db, wal, conn, issued, truth>> /\ pc[p] = "version" /\ col' = col
        /\ pc' = [pc EXCEPT ![p] = to]
    BY <1>6, <2>1 DEF Database!ReadVersion, Database!Goto, Database!sqliteVars
  <2>3. to \in {"insert", "bump", "open"}
    BY <1>2, <2>1, Constants DEF Schemas
  <2>4. Pages(wal') /\ truth' \in Database!Images /\ col' = [col EXCEPT ![p] = 1]
    BY <2>2, <1>a DEF StoreTyped, Pages
  <2>5. PICK c \in 1..3 : c = 1
    OBVIOUS
  <2>6. col' = [col EXCEPT ![p] = c]
    BY <2>4, <2>5
  <2> QED
    BY <2>2, <2>3, <2>4, <2>5, <2>6, <1>b
<1>7. CASE Database!StampVersion(p)
  <2>1. CASE Database!OpenFails(p)
    BY <1>1, <2>1, EndsTyped
  <2>2. CASE ~Database!OpenFails(p)
    <3> DEFINE new == [Database!Content(p).schema EXCEPT !.version = Database!SchemaVersion]
    <3>1. Database!Transact(p, [schema |-> new]) /\ pc[p] \in {"insert", "bump"} /\ UNCHANGED <<issued, col>>
          /\ pc' = [pc EXCEPT ![p] = "open"]
      BY <1>7, <2>2 DEF Database!StampVersion, Database!Goto
    <3>2. new \in Schemas
      BY <1>2, Constants DEF Schemas
    <3> HIDE DEF new
    <3>3. Pages([schema |-> new])
      BY <3>2, SchemaPage
    <3> QED
      BY <3>1, <3>3, <1>4
  <2> QED
    BY <2>1, <2>2
<1> QED
  BY <1>3, <1>5, <1>6, <1>7 DEF Database!Migrate

\* The types, through a recorded decision.
LEMMA RecordTyped ==
    ASSUME StoreTyped, NEW p \in Processes, Database!RecordDecision(p)
    PROVE  StoreTyped' /\ Pages([rows |-> Database!Content(p).rows \cup {issued'}])
<1>1. conn[p] # 0 /\ issued' \in 1..MaxDecisions /\ UNCHANGED <<pc, col>>
      /\ Database!Transact(p, [rows |-> Database!Content(p).rows \cup {issued'}])
  BY DatabaseAssumption DEF Database!RecordDecision, StoreTyped
<1>2. Database!Content(p).rows \cup {issued'} \in SUBSET (1..MaxDecisions)
  BY <1>1, ReadsTyped
<1>3. Pages([rows |-> Database!Content(p).rows \cup {issued'}])
  BY <1>2, RowsPage
<1>4. UNCHANGED <<image, db, conn>> /\ Pages(wal') /\ truth' \in Database!Images
  BY <1>1, <1>3, TransactTyped
<1> QED
  BY <1>1, <1>3, <1>4 DEF StoreTyped

\* The types, through a checkpoint.
LEMMA CheckpointTyped ==
    ASSUME StoreTyped, NEW p \in Processes, Database!Checkpoint(p),
           UNCHANGED <<pc, col, issued, truth>>
    PROVE  StoreTyped'
<1>1. conn[p] # 0 /\ UNCHANGED <<db, conn>> /\ wal' = Database!NoLog
      /\ image' = [image EXCEPT ![conn[p]] = Database!Reads(conn[p])]
  BY DEF Database!Checkpoint
<1>2. conn[p] \in 1..Len(image) /\ Database!Reads(conn[p]) \in Database!Images
  BY <1>1, ReadsTyped DEF Database!Content
<1>3. image' \in Seq(Database!Images) /\ Len(image') = Len(image)
  BY <1>1, <1>2 DEF StoreTyped
<1> QED
  BY <1>1, <1>3, EmptyLog DEF StoreTyped

\* A restored file takes the path.
Restored ==
    /\ copy \in Database!Images /\ Database!Replace(copy) /\ truth' = copy
    /\ UNCHANGED <<pc, col, issued>>
    /\ mispaired' = "nothing" => wal = Database!NoLog /\ \A p \in Processes : conn[p] = 0

\* The types, through a restore's rename.
LEMMA RestoredTyped ==
    ASSUME StoreTyped, Restored
    PROVE  StoreTyped'
<1>1. image' = Append(image, copy) /\ db' = Len(image') /\ UNCHANGED <<wal, conn>>
  BY DEF Restored, Database!Replace
<1>2. image' \in Seq(Database!Images) /\ Len(image') = Len(image) + 1 /\ Len(image) \in Nat
  BY <1>1 DEF Restored, StoreTyped
<1> QED
  BY <1>1, <1>2 DEF Restored, StoreTyped, Pages

\* What a step does to the database.
StoreAct(p) == Database!OpenStore(p) \/ Database!Migrate(p) \/ Database!RecordDecision(p) \/ Database!CloseStore(p) \/ Database!Die(p)
               \/ (Database!Checkpoint(p) /\ UNCHANGED <<pc, col, issued, truth>>)

StoreStep ==
    \/ \E p \in Processes : StoreAct(p)
    \/ Restored
    \/ UNCHANGED Database!storeVars

\* Every step of the commands does one thing to the store, or nothing.
LEMMA StepsOfTheStore ==
    ASSUME CommandsTyped, [Database!Next]_Database!vars
    PROVE  StoreStep
<1>1. {"run", "backup", "restore"} \subseteq Processes
  BY DatabaseAssumption DEF Database!Commands, AllCommands
<1>2. CASE Database!RenameRestored
  <2>1. /\ restore.step = "rename" /\ Database!Replace(copy) /\ truth' = copy
        /\ UNCHANGED <<pc, col, issued>>
        /\ mispaired' = "nothing" => wal = Database!NoLog /\ \A p \in Processes : conn[p] = 0
    BY <1>2 DEF Database!RenameRestored
  <2> QED
    BY <2>1 DEF Restored, CommandsTyped, RestoreTyped, StoreStep
<1>3. CASE Database!StartRun \/ Database!Listen \/ Database!Serve \/ Database!StopRun \/ Database!KillRun
  BY <1>1, <1>3 DEF StoreStep, StoreAct, Database!StartRun, Database!Listen, Database!Serve, Database!StopRun, Database!KillRun
<1>4. CASE Database!StartBackup \/ Database!StatBackup \/ Database!VacuumInto \/ Database!Prune \/ Database!WriteMetadata
             \/ Database!RenameBackup \/ Database!BackupFails \/ Database!EndBackup \/ Database!KillBackup
  BY <1>1, <1>4 DEF StoreStep, StoreAct, Database!StartBackup, Database!StatBackup, Database!VacuumInto, Database!Prune,
     Database!WriteMetadata, Database!RenameBackup, Database!BackupFails, Database!EndBackup, Database!KillBackup
<1>5. CASE Database!GateDestination \/ Database!GateRunning \/ Database!CopySource \/ Database!RestoreFails \/ Database!StampRestored
             \/ Database!EndRestore \/ Database!KillRestore
  BY <1>1, <1>5 DEF StoreStep, StoreAct, Database!GateDestination, Database!GateRunning, Database!CopySource, Database!RestoreFails,
     Database!StampRestored, Database!EndRestore, Database!KillRestore
<1>6. ASSUME NEW kind, NEW force, NEW probes, NEW sameRelease,
             Database!StartRestore(kind, force, probes, sameRelease)
      PROVE  StoreStep
  BY <1>6 DEF StoreStep, Database!StartRestore
<1>7. CASE (\E p \in Processes : Database!Opening(p)) \/ Database!Checkpoints
  BY <1>7 DEF StoreStep, StoreAct, Database!Opening, Database!Checkpoints
<1>8. CASE UNCHANGED Database!vars
  BY <1>8 DEF Database!vars, StoreStep
<1> QED
  BY <1>2, <1>3, <1>4, <1>5, <1>6, <1>7, <1>8 DEF Database!Next

\* The types, through any of these.
LEMMA StoreTypedStep ==
    ASSUME StoreTyped, StoreStep
    PROVE  StoreTyped'
<1>1. CASE Restored
  BY <1>1, RestoredTyped
<1>2. CASE UNCHANGED Database!storeVars
  BY <1>2 DEF Database!storeVars, Database!sqliteVars, StoreTyped, Pages
<1>3. ASSUME NEW p \in Processes, StoreAct(p) PROVE StoreTyped'
  BY <1>3, OpenStoreTyped, MigrateTyped, RecordTyped, EndsTyped, CheckpointTyped DEF StoreAct
<1> QED
  BY <1>1, <1>2, <1>3 DEF StoreStep

-----------------------------------------------------------------------------
\* The path reads its history.

\* Whoever is connected reads what the transactions made.
LEMMA ReadsTruth ==
    ASSUME StoreTyped, Together, NEW p \in Processes, conn[p] # 0
    PROVE  db # 0 /\ conn[p] = db /\ Database!Content(p) = truth
  BY DEF StoreTyped, Together, Database!Content

\* A transaction is one of the file at the path.
LEMMA TransactTogether ==
    ASSUME StoreTyped, Together, NEW p \in Processes, conn[p] # 0, NEW pages, Pages(pages),
           Database!Transact(p, pages)
    PROVE  Together' /\ truth' = Database!Over(pages, truth)
<1>1. /\ UNCHANGED <<image, db, conn>> /\ wal' = Database!Over(pages, wal)
      /\ truth' = Database!Over(pages, truth)
  BY TransactTyped, ReadsTruth
<1>2. Database!Over(wal', image'[db']) = Database!Over(pages, Database!Over(wal, image[db]))
  BY <1>1, OverAssociates
<1>3. db # 0 /\ Database!Over(wal, image[db]) = truth
  BY ReadsTruth DEF Together, Database!Reads
<1> QED
  BY <1>1, <1>2, <1>3 DEF Together, Database!Reads

\* Letting go of the database does not change what it reads.
LEMMA EndsTogether ==
    ASSUME StoreTyped, Together, NEW p \in Processes, UNCHANGED <<db, truth>>,
           conn' = [conn EXCEPT ![p] = 0],
           \/ UNCHANGED <<image, wal>>
           \/ /\ conn[p] # 0
              /\ wal' = Database!NoLog /\ image' = [image EXCEPT ![conn[p]] = Database!Reads(conn[p])]
    PROVE  Together'
<1>1. \A q \in Processes : conn'[q] \in {0, db'}
  BY DEF StoreTyped, Together
<1>2. CASE UNCHANGED <<image, wal>>
  BY <1>1, <1>2 DEF Together, Database!Reads
<1>3. CASE conn[p] # 0 /\ wal' = Database!NoLog /\ image' = [image EXCEPT ![conn[p]] = Database!Reads(conn[p])]
  <2>1. db # 0 /\ conn[p] = db /\ Database!Reads(db) = truth /\ conn[p] \in 1..Len(image) /\ truth \in Database!Images
    BY <1>3, ReadsTruth, ReadsTyped DEF Together, StoreTyped
  <2>2. image'[db'] = truth
    BY <1>3, <2>1 DEF StoreTyped
  <2>3. Database!Over(wal', image'[db']) = truth
    BY <1>3, <2>1, <2>2, OverNothing
  <2> QED
    BY <1>1, <1>3, <2>1, <2>3 DEF Together, Database!Reads
<1> QED
  BY <1>2, <1>3

\* An open makes a database only where there was none, and nobody has it open.
LEMMA OpenStoreTogether ==
    ASSUME StoreTyped, Together, NEW p \in Processes, Database!OpenStore(p)
    PROVE  /\ Together' /\ pc' = [pc EXCEPT ![p] = "columns"] /\ col' = col /\ col[p] = 1
           /\ truth' # truth => \A q \in Processes : pc[q] = "closed"
<1>1. /\ pc[p] = "closed" /\ conn[p] = 0 /\ pc' = [pc EXCEPT ![p] = "columns"]
      /\ UNCHANGED <<wal, col, issued>> /\ conn' = [conn EXCEPT ![p] = db']
      /\ col[p] = 1
  BY DEF Database!OpenStore, Database!Connect, Database!Goto, StoreTyped
<1>2. CASE db = 0
  <2>1. image' = Append(image, Database!Fresh) /\ db' = Len(image') /\ truth' = Database!Fresh
    BY <1>2 DEF Database!OpenStore, Database!Connect
  <2>2. Len(image') = Len(image) + 1 /\ Len(image) \in Nat /\ image'[Len(image) + 1] = Database!Fresh
    BY <2>1 DEF StoreTyped
  <2>3. wal' = Database!NoLog /\ Database!Over(Database!NoLog, Database!Fresh) = Database!Fresh
    BY <1>1, <1>2, OverNothing, Constants DEF Together
  <2>4. \A q \in Processes : conn[q] = 0 /\ pc[q] = "closed"
    BY <1>2 DEF Together, StoreTyped
  <2>5. \A q \in Processes : conn'[q] \in {0, db'}
    BY <1>1, <2>4 DEF StoreTyped
  <2>6. db' # 0 /\ image'[db'] = Database!Fresh
    BY <2>1, <2>2
  <2> QED
    BY <1>1, <2>1, <2>3, <2>4, <2>5, <2>6 DEF Together, Database!Reads
<1>3. CASE db # 0
  <2>1. UNCHANGED <<image, db, wal, truth>>
    BY <1>1, <1>3 DEF Database!OpenStore, Database!Connect
  <2> QED
    BY <1>1, <1>3, <2>1 DEF Together, Database!Reads, StoreTyped
<1> QED
  BY <1>2, <1>3

\* What one step of the migration does to the schema.
LEMMA MigrateTogether ==
    ASSUME StoreTyped, Together, NEW p \in Processes, Database!Migrate(p)
    PROVE  /\ Together'
           /\ \/ /\ pc' = [pc EXCEPT ![p] = "closed"] /\ truth' = truth
                 /\ col' = [col EXCEPT ![p] = 1]
              \/ Database!ProbeColumn(p) \/ Database!ReadVersion(p)
              \/ /\ pc[p] = "add" /\ pc' = [pc EXCEPT ![p] = "columns"]
                 /\ col' = [col EXCEPT ![p] = col[p] + 1]
                 /\ truth' = [schema |-> [truth.schema EXCEPT !.cols = @ \cup {Database!Columns[col[p]]}],
                              rows |-> truth.rows]
              \/ /\ pc[p] \in {"insert", "bump"} /\ pc' = [pc EXCEPT ![p] = "open"] /\ col' = col
                 /\ truth' = [schema |-> [truth.schema EXCEPT !.version = Database!SchemaVersion],
                              rows |-> truth.rows]
<1>1. pc[p] # "closed" /\ conn[p] # 0
  BY DEF Database!Migrate, Database!ProbeColumn, Database!AddColumn, Database!ReadVersion, Database!StampVersion, StoreTyped
<1>2. Database!Content(p) = truth /\ truth \in Database!Images /\ truth.schema \in Schemas
  BY <1>1, ReadsTruth, ImageParts DEF StoreTyped
<1>3. CASE Database!ProbeColumn(p) \/ Database!ReadVersion(p)
  <2>1. UNCHANGED <<image, db, wal, conn, truth>>
    BY <1>3 DEF Database!ProbeColumn, Database!ReadVersion, Database!sqliteVars
  <2> QED
    BY <1>3, <2>1 DEF Together, Database!Reads
<1>4. CASE Database!OpenFails(p)
  <2>1. Together'
    BY <1>1, <1>4, EndsTyped, EndsTogether
  <2> QED
    BY <1>4, <2>1 DEF Database!OpenFails, Database!Goto
<1>5. CASE Database!AddColumn(p) /\ ~Database!OpenFails(p)
  <2> DEFINE new == [truth.schema EXCEPT !.cols = @ \cup {Database!Columns[col[p]]}]
  <2>1. Database!Transact(p, [schema |-> new]) /\ pc[p] = "add"
        /\ pc' = [pc EXCEPT ![p] = "columns"] /\ col' = [col EXCEPT ![p] = col[p] + 1]
    BY <1>2, <1>5 DEF Database!AddColumn, Database!Goto
  <2>2. col[p] \in DOMAIN Database!Columns
    BY <2>1, Constants DEF StoreTyped
  <2>3. new \in Schemas
    BY <1>2, <2>2 DEF Schemas
  <2> HIDE DEF new
  <2>4. Together' /\ truth' = Database!Over([schema |-> new], truth)
    BY <1>1, <2>1, <2>3, SchemaPage, TransactTogether
  <2>5. truth' = [schema |-> new, rows |-> truth.rows]
    BY <1>2, <2>3, <2>4, OverSchema
  <2> QED
    BY <2>1, <2>4, <2>5 DEF new
<1>6. CASE Database!StampVersion(p) /\ ~Database!OpenFails(p)
  <2> DEFINE new == [truth.schema EXCEPT !.version = Database!SchemaVersion]
  <2>1. Database!Transact(p, [schema |-> new]) /\ pc[p] \in {"insert", "bump"} /\ col' = col
        /\ pc' = [pc EXCEPT ![p] = "open"]
    BY <1>2, <1>6 DEF Database!StampVersion, Database!Goto
  <2>2. new \in Schemas
    BY <1>2, Constants DEF Schemas
  <2> HIDE DEF new
  <2>3. Together' /\ truth' = Database!Over([schema |-> new], truth)
    BY <1>1, <2>1, <2>2, SchemaPage, TransactTogether
  <2>4. truth' = [schema |-> new, rows |-> truth.rows]
    BY <1>2, <2>2, <2>3, OverSchema
  <2> QED
    BY <2>1, <2>3, <2>4 DEF new
<1> QED
  BY <1>3, <1>4, <1>5, <1>6 DEF Database!Migrate

\* A decision adds to the rows alone.
LEMMA RecordTogether ==
    ASSUME StoreTyped, Together, NEW p \in Processes, Database!RecordDecision(p)
    PROVE  /\ Together' /\ UNCHANGED <<pc, col>>
           /\ truth' = [schema |-> truth.schema, rows |-> Database!Content(p).rows \cup {issued'}]
<1>1. conn[p] # 0 /\ Database!Transact(p, [rows |-> Database!Content(p).rows \cup {issued'}])
      /\ issued' \in 1..MaxDecisions /\ UNCHANGED <<pc, col>>
  BY DatabaseAssumption DEF Database!RecordDecision, StoreTyped
<1>2. PICK r : r = Database!Content(p).rows \cup {issued'}
  OBVIOUS
<1>3. r \in SUBSET (1..MaxDecisions)
  BY <1>1, <1>2, ReadsTyped
<1>4. Pages([rows |-> r]) /\ Database!Transact(p, [rows |-> r])
  BY <1>1, <1>2, <1>3, RowsPage
<1>5. Together' /\ truth' = Database!Over([rows |-> r], truth)
  BY <1>1, <1>4, TransactTogether
<1>6. truth' = [schema |-> truth.schema, rows |-> r]
  BY <1>3, <1>5, OverRows DEF StoreTyped
<1> QED
  BY <1>1, <1>2, <1>5, <1>6

\* How far one process has brought a schema.
Brought(p, schema) ==
    /\ pc[p] \in {"columns", "add"} => \A i \in 1..col[p] - 1 : Database!Columns[i] \in schema.cols
    /\ pc[p] \in {"version", "insert", "bump", "open"} =>
          \A i \in DOMAIN Database!Columns : Database!Columns[i] \in schema.cols
    /\ pc[p] = "open" => schema.version = Database!SchemaVersion

Grows == /\ truth.schema.cols \subseteq truth'.schema.cols
         /\ truth'.schema.version \in {truth.schema.version, Database!SchemaVersion}

\* Progress, process by process.
LEMMA BroughtByAll == Progress <=> \A p \in Processes : Brought(p, truth.schema)
  BY DEF Progress, Brought

\* The schema only grows, so that the others have lost nothing.
LEMMA OthersProgress ==
    ASSUME StoreTyped, Progress, NEW p \in Processes, NEW to, NEW c, Grows,
           pc' = [pc EXCEPT ![p] = to], col' = [col EXCEPT ![p] = c],
           /\ to \in {"columns", "add"} => \A i \in 1..c - 1 : Database!Columns[i] \in truth'.schema.cols
           /\ to \in {"version", "insert", "bump", "open"} =>
                 \A i \in DOMAIN Database!Columns : Database!Columns[i] \in truth'.schema.cols
           /\ to = "open" => truth'.schema.version = Database!SchemaVersion
    PROVE  Progress'
<1>1. ASSUME NEW q \in Processes, q # p
      PROVE  pc'[q] = pc[q] /\ col'[q] = col[q]
  BY <1>1 DEF StoreTyped
<1>2. pc'[p] = to /\ col'[p] = c
  BY DEF StoreTyped
<1> QED
  BY <1>1, <1>2, Constants DEF Progress, Grows

\* The version was read when all columns were there.
LEMMA ReadVersionProgress ==
    ASSUME StoreTyped, Together, Progress, NEW p \in Processes, Database!ReadVersion(p)
    PROVE  Progress'
<1>1. pc[p] = "version" /\ conn[p] # 0
  BY DEF Database!ReadVersion, StoreTyped
<1>2. Database!Content(p) = truth /\ truth.schema \in Schemas
  BY <1>1, ReadsTruth, ImageParts DEF StoreTyped
<1>3. PICK to : to = CASE truth.schema.version = 0 -> "insert"
                       [] truth.schema.version < Database!SchemaVersion -> "bump"
                       [] OTHER -> "open"
  OBVIOUS
<1>4. pc' = [pc EXCEPT ![p] = to] /\ col' = [col EXCEPT ![p] = col[p]] /\ truth' = truth
  BY <1>2, <1>3 DEF Database!ReadVersion, Database!Goto, StoreTyped
<1>5. to \in {"insert", "bump", "open"} /\ (to = "open" => truth.schema.version = Database!SchemaVersion)
  BY <1>2, <1>3, Constants DEF Schemas
<1>6. \A i \in DOMAIN Database!Columns : Database!Columns[i] \in truth.schema.cols
  BY <1>1 DEF Progress
<1> QED
  BY <1>4, <1>5, <1>6, OthersProgress DEF Grows

\* A column that the probe passes is there.
LEMMA ProbeProgress ==
    ASSUME StoreTyped, Together, Progress, NEW p \in Processes, Database!ProbeColumn(p)
    PROVE  Progress'
<1>1. pc[p] = "columns" /\ conn[p] # 0 /\ col[p] \in 1..3 /\ truth' = truth
      /\ pc = [pc EXCEPT ![p] = "columns"] /\ col = [col EXCEPT ![p] = col[p]]
  BY DEF Database!ProbeColumn, StoreTyped
<1>2. Database!Content(p) = truth
  BY <1>1, ReadsTruth
<1>3. \A i \in 1..col[p] - 1 : Database!Columns[i] \in truth.schema.cols
  BY <1>1 DEF Progress
<1>4. CASE col[p] > 2 /\ pc' = [pc EXCEPT ![p] = "version"] /\ col' = [col EXCEPT ![p] = 1]
  <2>1. \A i \in DOMAIN Database!Columns : Database!Columns[i] \in truth.schema.cols
    BY <1>1, <1>3, <1>4, Constants
  <2> QED
    BY <1>1, <1>4, <2>1, OthersProgress DEF Grows
<1>5. CASE col[p] <= 2 /\ Database!Columns[col[p]] \in truth.schema.cols /\ pc' = pc
           /\ col' = [col EXCEPT ![p] = col[p] + 1]
  <2>1. PICK c : c = col[p] + 1
    OBVIOUS
  <2>2. \A i \in 1..c - 1 : Database!Columns[i] \in truth.schema.cols
    BY <1>1, <1>3, <1>5, <2>1
  <2> QED
    BY <1>1, <1>5, <2>1, <2>2, OthersProgress DEF Grows
<1>6. CASE pc' = [pc EXCEPT ![p] = "add"] /\ col' = col
  BY <1>1, <1>3, <1>6, OthersProgress DEF Grows
<1> QED
  BY <1>1, <1>2, <1>4, <1>5, <1>6, Constants DEF Database!ProbeColumn, Database!Goto

\* Each step of the migration brings the schema as far as it says.
LEMMA MigrateProgress ==
    ASSUME StoreTyped, Together, Progress, NEW p \in Processes, Database!Migrate(p)
    PROVE  Progress'
<1>1. truth \in Database!Images /\ truth.schema \in Schemas
  BY ImageParts DEF StoreTyped
<1>2. CASE /\ pc' = [pc EXCEPT ![p] = "closed"] /\ truth' = truth
           /\ col' = [col EXCEPT ![p] = 1]
  BY <1>2, OthersProgress DEF Grows
<1>3. CASE /\ pc[p] = "add" /\ pc' = [pc EXCEPT ![p] = "columns"]
           /\ col' = [col EXCEPT ![p] = col[p] + 1]
           /\ truth' = [schema |-> [truth.schema EXCEPT !.cols = @ \cup {Database!Columns[col[p]]}],
                        rows |-> truth.rows]
  <2>1. PICK c : c = col[p] + 1
    OBVIOUS
  <2>2. truth'.schema.cols = truth.schema.cols \cup {Database!Columns[col[p]]}
        /\ truth'.schema.version = truth.schema.version
    BY <1>1, <1>3 DEF Schemas
  <2>3. \A i \in 1..col[p] - 1 : Database!Columns[i] \in truth.schema.cols
    BY <1>3 DEF Progress
  <2>4. \A i \in 1..c - 1 : Database!Columns[i] \in truth'.schema.cols
    BY <2>1, <2>2, <2>3, SMTT(30) DEF StoreTyped
  <2> QED
    BY <1>3, <2>1, <2>2, <2>4, OthersProgress DEF Grows
<1>4. CASE /\ pc[p] \in {"insert", "bump"} /\ pc' = [pc EXCEPT ![p] = "open"] /\ col' = col
           /\ truth' = [schema |-> [truth.schema EXCEPT !.version = Database!SchemaVersion],
                        rows |-> truth.rows]
  <2>1. truth'.schema.cols = truth.schema.cols /\ truth'.schema.version = Database!SchemaVersion
    BY <1>1, <1>4 DEF Schemas
  <2>2. \A i \in DOMAIN Database!Columns : Database!Columns[i] \in truth.schema.cols
    BY <1>4 DEF Progress
  <2>3. col' = [col EXCEPT ![p] = col[p]]
    BY <1>4 DEF StoreTyped
  <2> QED
    BY <1>4, <2>1, <2>2, <2>3, OthersProgress DEF Grows
<1> QED
  BY <1>2, <1>3, <1>4, MigrateTogether, ReadVersionProgress, ProbeProgress

\* A step of the store keeps the files together and the migrations on their way.
LEMMA StoreStepKeeps ==
    ASSUME StoreTyped, Together, Progress, StoreStep, Database!WellPaired'
    PROVE  Together' /\ Progress'
<1>1. CASE Restored
  <2>1. wal = Database!NoLog /\ \A p \in Processes : conn[p] = 0 /\ pc[p] = "closed"
    BY <1>1 DEF Restored, Database!WellPaired, StoreTyped
  <2>2. image' = Append(image, copy) /\ db' = Len(image') /\ UNCHANGED <<wal, conn, pc>>
        /\ truth' = copy /\ copy \in Database!Images
    BY <1>1 DEF Restored, Database!Replace
  <2>3. Len(image') = Len(image) + 1 /\ Len(image) \in Nat /\ image'[Len(image) + 1] = copy
    BY <2>2 DEF StoreTyped
  <2>4. Database!Over(wal', image'[db']) = copy /\ db' # 0
    BY <2>1, <2>2, <2>3, OverNothing
  <2> QED
    BY <2>1, <2>2, <2>4 DEF Together, Progress, Database!Reads
<1>2. CASE UNCHANGED Database!storeVars
  BY <1>2 DEF Database!storeVars, Database!sqliteVars, Together, Progress, Database!Reads
<1>3. ASSUME NEW p \in Processes, Database!OpenStore(p) PROVE Together' /\ Progress'
  <2>1. /\ Together' /\ pc' = [pc EXCEPT ![p] = "columns"] /\ col' = col /\ col[p] = 1
        /\ truth' # truth => \A q \in Processes : pc[q] = "closed"
    BY <1>3, OpenStoreTogether
  <2>2. CASE truth' = truth
    <3>1. pc'[p] = "columns" /\ col'[p] = 1 /\ \A q \in Processes : q # p => pc'[q] = pc[q]
      BY <2>1 DEF StoreTyped
    <3>2. Progress'
      BY <2>1, <2>2, <3>1 DEF Progress
    <3> QED
      BY <2>1, <3>2
  <2>3. CASE truth' # truth
    <3>1. \A q \in Processes : pc'[q] \in {"closed", "columns"} /\ (pc'[q] = "columns" => col'[q] = 1)
      BY <2>1, <2>3 DEF StoreTyped
    <3> QED
      BY <2>1, <3>1 DEF Progress
  <2> QED
    BY <2>2, <2>3, <2>1
<1>4. ASSUME NEW p \in Processes, Database!CloseStore(p) \/ Database!Die(p) PROVE Together' /\ Progress'
  <2>1. Together' /\ pc' = [pc EXCEPT ![p] = "closed"] /\ truth' = truth
    BY <1>4, EndsTyped, EndsTogether
  <2>2. \A q \in Processes : q # p => col'[q] = col[q]
    BY <1>4 DEF Database!CloseStore, Database!Die, StoreTyped
  <2> QED
    BY <2>1, <2>2 DEF Progress, StoreTyped
<1>5. ASSUME NEW p \in Processes, Database!RecordDecision(p) PROVE Together' /\ Progress'
  <2>1. Together' /\ UNCHANGED <<pc, col>> /\ truth'.schema = truth.schema
    BY <1>5, RecordTogether
  <2> QED
    BY <2>1 DEF Progress
<1>6. ASSUME NEW p \in Processes, Database!Checkpoint(p) /\ UNCHANGED <<pc, col, issued, truth>>
      PROVE Together' /\ Progress'
  <2>1. conn[p] # 0 /\ UNCHANGED <<db, conn>> /\ wal' = Database!NoLog
        /\ image' = [image EXCEPT ![conn[p]] = Database!Reads(conn[p])]
    BY <1>6 DEF Database!Checkpoint
  <2>2. db # 0 /\ conn[p] = db /\ Database!Reads(db) = truth /\ conn[p] \in 1..Len(image) /\ truth \in Database!Images
    BY <2>1, ReadsTruth, ReadsTyped DEF Together, StoreTyped
  <2>3. image'[db'] = truth
    BY <2>1, <2>2 DEF StoreTyped
  <2>4. Database!Over(wal', image'[db']) = truth
    BY <2>1, <2>2, <2>3, OverNothing
  <2> QED
    BY <1>6, <2>1, <2>2, <2>4 DEF Together, Database!Reads, Progress
<1>7. ASSUME NEW p \in Processes, Database!Migrate(p) PROVE Together' /\ Progress'
  BY <1>7, MigrateTogether, MigrateProgress
<1> QED
  BY <1>1, <1>2, <1>3, <1>4, <1>5, <1>6, <1>7 DEF StoreStep, StoreAct

-----------------------------------------------------------------------------
\* The commands keep their types.

\* A process moves nobody else.
LEMMA PcOfOthers ==
    ASSUME NEW p \in Processes, StoreAct(p), StoreTyped
    PROVE  \A q \in Processes : q # p => pc'[q] = pc[q]
  BY DEF StoreAct, Database!OpenStore, Database!Migrate, Database!ProbeColumn, Database!AddColumn, Database!ReadVersion, Database!StampVersion, Database!OpenFails,
     Database!RecordDecision, Database!CloseStore, Database!Die, Database!Goto, StoreTyped

\* The three commands are processes.
LEMMA TheCommands == {"run", "backup", "restore"} \subseteq Processes
  BY DatabaseAssumption DEF Database!Commands, AllCommands

\* The proxy listens only while it has the database open.
LEMMA ListeningStep ==
    ASSUME StoreTyped, listening # "none" => pc["run"] = "open", [Database!Next]_Database!vars
    PROVE  listening' # "none" => pc'["run"] = "open"
<1>1. CASE Database!StartRun
  BY <1>1 DEF Database!StartRun, Database!OpenStore
<1>2. CASE Database!Listen \/ Database!StopRun \/ Database!KillRun
  BY <1>2 DEF Database!Listen, Database!StopRun, Database!KillRun, Database!storeVars
<1>3. CASE Database!Serve
  BY <1>3 DEF Database!Serve, Database!RecordDecision
<1>4. CASE Database!StartBackup \/ Database!EndBackup \/ Database!KillBackup
  <2>1. StoreAct("backup") /\ listening' = listening
    BY <1>4 DEF Database!StartBackup, Database!EndBackup, Database!KillBackup, StoreAct
  <2> QED
    BY <2>1, PcOfOthers, TheCommands
<1>5. CASE Database!StampRestored \/ Database!EndRestore \/ Database!KillRestore
  <2>1. StoreAct("restore") /\ listening' = listening
    BY <1>5 DEF Database!StampRestored, Database!EndRestore, Database!KillRestore, StoreAct
  <2> QED
    BY <2>1, PcOfOthers, TheCommands
<1>6. ASSUME NEW p \in Processes, Database!Opening(p) PROVE listening' # "none" => pc'["run"] = "open"
  <2>1. StoreAct(p) /\ listening' = listening
    BY <1>6 DEF Database!Opening, StoreAct
  <2>2. CASE p = "run"
    BY <1>6, <2>1, <2>2 DEF Database!Opening, Database!Migrate, Database!ProbeColumn, Database!AddColumn, Database!ReadVersion, Database!StampVersion
  <2> QED
    BY <2>1, <2>2, PcOfOthers, TheCommands
<1>7. CASE \/ Database!StatBackup \/ Database!VacuumInto \/ Database!Prune \/ Database!WriteMetadata \/ Database!RenameBackup \/ Database!BackupFails
           \/ Database!GateDestination \/ Database!GateRunning \/ Database!CopySource \/ Database!RenameRestored \/ Database!RestoreFails
           \/ Database!Checkpoints \/ UNCHANGED Database!vars
  BY <1>7 DEF Database!StatBackup, Database!VacuumInto, Database!Prune, Database!WriteMetadata, Database!RenameBackup, Database!BackupFails,
     Database!GateDestination, Database!GateRunning, Database!CopySource, Database!RenameRestored, Database!RestoreFails, Database!Checkpoints, Database!vars, Database!storeVars
<1>8. ASSUME NEW kind, NEW force, NEW probes, NEW sameRelease,
             Database!StartRestore(kind, force, probes, sameRelease)
      PROVE  listening' # "none" => pc'["run"] = "open"
  BY <1>8 DEF Database!StartRestore, Database!storeVars
<1> QED
  BY <1>1, <1>2, <1>3, <1>4, <1>5, <1>6, <1>7, <1>8 DEF Database!Next

\* The types of the backup.
LEMMA BackupTypedStep ==
    ASSUME StoreTyped, BackupTyped, [Database!Next]_Database!vars
    PROVE  BackupTyped'
<1>a. ASSUME UNCHANGED <<backup, tmp, out>>, pc'["backup"] = pc["backup"] PROVE BackupTyped'
  BY <1>a DEF BackupTyped
<1>b. Database!NoBackup \in [step : BackupSteps, audit : BOOLEAN] /\ Database!NoBackup.step = "idle"
  BY DEF Database!NoBackup, BackupSteps
<1>1. CASE Database!StartRun \/ Database!StopRun \/ Database!KillRun
  <2>1. StoreAct("run") /\ UNCHANGED <<backup, tmp, out>>
    BY <1>1 DEF Database!StartRun, Database!StopRun, Database!KillRun, StoreAct, Database!backupVars
  <2> QED
    BY <2>1, <1>a, PcOfOthers, TheCommands
<1>2. CASE Database!Serve
  BY <1>2, <1>a DEF Database!Serve, Database!RecordDecision
<1>3. CASE Database!StampRestored \/ Database!EndRestore \/ Database!KillRestore
  <2>1. StoreAct("restore") /\ UNCHANGED <<backup, tmp, out>>
    BY <1>3 DEF Database!StampRestored, Database!EndRestore, Database!KillRestore, StoreAct, Database!backupVars
  <2> QED
    BY <2>1, <1>a, PcOfOthers, TheCommands
<1>4. CASE \/ Database!Listen \/ Database!GateDestination \/ Database!GateRunning \/ Database!CopySource \/ Database!RenameRestored \/ Database!RestoreFails
           \/ Database!Checkpoints \/ UNCHANGED Database!vars
  BY <1>4, <1>a DEF Database!Listen, Database!GateDestination, Database!GateRunning, Database!CopySource, Database!RenameRestored, Database!RestoreFails,
     Database!Checkpoints, Database!vars, Database!storeVars, Database!backupVars
<1>5. ASSUME NEW kind, NEW force, NEW probes, NEW sameRelease,
             Database!StartRestore(kind, force, probes, sameRelease)
      PROVE  BackupTyped'
  BY <1>5, <1>a DEF Database!StartRestore, Database!storeVars, Database!backupVars
<1>6. ASSUME NEW p \in Processes, Database!Opening(p) PROVE BackupTyped'
  <2>1. StoreAct(p) /\ UNCHANGED <<tmp, out>>
        /\ backup' = IF p = "backup" /\ pc'[p] = "closed" THEN Database!NoBackup ELSE backup
    BY <1>6 DEF Database!Opening, StoreAct
  <2>2. CASE p = "backup"
    <3>1. pc["backup"] # "open"
      BY <1>6, <2>2 DEF Database!Opening, Database!Migrate, Database!ProbeColumn, Database!AddColumn, Database!ReadVersion, Database!StampVersion
    <3> QED
      BY <2>1, <3>1, <1>b DEF BackupTyped
  <2>3. CASE p # "backup"
    BY <2>1, <2>3, <1>a, PcOfOthers, TheCommands
  <2> QED
    BY <2>2, <2>3
<1>7. CASE Database!StartBackup
  <2>1. backup' \in [step : {"stat"}, audit : BOOLEAN] /\ UNCHANGED <<tmp, out>>
    BY <1>7 DEF Database!StartBackup
  <2> QED
    BY <2>1 DEF BackupTyped, BackupSteps
<1>8. CASE Database!StatBackup
  <2>1. PICK to \in {"vacuum", "close"} : backup' = [backup EXCEPT !.step = to]
    BY <1>8 DEF Database!StatBackup, Database!BackupGoes
  <2>2. pc["backup"] = "open" /\ UNCHANGED <<pc, tmp, out>>
    BY <1>8 DEF Database!StatBackup, Database!storeVars
  <2> QED
    BY <2>1, <2>2 DEF BackupTyped, BackupSteps
<1>9. CASE Database!VacuumInto
  <2>1. backup.step = "vacuum" /\ tmp' = Database!Content("backup") /\ backup' = [backup EXCEPT !.step = "prune"]
        /\ UNCHANGED <<pc, out>>
    BY <1>9 DEF Database!VacuumInto, Database!BackupGoes, Database!storeVars
  <2>2. pc["backup"] = "open" /\ conn["backup"] # 0
    BY <2>1, TheCommands DEF BackupTyped, StoreTyped
  <2>3. Database!Content("backup") \in Database!Images
    BY <2>2, ReadsTyped, TheCommands
  <2> QED
    BY <2>1, <2>2, <2>3 DEF BackupTyped, BackupSteps
<1>10. CASE Database!Prune
  <2>1. backup.step = "prune" /\ backup' = [backup EXCEPT !.step = "metadata"] /\ UNCHANGED <<pc, out>>
        /\ tmp' = IF backup.audit THEN tmp ELSE [tmp EXCEPT !.rows = {}]
    BY <1>10 DEF Database!Prune, Database!BackupGoes, Database!storeVars
  <2>2. tmp' \in Database!Images
    BY <2>1, WithoutRows DEF BackupTyped
  <2> QED
    BY <2>1, <2>2 DEF BackupTyped, BackupSteps
<1>11. CASE Database!WriteMetadata
  <2>1. backup.step = "metadata" /\ backup' = [backup EXCEPT !.step = "rename"] /\ UNCHANGED <<pc, out>>
        /\ tmp' = [tmp EXCEPT !.schema.meta = Database!Meta(backup.audit, Database!SchemaVersion)]
    BY <1>11 DEF Database!WriteMetadata, Database!BackupGoes, Database!storeVars
  <2>2. Database!Meta(backup.audit, Database!SchemaVersion) \in Metas
    BY MetaIs, Constants DEF BackupTyped
  <2>3. tmp' \in Database!Images
    BY <2>1, <2>2, WithMeta DEF BackupTyped
  <2> QED
    BY <2>1, <2>3 DEF BackupTyped, BackupSteps
<1>12. CASE Database!RenameBackup
  <2>1. backup.step = "rename" /\ backup' = [backup EXCEPT !.step = "close"] /\ UNCHANGED pc
        /\ out' = tmp /\ tmp' = Database!NoFile
    BY <1>12 DEF Database!RenameBackup, Database!BackupGoes, Database!storeVars
  <2> QED
    BY <2>1 DEF BackupTyped, BackupSteps
<1>13. CASE Database!BackupFails
  <2>1. backup.step \in {"vacuum", "prune", "metadata", "rename"} /\ UNCHANGED <<pc, out>>
        /\ backup' = [backup EXCEPT !.step = "close"] /\ tmp' = Database!NoFile
    BY <1>13 DEF Database!BackupFails, Database!BackupGoes, Database!storeVars
  <2> QED
    BY <2>1 DEF BackupTyped, BackupSteps
<1>14. CASE Database!EndBackup \/ Database!KillBackup
  <2>1. backup' = Database!NoBackup /\ UNCHANGED <<tmp, out>>
    BY <1>14 DEF Database!EndBackup, Database!KillBackup, Database!BackupEnds
  <2> QED
    BY <2>1, <1>b DEF BackupTyped
<1> QED
  BY <1>1, <1>2, <1>3, <1>4, <1>5, <1>6, <1>7, <1>8, <1>9, <1>10, <1>11, <1>12, <1>13, <1>14 DEF Database!Next

\* The types of the restore.
LEMMA RestoreTypedStep ==
    ASSUME BackupTyped, RestoreTyped, [Database!Next]_Database!vars
    PROVE  RestoreTyped'
<1>a. ASSUME UNCHANGED <<restore, copy>>, restored' \in {restored, Database!NoFile} PROVE RestoreTyped'
  BY <1>a DEF RestoreTyped
<1>b. /\ Database!NoRestore.step = "idle"
      /\ Database!NoRestore \in [step : RestoreSteps, force : BOOLEAN, probes : BOOLEAN, from : Database!Images \cup {Database!NoFile}]
  BY DEF Database!NoRestore, RestoreSteps
<1>1. CASE \/ Database!StartRun \/ Database!Listen \/ Database!Serve \/ Database!StopRun \/ Database!KillRun \/ Database!StartBackup \/ Database!StatBackup \/ Database!VacuumInto
           \/ Database!Prune \/ Database!WriteMetadata \/ Database!RenameBackup \/ Database!BackupFails \/ Database!EndBackup \/ Database!KillBackup
           \/ Database!Checkpoints \/ UNCHANGED Database!vars
  <2>1. UNCHANGED <<restore, copy>> /\ restored' \in {restored, Database!NoFile}
    BY <1>1 DEF Database!StartRun, Database!Listen, Database!Serve, Database!StopRun, Database!KillRun, Database!StartBackup, Database!StatBackup, Database!VacuumInto, Database!Prune,
       Database!WriteMetadata, Database!RenameBackup, Database!BackupFails, Database!EndBackup, Database!KillBackup, Database!Checkpoints, Database!vars, Database!restoreVars
  <2> QED
    BY <2>1, <1>a
<1>2. ASSUME NEW kind \in {"backup", "old", "other"}, NEW force \in BOOLEAN, NEW probes \in BOOLEAN,
             NEW sameRelease \in BOOLEAN, Database!StartRestore(kind, force, probes, sameRelease)
      PROVE  RestoreTyped'
  <2>1. PICK from : from = Database!Source(kind)
    OBVIOUS
  <2>2. /\ from # Database!NoFile /\ UNCHANGED <<copy, restored>> /\ restore.step = "idle"
        /\ restore' = [step |-> "destination", force |-> force, probes |-> probes, from |-> from]
    BY <1>2, <2>1 DEF Database!StartRestore
  <2>3. from \in Database!Images
    BY <2>1, <2>2, Constants DEF Database!Source, BackupTyped
  <2> QED
    BY <2>2, <2>3 DEF RestoreTyped, RestoreSteps
<1>3. CASE Database!GateDestination \/ Database!GateRunning
  <2>1. restore.step \in {"destination", "probe"} /\ UNCHANGED <<copy, restored>>
        /\ (restore' = Database!NoRestore \/ \E to \in {"probe", "copy"} : restore' = [restore EXCEPT !.step = to])
    BY <1>3 DEF Database!GateDestination, Database!GateRunning, Database!RestoreEnds, Database!RestoreGoes
  <2> QED
    BY <2>1, <1>b DEF RestoreTyped, RestoreSteps
<1>4. CASE Database!CopySource
  <2>1. restore.step = "copy" /\ UNCHANGED restored /\ copy' = restore.from
        /\ restore' = [restore EXCEPT !.step = "rename"]
    BY <1>4 DEF Database!CopySource, Database!RestoreGoes
  <2> QED
    BY <2>1 DEF RestoreTyped, RestoreSteps
<1>5. CASE Database!RenameRestored
  <2>1. restore.step = "rename" /\ restored' = copy /\ copy' = Database!NoFile
        /\ restore' = [restore EXCEPT !.step = "stamp"]
    BY <1>5 DEF Database!RenameRestored, Database!RestoreGoes
  <2> QED
    BY <2>1 DEF RestoreTyped, RestoreSteps
<1>6. CASE Database!RestoreFails \/ Database!KillRestore
  <2>1. restored' = restored /\ copy' \in {copy, Database!NoFile} /\ restore' = Database!NoRestore
    BY <1>6 DEF Database!RestoreFails, Database!KillRestore, Database!RestoreEnds
  <2> QED
    BY <2>1, <1>b DEF RestoreTyped
<1>7. CASE Database!StampRestored \/ Database!EndRestore
  <2>1. UNCHANGED <<copy, restored>> /\ \E to \in {"close", "done"} : restore' = [restore EXCEPT !.step = to]
    BY <1>7 DEF Database!StampRestored, Database!EndRestore, Database!RestoreGoes
  <2> QED
    BY <2>1 DEF RestoreTyped, RestoreSteps
<1>8. ASSUME NEW p \in Processes, Database!Opening(p) PROVE RestoreTyped'
  <2>1. UNCHANGED <<copy, restored>> /\ restore' \in {restore, Database!NoRestore}
    BY <1>8 DEF Database!Opening
  <2> QED
    BY <2>1, <1>b DEF RestoreTyped
<1> QED
  BY <1>1, <1>2, <1>3, <1>4, <1>5, <1>6, <1>7, <1>8 DEF Database!Next

-----------------------------------------------------------------------------
\* The backup is a snapshot.

\* A path that has lost its pairing does not get it back.
LEMMA StaysPaired ==
    ASSUME [Database!Next]_Database!vars, mispaired \in Pairings
    PROVE  mispaired' \in Pairings /\ (Database!WellPaired' => Database!WellPaired)
<1>1. CASE Database!RenameRestored
  BY <1>1 DEF Database!RenameRestored, Database!WellPaired, Pairings
<1>2. CASE \/ Database!StartRun \/ Database!Listen \/ Database!Serve \/ Database!StopRun \/ Database!KillRun \/ Database!StartBackup \/ Database!StatBackup \/ Database!VacuumInto
           \/ Database!Prune \/ Database!WriteMetadata \/ Database!RenameBackup \/ Database!BackupFails \/ Database!EndBackup \/ Database!KillBackup
  BY <1>2 DEF Database!WellPaired, Database!StartRun, Database!Listen, Database!Serve, Database!StopRun, Database!KillRun, Database!StartBackup, Database!StatBackup, Database!VacuumInto,
     Database!Prune, Database!WriteMetadata, Database!RenameBackup, Database!BackupFails, Database!EndBackup, Database!KillBackup, Database!restoreVars
<1>3. CASE \/ Database!GateDestination \/ Database!GateRunning \/ Database!CopySource \/ Database!RestoreFails \/ Database!StampRestored \/ Database!EndRestore
           \/ Database!KillRestore \/ Database!Checkpoints \/ (\E p \in Processes : Database!Opening(p)) \/ UNCHANGED Database!vars
  BY <1>3 DEF Database!WellPaired, Database!GateDestination, Database!GateRunning, Database!CopySource, Database!RestoreFails, Database!StampRestored,
     Database!EndRestore, Database!KillRestore, Database!Checkpoints, Database!Opening, Database!vars, Database!restoreVars
<1>4. ASSUME NEW kind, NEW force, NEW probes, NEW sameRelease,
             Database!StartRestore(kind, force, probes, sameRelease)
      PROVE  mispaired' \in Pairings /\ (Database!WellPaired' => Database!WellPaired)
  BY <1>4 DEF Database!WellPaired, Database!StartRestore
<1> QED
  BY <1>1, <1>2, <1>3, <1>4 DEF Database!Next

\* The backup process sees the rows of the database throughout, and no step but
\* a recorded decision changes them meanwhile.
LEMMA RowsMeanwhile ==
    ASSUME StoreTyped, Together, NEW p \in Processes,
           Database!OpenStore(p) \/ Database!Migrate(p) \/ Database!CloseStore(p) \/ Database!Die(p),
           pc["backup"] = "open"
    PROVE  truth'.rows = truth.rows
<1>1. CASE Database!OpenStore(p)
  BY <1>1, OpenStoreTogether, TheCommands
<1>2. CASE Database!Migrate(p)
  BY <1>2, MigrateTogether DEF Database!ProbeColumn, Database!ReadVersion
<1>3. CASE Database!CloseStore(p) \/ Database!Die(p)
  BY <1>3 DEF Database!CloseStore, Database!Die
<1> QED
  BY <1>1, <1>2, <1>3

\* What a step has to leave alone for the backup to be honest.
LEMMA SnapshotFrame ==
    ASSUME Snapshot, UNCHANGED <<tmp, out>>, window \subseteq window',
           backup' = backup \/ backup'.step \notin {"vacuum", "prune", "metadata", "rename"},
           backup'.step = "vacuum" => truth'.rows \in window'
    PROVE  Snapshot'
<1>1. CASE backup' = backup
  BY <1>1 DEF Snapshot, Honest
<1>2. CASE backup'.step \notin {"vacuum", "prune", "metadata", "rename"}
  BY <1>2 DEF Snapshot, Honest
<1> QED
  BY <1>1, <1>2

\* Opens, closes and deaths are no decisions.
LEMMA SnapshotByOthers ==
    ASSUME StoreTyped, BackupTyped, Together, Snapshot, NEW p \in Processes,
           Database!OpenStore(p) \/ Database!Migrate(p) \/ Database!CloseStore(p) \/ Database!Die(p),
           UNCHANGED <<tmp, out, window>>,
           backup' = backup \/ backup'.step \notin {"vacuum", "prune", "metadata", "rename"}
    PROVE  Snapshot'
<1>1. backup'.step = "vacuum" => truth'.rows \in window'
  BY RowsMeanwhile DEF BackupTyped, Snapshot
<1> QED
  BY <1>1, SnapshotFrame

\* A backup holds what the database held while it was made.
LEMMA SnapshotStep ==
    ASSUME StoreTyped, BackupTyped, Together, Progress, Snapshot, [Database!Next]_Database!vars, Database!WellPaired'
    PROVE  Snapshot'
<1>b. Database!NoBackup.step = "idle"
  BY DEF Database!NoBackup
<1>c. truth \in Database!Images
  BY DEF StoreTyped
<1>1. CASE Database!StartRun \/ Database!StopRun \/ Database!KillRun
  <2>1. (Database!OpenStore("run") \/ Database!CloseStore("run") \/ Database!Die("run")) /\ UNCHANGED <<backup, tmp, out, window>>
    BY <1>1 DEF Database!StartRun, Database!StopRun, Database!KillRun, Database!backupVars
  <2> QED
    BY <2>1, SnapshotByOthers, TheCommands
<1>2. CASE Database!StampRestored \/ Database!EndRestore \/ Database!KillRestore
  <2>1. (Database!OpenStore("restore") \/ Database!CloseStore("restore") \/ Database!Die("restore"))
        /\ UNCHANGED <<backup, tmp, out, window>>
    BY <1>2 DEF Database!StampRestored, Database!EndRestore, Database!KillRestore, Database!backupVars
  <2> QED
    BY <2>1, SnapshotByOthers, TheCommands
<1>3. CASE Database!StartBackup \/ Database!EndBackup \/ Database!KillBackup
  <2>1. (Database!OpenStore("backup") \/ Database!CloseStore("backup") \/ Database!Die("backup")) /\ UNCHANGED <<tmp, out, window>>
        /\ backup'.step \in {"idle", "stat"}
    BY <1>3, <1>b DEF Database!StartBackup, Database!EndBackup, Database!KillBackup, Database!BackupEnds
  <2> QED
    BY <2>1, SnapshotByOthers, TheCommands
<1>4. ASSUME NEW p \in Processes, Database!Opening(p) PROVE Snapshot'
  <2>1. Database!Migrate(p) /\ UNCHANGED <<tmp, out, window>> /\ (backup' = backup \/ backup'.step = "idle")
    BY <1>4, <1>b DEF Database!Opening
  <2> QED
    BY <2>1, SnapshotByOthers
<1>5. CASE Database!Serve
  <2>1. /\ Database!RecordDecision("run") /\ UNCHANGED <<backup, tmp, out>>
        /\ window' = IF conn["backup"] = conn["run"]
                       THEN window \cup {Database!Content("run").rows \cup {issued'}} ELSE window
    BY <1>5 DEF Database!Serve
  <2>2. truth' = [schema |-> truth.schema, rows |-> Database!Content("run").rows \cup {issued'}]
    BY <2>1, RecordTogether, TheCommands
  <2>3. conn["run"] = db
    BY <2>1, ReadsTruth, TheCommands DEF Database!RecordDecision, StoreTyped
  <2>4. backup'.step = "vacuum" => conn["backup"] = db
    BY <2>1, ReadsTruth, TheCommands DEF BackupTyped, StoreTyped
  <2> QED
    BY <2>1, <2>2, <2>3, <2>4, SnapshotFrame
<1>6. CASE \/ Database!Listen \/ Database!GateDestination \/ Database!GateRunning \/ Database!CopySource \/ Database!RestoreFails \/ Database!Checkpoints
           \/ UNCHANGED Database!vars
  <2>1. UNCHANGED <<backup, tmp, out, window, truth>>
    BY <1>6 DEF Database!Listen, Database!GateDestination, Database!GateRunning, Database!CopySource, Database!RestoreFails, Database!Checkpoints, Database!vars,
       Database!storeVars, Database!backupVars
  <2> QED
    BY <2>1, SnapshotFrame DEF Snapshot
<1>7. ASSUME NEW kind, NEW force, NEW probes, NEW sameRelease,
             Database!StartRestore(kind, force, probes, sameRelease)
      PROVE  Snapshot'
  <2>1. UNCHANGED <<backup, tmp, out, window, truth>>
    BY <1>7 DEF Database!StartRestore, Database!storeVars, Database!backupVars
  <2> QED
    BY <2>1, SnapshotFrame DEF Snapshot
<1>8. CASE Database!RenameRestored
  <2>1. UNCHANGED <<backup, tmp, out, window>>
    BY <1>8 DEF Database!RenameRestored, Database!backupVars
  <2>2. conn["backup"] = 0
    BY <1>8, TheCommands DEF Database!RenameRestored, Database!WellPaired
  <2>3. backup.step \in {"idle", "stat"}
    BY <2>2, TheCommands DEF BackupTyped, StoreTyped
  <2> QED
    BY <2>1, <2>3, SnapshotFrame
<1>9. CASE Database!StatBackup
  <2>1. /\ pc["backup"] = "open" /\ UNCHANGED <<truth, tmp, out>>
        /\ backup' = [backup EXCEPT !.step = IF out = Database!NoFile THEN "vacuum" ELSE "close"]
        /\ window' = IF out = Database!NoFile THEN {Database!Content("backup").rows} ELSE window
    BY <1>9 DEF Database!StatBackup, Database!BackupGoes, Database!storeVars
  <2>2. Database!Content("backup") = truth
    BY <2>1, ReadsTruth, TheCommands DEF StoreTyped
  <2>3. CASE out = Database!NoFile
    BY <2>1, <2>2, <2>3 DEF Snapshot, BackupTyped
  <2>4. CASE out # Database!NoFile
    <3>1. backup'.step = "close" /\ window' = window
      BY <2>1, <2>4 DEF BackupTyped
    <3> QED
      BY <2>1, <3>1, SnapshotFrame
  <2> QED
    BY <2>3, <2>4
<1>10. CASE Database!VacuumInto
  <2>1. /\ backup.step = "vacuum" /\ pc["backup"] = "open" /\ UNCHANGED <<out, window>>
        /\ tmp' = Database!Content("backup") /\ backup' = [backup EXCEPT !.step = "prune"]
    BY <1>10 DEF Database!VacuumInto, Database!BackupGoes, BackupTyped
  <2>2. tmp' = truth /\ truth.schema.version = Database!SchemaVersion /\ backup'.step = "prune"
    BY <2>1, ReadsTruth, TheCommands DEF StoreTyped, Progress, BackupTyped
  <2>3. tmp'.rows \in window'
    BY <2>1, <2>2 DEF Snapshot
  <2> QED
    BY <2>1, <2>2, <2>3 DEF Snapshot, Honest
<1>11. CASE Database!Prune
  <2>1. /\ backup.step = "prune" /\ UNCHANGED <<out, window>>
        /\ backup'.step = "metadata" /\ backup'.audit = backup.audit
        /\ tmp' = IF backup.audit THEN tmp ELSE [tmp EXCEPT !.rows = {}]
    BY <1>11 DEF Database!Prune, Database!BackupGoes, BackupTyped
  <2>2. tmp'.schema = tmp.schema /\ tmp'.rows = IF backup.audit THEN tmp.rows ELSE {}
    BY <2>1, WithoutRows DEF BackupTyped
  <2> QED
    BY <2>1, <2>2 DEF Snapshot, Honest
<1>12. CASE Database!WriteMetadata
  <2>1. /\ backup.step = "metadata" /\ UNCHANGED <<out, window>> /\ tmp \in Database!Images
        /\ backup'.step = "rename" /\ backup'.audit = backup.audit
        /\ tmp' = [tmp EXCEPT !.schema.meta = Database!Meta(backup.audit, Database!SchemaVersion)]
    BY <1>12 DEF Database!WriteMetadata, Database!BackupGoes, BackupTyped
  <2>2. Database!Meta(backup.audit, Database!SchemaVersion) \in Metas
    BY MetaIs, Constants DEF BackupTyped
  <2>3. /\ tmp'.schema.version = tmp.schema.version /\ tmp'.rows = tmp.rows
        /\ tmp'.schema.meta = Database!Meta(backup.audit, Database!SchemaVersion)
    BY <2>1, <2>2, WithMeta
  <2> QED
    BY <2>1, <2>3 DEF Snapshot, Honest
<1>13. CASE Database!RenameBackup
  <2>1. backup.step = "rename" /\ UNCHANGED window /\ out' = tmp /\ backup'.step = "close"
    BY <1>13 DEF Database!RenameBackup, Database!BackupGoes, BackupTyped
  <2>2. tmp.schema.meta # Database!NoMeta /\ tmp.schema.meta.audit = backup.audit
    BY <2>1, MetaIs, Constants DEF Snapshot, BackupTyped
  <2> QED
    BY <2>1, <2>2 DEF Snapshot, Honest
<1>14. CASE Database!BackupFails
  <2>1. UNCHANGED <<out, window>> /\ backup'.step = "close"
    BY <1>14 DEF Database!BackupFails, Database!BackupGoes, BackupTyped
  <2> QED
    BY <2>1 DEF Snapshot, Honest
<1> QED
  BY <1>1, <1>2, <1>3, <1>4, <1>5, <1>6, <1>7, <1>8, <1>9, <1>10, <1>11, <1>12, <1>13, <1>14 DEF Database!Next

-----------------------------------------------------------------------------

\* A path without a database, or with a first release's, satisfies the invariant.
LEMMA DatabaseStarts == Database!Init => DatabaseInv
<1> SUFFICES ASSUME Database!Init PROVE DatabaseInv
  OBVIOUS
<1>1. image \in Seq(Database!Images) /\ db = Len(image) /\ db \in 0..Len(image) /\ wal = Database!NoLog
  <2>1. <<>> \in Seq(Database!Images) /\ <<Database!FirstRelease>> \in Seq(Database!Images)
    BY Constants
  <2>2. image \in Seq(Database!Images) /\ db = Len(image) /\ wal = Database!NoLog
    BY <2>1 DEF Database!Init
  <2> QED
    BY <2>2
<1>2. truth \in Database!Images /\ (db # 0 => Database!Reads(db) = truth)
  <2>1. CASE image = <<>>
    BY <2>1, <1>1, Constants DEF Database!Init
  <2>2. CASE image = <<Database!FirstRelease>>
    BY <2>2, <1>1, Constants, OverNothing DEF Database!Init, Database!Reads
  <2> QED
    BY <2>1, <2>2 DEF Database!Init
<1>3. StoreTyped
  BY <1>1, <1>2, EmptyLog, DatabaseAssumption DEF Database!Init, StoreTyped, PcValues
<1>4. CommandsTyped
  BY DEF Database!Init, Pairings, CommandsTyped, BackupTyped, RestoreTyped, Database!NoBackup, Database!NoRestore, BackupSteps, RestoreSteps
<1>5. Together /\ Progress
  BY <1>1, <1>2 DEF Database!Init, Together, Progress
<1>6. Snapshot
  BY DEF Database!Init, Snapshot, Database!NoBackup
<1> QED
  BY <1>3, <1>4, <1>5, <1>6 DEF DatabaseInv

\* Every step of the commands keeps the invariant.
LEMMA DatabaseKept == DatabaseInv /\ [Database!Next]_Database!vars => DatabaseInv'
<1> SUFFICES ASSUME DatabaseInv, [Database!Next]_Database!vars PROVE DatabaseInv'
  OBVIOUS
<1>1. StoreTyped /\ CommandsTyped /\ StoreStep
  BY StepsOfTheStore DEF DatabaseInv
<1>2. StoreTyped'
  BY <1>1, StoreTypedStep
<1>3. CommandsTyped'
  BY <1>1, ListeningStep, StaysPaired, BackupTypedStep, RestoreTypedStep DEF CommandsTyped
<1>4. Database!WellPaired' => Together' /\ Progress' /\ Snapshot'
  BY <1>1, StaysPaired, StoreStepKeeps, SnapshotStep DEF DatabaseInv, CommandsTyped
<1> QED
  BY <1>2, <1>3, <1>4 DEF DatabaseInv

\* The invariant implies the properties of the database.
LEMMA DatabaseSays ==
    ASSUME DatabaseInv
    PROVE  /\ Database!OpenIsMigrated /\ Database!BackupIsSnapshot
           /\ Database!ReadsItsHistory /\ Database!TypeOK
<1>1. Database!OpenIsMigrated
  <2> SUFFICES ASSUME Database!WellPaired, NEW p \in Processes, pc[p] = "open"
               PROVE  /\ Database!Content(p).schema.version = Database!SchemaVersion
                      /\ \A i \in DOMAIN Database!Columns :
                            Database!Columns[i] \in Database!Content(p).schema.cols
    BY DEF Database!OpenIsMigrated
  <2>1. Database!Content(p) = truth
    BY ReadsTruth DEF DatabaseInv, StoreTyped
  <2> QED
    BY <2>1 DEF DatabaseInv, Progress
<1>2. Database!BackupIsSnapshot
  BY DEF DatabaseInv, Snapshot, Honest, Database!BackupIsSnapshot
<1>3. Database!ReadsItsHistory
  BY DEF DatabaseInv, Together, Database!ReadsItsHistory
<1>4. Database!TypeOK
  <2>1. DOMAIN wal \subseteq {"schema", "rows"}
    BY DEF DatabaseInv, StoreTyped, Pages
  <2> QED
    BY <2>1 DEF DatabaseInv, StoreTyped, CommandsTyped, BackupTyped, RestoreTyped, Database!TypeOK
<1> QED
  BY <1>1, <1>2, <1>3, <1>4

(***************************************************************************)
(* The three parts together.                                               *)
(***************************************************************************)

HousekeepingInv ==
    /\ part \in {"directory", "database", "tiers"}
    /\ DirectoryInv /\ DatabaseInv /\ TiersInv

\* All parts start in their invariants.
LEMMA HousekeepingStarts == HousekeepingInit => HousekeepingInv
  BY DirectoryStarts, DatabaseStarts, TiersInvInit DEF HousekeepingInit, HousekeepingInv

\* A part that does not run stutters.
LEMMA PartsStep ==
    ASSUME [HousekeepingNext]_allVars
    PROVE  /\ part' = part /\ [Next]_vars /\ [Database!Next]_Database!vars
           /\ [Tiering!RetentionNext]_Tiering!retentionVars
<1>1. UNCHANGED databaseVars => UNCHANGED Database!vars
  BY DEF databaseVars, Database!vars, Database!storeVars, Database!sqliteVars,
         Database!backupVars, Database!restoreVars
<1>2. UNCHANGED tierVars => UNCHANGED Tiering!retentionVars
  BY DEF tierVars, Tiering!retentionVars
<1>3. CASE HousekeepingNext
  BY <1>1, <1>2, <1>3 DEF HousekeepingNext
<1>4. CASE UNCHANGED allVars
  BY <1>1, <1>2, <1>4 DEF allVars
<1> QED
  BY <1>3, <1>4

\* All parts keep them.
LEMMA HousekeepingKept == HousekeepingInv /\ [HousekeepingNext]_allVars => HousekeepingInv'
<1> SUFFICES ASSUME HousekeepingInv, [HousekeepingNext]_allVars PROVE HousekeepingInv'
  OBVIOUS
<1>1. part' = part /\ DirectoryInv' /\ DatabaseInv' /\ TiersInv'
  BY PartsStep, DirectoryKept, DatabaseKept, TiersInvKept DEF HousekeepingInv
<1> QED
  BY <1>1 DEF HousekeepingInv

\* So they hold for ever.
LEMMA HousekeepingInvHolds == HousekeepingSpec => []HousekeepingInv
  BY HousekeepingStarts, HousekeepingKept, PTL DEF HousekeepingSpec

\* The variables of the part that runs have their types, for any policy, any
\* number of files, rows, damages and days (the directory of the audit log and
\* its verifier, Store.Open and its callers, ApplyRetention and its callers).
THEOREM HousekeepingIsTyped == HousekeepingSpec => []HousekeepingTypeOK
<1>1. HousekeepingInv => HousekeepingTypeOK
  BY DirectorySays, DatabaseSays, TiersInvHolds DEF HousekeepingInv, HousekeepingTypeOK
<1> QED
  BY <1>1, HousekeepingInvHolds, PTL

\* Verification raises no false alarm: a directory that only the program wrote
\* to verifies clean after any number of rotations, a purge costs the findings
\* of one line, and VerifyIntegrity accepts whatever verifyChainFiles accepts.
THEOREM NoAlarmIsFalse == HousekeepingSpec => []NoFalseAlarm
<1>1. HousekeepingInv => NoFalseAlarm
  BY DirectorySays DEF HousekeepingInv
<1> QED
  BY <1>1, HousekeepingInvHolds, PTL

\* The first finding of verifyChainFiles is at the first line where the files
\* stop being one chain from genesis, for files of any length: the running state
\* of the walk stands for all the lines it has passed.
THEOREM TheFirstFindingLocates == HousekeepingSpec => []FirstFindingLocates
<1>1. HousekeepingInv => FirstFindingLocates
  BY DirectorySays DEF HousekeepingInv
<1> QED
  BY <1>1, HousekeepingInvHolds, PTL

\* A clean verification shows that the files are a prefix of what was written,
\* unless they diverged from it; with manifests, that the rows a manifest covers
\* are there, and are the very ones when the head is pinned.
THEOREM CleanIsWritten == HousekeepingSpec => []CleanMeansWritten
<1>1. HousekeepingInv => CleanMeansWritten
  BY DirectorySays DEF HousekeepingInv
<1> QED
  BY <1>1, HousekeepingInvHolds, PTL

\* Whoever has the database open finds it migrated, whichever processes opened
\* it at the same time or died in a migration (Store.Open, store.go).
THEOREM OpenedIsMigrated == HousekeepingSpec => []OpenIsMigrated
<1>1. HousekeepingInv => OpenIsMigrated
  BY DatabaseSays DEF HousekeepingInv, OpenIsMigrated
<1> QED
  BY <1>1, HousekeepingInvHolds, PTL

\* A file at the path of a backup holds what the database held at one moment
\* while the backup was made, whoever records decisions or dies (Backup).
THEOREM BackupsAreSnapshots == HousekeepingSpec => []BackupIsSnapshot
<1>1. HousekeepingInv => BackupIsSnapshot
  BY DatabaseSays DEF HousekeepingInv, BackupIsSnapshot
<1> QED
  BY <1>1, HousekeepingInvHolds, PTL

\* What the path of the database reads is changed by transactions and finished
\* restores alone, not by checkpoints, closes, backups or crashes.
THEOREM PathReadsItsHistory == HousekeepingSpec => []ReadsItsHistory
<1>1. HousekeepingInv => ReadsItsHistory
  BY DatabaseSays DEF HousekeepingInv, ReadsItsHistory
<1> QED
  BY <1>1, HousekeepingInvHolds, PTL

\* Archives are kept whole until their time, in the tier of their age, without
\* personal data where the policy says so, and a bundle without an error holds
\* what it listed (ApplyRetention, ArchiveLogs, PurgeLogsOlderThan).
THEOREM ArchivesAreKept == HousekeepingSpec => []RetentionHolds
<1>1. HousekeepingInv => RetentionHolds
  BY TiersInvHolds DEF HousekeepingInv, RetentionHolds
<1> QED
  BY <1>1, HousekeepingInvHolds, PTL

=============================================================================
