------------------------- MODULE DiskPressureProofs -------------------------
(***************************************************************************)
(* Proofs about DiskPressure: that a refusal comes early enough for every  *)
(* row that is still to come, and that archives go only as far as needed,  *)
(* for every volume and every threshold.                                   *)
(***************************************************************************)
EXTENDS DiskPressure, WellFoundedInduction, TLAPS

\* What the constants stand for: sizes, percentages and bounds are numbers.
Numbers ==
    /\ Volumes \subseteq Nat
    /\ WarnPct \in Nat /\ CritPct \in Nat /\ EmergencyPct \in Nat
    /\ WarnFree \in Nat /\ CritFree \in Nat
    /\ MaxInFlight \in Nat /\ MaxBurst \in Nat /\ MaxArchives \in Nat

-----------------------------------------------------------------------------
\* Induction, and the sizes of sequences of archives.

\* Every set of natural numbers that is not empty has a least element.
LEMMA LeastNumber ==
    ASSUME NEW T, T \subseteq Nat, T # {}
    PROVE  \E n \in T : \A k \in T : n <= k
<1> DEFINE Less == OpToRel(<, Nat)
<1>1. IsWellFoundedOn(Less, Nat)
  BY NatLessThanWellFounded
<1>2. \A k, n \in Nat : k < n => <<k, n>> \in Less
  BY DEF OpToRel
<1> HIDE DEF Less
<1>3. PICK n \in T : \A k \in T : ~(<<k, n>> \in Less)
  BY <1>1, WFMin
<1>4. ASSUME NEW k \in T, k < n PROVE FALSE
  <2>1. k \in Nat /\ n \in Nat
    OBVIOUS
  <2>2. <<k, n>> \in Less
    BY <1>2, <1>4, <2>1
  <2> QED
    BY <1>3, <2>2
<1>5. \A k \in T : k \in Nat /\ n \in Nat
  OBVIOUS
<1> QED
  BY <1>4, <1>5

\* A set with 0 and with the successor of each of its numbers has them all.
LEMMA Induction ==
    ASSUME NEW S, 0 \in S, \A n \in Nat : n \in S => n + 1 \in S
    PROVE  Nat \subseteq S
<1> SUFFICES ASSUME Nat \ S # {} PROVE FALSE
  OBVIOUS
<1>1. PICK n \in Nat \ S : \A k \in Nat \ S : n <= k
  BY LeastNumber
<1>2. n # 0 /\ n - 1 \in Nat
  BY <1>1
<1>3. n - 1 \in S
  BY <1>1, <1>2
<1> QED
  BY <1>1, <1>2, <1>3

Archive == [id : Nat, size : Nat]

\* f adds up the sizes of the first N archives, one after the other.
Adds(ar, N, f) == f[0] = 0 /\ \A n \in Nat : n < N => f[n+1] = f[n] + ar[n+1].size

\* f gives the size of each prefix of ar.
SumsOf(ar, f) == f \in [0..Len(ar) -> Nat] /\ Adds(ar, Len(ar), f)

\* What the lemmas below need of a sequence of archives.
LEMMA ArchivesSized ==
    ASSUME NEW ar \in Seq(Archive)
    PROVE  /\ Len(ar) \in Nat
           /\ \A n \in Nat : n < Len(ar) => ar[n+1] \in Archive /\ ar[n+1].size \in Nat
<1>1. Len(ar) \in Nat /\ \A k \in 1..Len(ar) : ar[k] \in Archive
  OBVIOUS
<1>2. \A a \in Archive : a.size \in Nat
  BY DEF Archive
<1>3. ASSUME NEW n \in Nat, n < Len(ar) PROVE ar[n+1] \in Archive
  <2>1. n + 1 \in 1..Len(ar)
    BY <1>1, <1>3
  <2> QED
    BY <1>1, <2>1
<1> QED
  BY <1>1, <1>2, <1>3

\* The sizes of the prefixes exist, and they are all there is to Size.
LEMMA SumsExist ==
    ASSUME NEW ar, NEW N \in Nat, \A n \in Nat : n < N => ar[n+1].size \in Nat
    PROVE  \E f \in [0..N -> Nat] : Adds(ar, N, f)
<1> DEFINE S == {n \in Nat : n <= N => \E f \in [0..n -> Nat] : Adds(ar, n, f)}
<1>1. 0 \in S
  <2> DEFINE z == [k \in 0..0 |-> 0]
  <2>1. z \in [0..0 -> Nat] /\ Adds(ar, 0, z)
    BY DEF Adds
  <2> QED
    BY <2>1
<1>2. ASSUME NEW n \in Nat, n \in S PROVE n + 1 \in S
  <2> SUFFICES ASSUME n + 1 <= N PROVE \E f \in [0..(n+1) -> Nat] : Adds(ar, n + 1, f)
    OBVIOUS
  <2>1. PICK f \in [0..n -> Nat] : Adds(ar, n, f)
    BY <1>2
  <2>2. ar[n+1].size \in Nat
    OBVIOUS
  <2> DEFINE g == [k \in 0..(n+1) |-> IF k = n + 1 THEN f[n] + ar[n+1].size ELSE f[k]]
  <2>3. f[n] \in Nat
    OBVIOUS
  <2>4. g \in [0..(n+1) -> Nat]
    <3> SUFFICES ASSUME NEW k \in 0..(n+1)
                 PROVE  (IF k = n + 1 THEN f[n] + ar[n+1].size ELSE f[k]) \in Nat
      OBVIOUS
    <3>1. CASE k = n + 1
      BY <3>1, <2>2, <2>3
    <3>2. CASE k # n + 1
      <4>1. k \in 0..n
        BY <3>2
      <4> QED
        BY <3>2, <4>1
    <3> QED
      BY <3>1, <3>2
  <2>5. g[0] = 0
    BY <2>1 DEF Adds
  <2>6. ASSUME NEW k \in Nat, k < n + 1 PROVE g[k+1] = g[k] + ar[k+1].size
    <3>1. k \in 0..(n+1) /\ k + 1 \in 0..(n+1) /\ k # n + 1
      BY <2>6
    <3>2. g[k] = f[k]
      BY <3>1
    <3>3. CASE k = n
      BY <3>1, <3>2, <3>3
    <3>4. CASE k < n
      <4>1. g[k+1] = f[k+1]
        BY <3>1, <3>4
      <4> QED
        BY <2>1, <3>2, <3>4, <4>1 DEF Adds
    <3> QED
      BY <3>3, <3>4, <2>6
  <2> HIDE DEF g
  <2>7. Adds(ar, n + 1, g)
    BY <2>5, <2>6 DEF Adds
  <2> QED
    BY <2>4, <2>7
<1>3. N \in S
  <2> HIDE DEF S
  <2> QED
    BY <1>1, <1>2, Induction
<1> QED
  BY <1>3

\* The partial sums of the archives are one function, up to any length.
LEMMA SumsUnique ==
    ASSUME NEW ar, NEW N \in Nat, NEW f, NEW g, Adds(ar, N, f), Adds(ar, N, g)
    PROVE  f[N] = g[N]
<1> DEFINE S == {n \in Nat : n <= N => f[n] = g[n]}
<1>1. 0 \in S
  BY DEF Adds
<1>2. ASSUME NEW n \in Nat, n \in S PROVE n + 1 \in S
  <2> SUFFICES ASSUME n + 1 <= N PROVE f[n+1] = g[n+1]
    OBVIOUS
  <2>1. n < N /\ f[n] = g[n]
    BY <1>2
  <2> QED
    BY <2>1 DEF Adds
<1>3. Nat \subseteq S
  <2> HIDE DEF S
  <2> QED
    BY <1>1, <1>2, Induction
<1> QED
  BY <1>3

\* Size is the last of any function of partial sums.
LEMMA SizeIsSum ==
    ASSUME NEW ar \in Seq(Archive), NEW f, SumsOf(ar, f)
    PROVE  Size(ar) = f[Len(ar)] /\ Size(ar) \in Nat
<1> DEFINE N == Len(ar)
           Sums(h) == h = [n \in 0..N |-> IF n = 0 THEN 0 ELSE h[n-1] + ar[n].size]
           g == CHOOSE h : Sums(h)
<1>0. N \in Nat
  BY ArchivesSized
<1>1. Size(ar) = g[N]
  BY DEF Size
<1> HIDE DEF N
<1>2. Sums(f)
  <2>1. f \in [0..N -> Nat] /\ f[0] = 0
        /\ \A n \in Nat : n < N => f[n+1] = f[n] + ar[n+1].size
    BY DEF SumsOf, Adds, N
  <2>2. ASSUME NEW n \in 0..N
        PROVE  f[n] = IF n = 0 THEN 0 ELSE f[n-1] + ar[n].size
    <3>1. CASE n = 0
      BY <2>1, <3>1
    <3>2. CASE n # 0
      <4>1. n - 1 \in Nat /\ n - 1 < N /\ (n - 1) + 1 = n
        BY <1>0, <3>2
      <4> QED
        BY <2>1, <3>2, <4>1
    <3> QED
      BY <3>1, <3>2
  <2>3. f = [n \in 0..N |-> f[n]]
    BY <2>1
  <2> QED
    BY <2>2, <2>3
<1>3. Sums(g)
  BY <1>2
<1> HIDE DEF g
<1>4. Adds(ar, N, g)
  <2>1. g[0] = 0
    BY <1>0, <1>3
  <2>2. ASSUME NEW n \in Nat, n < N PROVE g[n+1] = g[n] + ar[n+1].size
    <3>1. n + 1 \in 0..N /\ n + 1 # 0 /\ (n + 1) - 1 = n
      BY <1>0, <2>2
    <3>2. g[n+1] = g[(n+1)-1] + ar[n+1].size
      BY <1>3, <3>1
    <3> QED
      BY <3>1, <3>2
  <2> QED
    BY <2>1, <2>2 DEF Adds
<1>5. f \in [0..N -> Nat] /\ Adds(ar, N, f)
  BY DEF SumsOf, N
<1>6. f[N] = g[N]
  BY <1>0, <1>4, <1>5, SumsUnique
<1>7. f[N] \in Nat
  BY <1>0, <1>5
<1> QED
  BY <1>1, <1>6, <1>7 DEF N

\* There is such a function, so Size is a number.
LEMMA SizeIsNat ==
    ASSUME NEW ar \in Seq(Archive)
    PROVE  \E f : SumsOf(ar, f) /\ Size(ar) = f[Len(ar)] /\ Size(ar) \in Nat
<1>1. PICK f : SumsOf(ar, f)
  BY ArchivesSized, SumsExist DEF SumsOf
<1> QED
  BY <1>1, SizeIsSum

\* No archives have no size.
LEMMA SizeEmpty == Size(<<>>) = 0
<1>1. <<>> \in Seq(Archive) /\ Len(<<>>) = 0
  OBVIOUS
<1>2. PICK f : SumsOf(<<>>, f) /\ Size(<<>>) = f[Len(<<>>)]
  BY <1>1, SizeIsNat
<1> QED
  BY <1>1, <1>2 DEF SumsOf, Adds

\* A new archive adds its size.
LEMMA SizeAppend ==
    ASSUME NEW ar \in Seq(Archive), NEW x \in Archive
    PROVE  Size(Append(ar, x)) = Size(ar) + x.size
<1> DEFINE br == Append(ar, x)
           N == Len(ar)
<1>1. br \in Seq(Archive) /\ N \in Nat /\ Len(br) = N + 1 /\ br[N+1] = x
      /\ \A n \in Nat : n < N => br[n+1] = ar[n+1]
  OBVIOUS
<1>2. PICK f : SumsOf(ar, f) /\ Size(ar) = f[N]
  BY SizeIsNat
<1>3. PICK g : SumsOf(br, g) /\ Size(br) = g[N+1]
  BY <1>1, SizeIsNat
<1> HIDE DEF br, N
<1>4. Adds(ar, N, f) /\ Adds(ar, N, g)
  <2>1. Adds(ar, N, f)
    BY <1>2 DEF SumsOf, N
  <2>2. Adds(br, N + 1, g)
    BY <1>1, <1>3 DEF SumsOf
  <2>3. g[0] = 0
    BY <2>2 DEF Adds
  <2>4. ASSUME NEW n \in Nat, n < N PROVE g[n+1] = g[n] + ar[n+1].size
    <3>1. n < N + 1 /\ br[n+1] = ar[n+1]
      BY <1>1, <2>4
    <3> QED
      BY <2>2, <3>1 DEF Adds
  <2> QED
    BY <2>1, <2>3, <2>4 DEF Adds
<1>5. g[N] = f[N]
  BY <1>1, <1>4, SumsUnique
<1>6. g[N+1] = g[N] + x.size
  BY <1>1, <1>3 DEF SumsOf, Adds
<1> QED
  BY <1>2, <1>3, <1>5, <1>6 DEF br

\* What is left when the n oldest archives go, and what the n-th of them frees.
LEMMA SizeRest ==
    ASSUME NEW ar \in Seq(Archive), NEW f, SumsOf(ar, f), NEW n \in 0..Len(ar)
    PROVE  Size(SubSeq(ar, n + 1, Len(ar))) = f[Len(ar)] - f[n]
<1> DEFINE br == SubSeq(ar, n + 1, Len(ar))
           N == Len(ar)
<1>1. br \in Seq(Archive) /\ N \in Nat /\ n \in Nat /\ n <= N /\ Len(br) = N - n
      /\ \A k \in Nat : k < N - n => br[k+1] = ar[n+k+1]
  OBVIOUS
<1>2. PICK g : SumsOf(br, g) /\ Size(br) = g[N-n]
  BY <1>1, SizeIsNat
<1> HIDE DEF br, N
<1>3. /\ f \in [0..N -> Nat] /\ Adds(ar, N, f)
      /\ g \in [0..(N-n) -> Nat] /\ Adds(br, N - n, g)
  BY <1>1, <1>2 DEF SumsOf, N
<1> DEFINE S == {k \in Nat : k <= N - n => f[n+k] = f[n] + g[k]}
<1>4. 0 \in S
  BY <1>1, <1>3 DEF Adds
<1>5. ASSUME NEW k \in Nat, k \in S PROVE k + 1 \in S
  <2> SUFFICES ASSUME k + 1 <= N - n PROVE f[n+(k+1)] = f[n] + g[k+1]
    OBVIOUS
  <2>1. f[n+k] = f[n] + g[k] /\ k < N - n /\ n + k \in Nat /\ n + k < N
    BY <1>1, <1>5
  <2>2. n + (k + 1) = (n + k) + 1
    BY <1>1
  <2>3. f[(n+k)+1] = f[n+k] + ar[(n+k)+1].size
    BY <1>3, <2>1 DEF Adds
  <2>4. g[k+1] = g[k] + ar[(n+k)+1].size
    BY <1>1, <1>3, <2>1 DEF Adds
  <2>5. f[n] \in Nat /\ g[k] \in Nat /\ f[n+k] \in Nat
    BY <1>1, <1>3, <2>1
  <2>6. ar[(n+k)+1].size \in Nat
    BY <2>1, ArchivesSized DEF N
  <2> QED
    BY <2>1, <2>2, <2>3, <2>4, <2>5, <2>6
<1>6. Nat \subseteq S
  <2> HIDE DEF S
  <2> QED
    BY <1>4, <1>5, Induction
<1>7. N - n \in Nat /\ n + (N - n) = N
  BY <1>1
<1>8. f[N] = f[n] + g[N-n]
  BY <1>6, <1>7
<1>9. f[N] \in Nat /\ f[n] \in Nat /\ g[N-n] \in Nat
  BY <1>1, <1>3
<1> QED
  BY <1>2, <1>8, <1>9 DEF br, N

\* The archives from the n-th on: the n-th and those after it.
LEMMA SizeFrom ==
    ASSUME NEW ar \in Seq(Archive), NEW n \in 1..Len(ar)
    PROVE  Size(SubSeq(ar, n, Len(ar))) = ar[n].size + Size(SubSeq(ar, n + 1, Len(ar)))
<1>1. PICK f : SumsOf(ar, f)
  BY SizeIsNat
<1> DEFINE N == Len(ar)
<1>2. N \in Nat /\ n \in Nat /\ n - 1 \in Nat /\ n - 1 \in 0..N /\ n \in 0..N /\ (n - 1) + 1 = n
      /\ n - 1 < N
  BY ArchivesSized
<1>3. Size(SubSeq(ar, (n-1) + 1, N)) = f[N] - f[n-1]
  BY <1>1, <1>2, SizeRest
<1>4. Size(SubSeq(ar, n + 1, N)) = f[N] - f[n]
  BY <1>1, <1>2, SizeRest
<1>5. f[(n-1)+1] = f[n-1] + ar[(n-1)+1].size
  BY <1>1, <1>2 DEF SumsOf, Adds
<1>6. f[N] \in Nat /\ f[n] \in Nat /\ f[n-1] \in Nat
  BY <1>1, <1>2 DEF SumsOf
<1>7. ar[(n-1)+1].size \in Nat
  BY <1>2, ArchivesSized
<1> HIDE DEF N
<1> QED
  BY <1>2, <1>3, <1>4, <1>5, <1>6, <1>7 DEF N

\* Taking archives away frees space.
LEMMA RestIsSmaller ==
    ASSUME NEW ar \in Seq(Archive), NEW n \in 0..Len(ar)
    PROVE  Size(SubSeq(ar, n + 1, Len(ar))) <= Size(ar)
<1>1. PICK f : SumsOf(ar, f) /\ Size(ar) = f[Len(ar)]
  BY SizeIsNat
<1>2. Size(SubSeq(ar, n + 1, Len(ar))) = f[Len(ar)] - f[n]
  BY <1>1, SizeRest
<1>3. Len(ar) \in Nat
  BY ArchivesSized
<1>4. f[Len(ar)] \in Nat /\ f[n] \in Nat
  BY <1>1, <1>3 DEF SumsOf
<1> QED
  BY <1>1, <1>2, <1>4

-----------------------------------------------------------------------------
\* The inductive invariant.

\* The types, the space in use, and the numbers the archives bear.
Typed ==
    /\ setup \in [mode : Modes, ignore : BOOLEAN, mitm : BOOLEAN, total : Volumes]
    /\ other \in Nat /\ active \in Nat /\ archives \in Seq(Archive)
    /\ Used(archives, active) <= setup.total
    /\ status \in Statuses /\ refusing \in BOOLEAN
    /\ inflight \in 0..MaxInFlight /\ since \in 0..MaxBurst /\ made \in 0..MaxArchives
    /\ ticked \in {"no", "blind", "seen"} /\ disturbed \in BOOLEAN /\ lost \in BOOLEAN
    /\ cut.freed \in Nat /\ cut.left \in Nat
    /\ Len(archives) <= made
    /\ \A i \in 1..Len(archives) :
          archives[i].size > 0 /\ archives[i].id = made - Len(archives) + i

\* What the drops of the last tick were for.
Needed ==
    /\ setup.mode = "pause-requests" => Len(archives) = made
    /\ cut.freed > 0 => AtLeast(cut.left + cut.freed, WarnPct)
    /\ cut.more => ~AtLeast(cut.left, WarnPct)

\* The circumstances RowsFit is about.
Calm == setup.mode = "pause-requests" /\ ~setup.ignore /\ ~setup.mitm /\ ~disturbed /\ Headroom

Room == setup.total - Used(archives, active)

\* While requests are admitted there is room for the rows of the rest of the
\* minute, of those in flight then, and for two reports; once they are refused,
\* for those in flight, and for the report of an emergency.  A volume that leaves
\* an emergency has given back the row its report took.
RoomIsLeft ==
    /\ ~lost
    /\ ticked = "no" => ~refusing
    /\ ticked # "blind"
    /\ ticked = "seen" =>
          /\ refusing <=> status \in {"critical", "emergency"}
          /\ ~refusing => Room >= MaxBurst + MaxInFlight + 2 - since
          /\ status = "critical" => inflight <= Room - 1
          /\ status = "emergency" =>
                /\ inflight <= Room
                /\ \A u \in Nat : ~AtLeast(u, EmergencyPct) => u + 2 <= setup.total - inflight

DiskInv == Typed /\ Needed /\ (Calm => RoomIsLeft)

-----------------------------------------------------------------------------
\* The thresholds.

\* A volume that is not p per cent full is emptier than one that is.
LEMMA AtLeastGrows ==
    ASSUME Numbers, Typed, NEW u \in Nat, NEW v \in Nat, NEW p \in Nat,
           AtLeast(u, p), ~AtLeast(v, p)
    PROVE  v < u
<1>1. setup.total \in Nat
  BY DEF Numbers, Typed
<1> DEFINE c == p * setup.total
<1>2. c \in Nat
  BY <1>1
<1>3. u * 100 >= c /\ ~(v * 100 >= c)
  BY DEF AtLeast
<1> HIDE DEF c
<1> QED
  BY <1>2, <1>3

\* What each status says of the percentages.
LEMMA ClassifyMeans ==
    ASSUME Numbers, Typed, NEW u \in Nat
    PROVE  /\ Classify(u) \in {"ok", "degraded", "critical", "emergency"}
           /\ Classify(u) \notin {"critical", "emergency"} => ~AtLeast(u, CritPct)
           /\ Classify(u) = "emergency" => AtLeast(u, EmergencyPct)
           /\ Classify(u) = "critical" => ~AtLeast(u, EmergencyPct)
<1> DEFINE found == classifyDiskStatusFull(u)
<1>1. /\ found \in {"ok", "degraded", "critical"}
      /\ AtLeast(u, CritPct) => found = "critical"
  BY DEF classifyDiskStatusFull
<1> HIDE DEF found
<1>2. Classify(u) =
         CASE found = "ok"                -> "ok"
           [] found # "ok" /\ AtLeast(u, EmergencyPct) -> "emergency"
           [] found # "ok" /\ ~AtLeast(u, EmergencyPct) /\ AtLeast(u, CritPct) -> "critical"
           [] found # "ok" /\ ~AtLeast(u, CritPct) /\ AtLeast(u, WarnPct) -> "degraded"
           [] OTHER -> found
  BY DEF Classify, found
<1> QED
  BY <1>1, <1>2

\* The drop takes the n oldest archives for some n: the last of them with the
\* percentage still at the warning, and none if the percentage is below it; and
\* it stops short of the last archive only below the warning.
LEMMA DropMeans ==
    ASSUME Numbers, Typed, NEW rows \in Nat
    PROVE  \E n \in 0..Len(archives) :
              /\ dropOldestArchives(archives, rows) = SubSeq(archives, n + 1, Len(archives))
              /\ n > 0 => AtLeast(Used(SubSeq(archives, n, Len(archives)), rows), WarnPct)
              /\ n < Len(archives) =>
                    ~AtLeast(Used(SubSeq(archives, n + 1, Len(archives)), rows), WarnPct)
<1> DEFINE N == Len(archives)
           Below(n) == ~AtLeast(Used(SubSeq(archives, n + 1, N), rows), WarnPct)
           enough == {n \in 0..N : Below(n)}
           n == IF enough = {} THEN N ELSE CHOOSE k \in enough : \A j \in enough : k <= j
<1>1. N \in Nat
  BY ArchivesSized DEF Typed
<1>2. dropOldestArchives(archives, rows) = SubSeq(archives, n + 1, N)
  BY DEF dropOldestArchives
<1> HIDE DEF N, Below
<1>3. n \in 0..N /\ (n < N => Below(n)) /\ \A j \in enough : n <= j
  <2>1. CASE enough = {}
    BY <1>1, <2>1
  <2>2. CASE enough # {}
    <3>1. \E k \in enough : \A j \in enough : k <= j
      <4> HIDE DEF enough
      <4>1. enough \subseteq Nat
        BY <1>1 DEF enough
      <4> QED
        BY <2>2, <4>1, LeastNumber
    <3>2. n \in enough /\ \A j \in enough : n <= j
      <4> HIDE DEF enough
      <4> QED
        BY <2>2, <3>1
    <3> HIDE DEF n
    <3> QED
      BY <3>2
  <2> QED
    BY <2>1, <2>2
<1> HIDE DEF n
<1>4. n > 0 => ~Below(n - 1)
  <2> SUFFICES ASSUME n > 0, Below(n - 1) PROVE FALSE
    OBVIOUS
  <2>1. n - 1 \in enough
    BY <1>1, <1>3
  <2> QED
    BY <1>1, <1>3, <2>1
<1>5. n > 0 => (n - 1) + 1 = n
  BY <1>1, <1>3
<1> QED
  BY <1>2, <1>3, <1>4, <1>5 DEF Below, N

-----------------------------------------------------------------------------
\* The steps.

\* The space used and the space left are numbers that fit the volume.
LEMMA SpaceIsNat ==
    ASSUME Numbers, Typed
    PROVE  /\ setup.total \in Nat
           /\ Size(archives) \in Nat
           /\ Used(archives, active) = other + active + Size(archives)
           /\ Used(archives, active) \in Nat /\ Used(archives, active) \in 0..setup.total
           /\ Room \in Nat
<1>1. setup.total \in Nat
  BY DEF Numbers, Typed
<1>2. Size(archives) \in Nat
  BY SizeIsNat DEF Typed
<1>3. Used(archives, active) = other + active + Size(archives)
  BY DEF Used
<1> QED
  BY <1>1, <1>2, <1>3 DEF Typed, Room

\* A tick in terms of how many archives it drops and what its report takes.
LEMMA TickMeans ==
    ASSUME Numbers, Typed, NEW blind \in BOOLEAN, Tick(blind)
    PROVE  \E n \in 0..Len(archives) : \E rest :
              /\ rest = SubSeq(archives, n + 1, Len(archives))
              /\ archives' = rest /\ rest \in Seq(Archive) /\ Len(rest) = Len(archives) - n
              /\ \A i \in 1..Len(rest) : rest[i] = archives[n + i]
              /\ n > 0 => AtLeast(Used(SubSeq(archives, n, Len(archives)), active'), WarnPct)
              /\ n > 0 /\ n < Len(archives) => ~AtLeast(Used(rest, active'), WarnPct)
              /\ setup.mode = "pause-requests" => n = 0 /\ rest = archives
              /\ cut' = IF n = 0 THEN NoDrop
                        ELSE [freed |-> archives[n].size, left |-> Used(rest, active'),
                              more |-> rest # <<>>]
<1> DEFINE N == Len(archives)
           used == Used(archives, active)
           next == CASE setup.ignore -> "ignored"
                     [] ~setup.ignore /\ blind -> "degraded"
                     [] ~setup.ignore /\ ~blind -> Classify(used)
           rows == active + (IF ~setup.ignore /\ next # status /\ used < setup.total
                             THEN 1 ELSE 0)
           drops == next \in {"critical", "emergency"} /\ setup.mode # "pause-requests"
           rest == IF drops THEN dropOldestArchives(archives, rows) ELSE archives
           gone == N - Len(rest)
<1>1. /\ active' = rows /\ archives' = rest
      /\ cut' = IF gone = 0 THEN NoDrop
                ELSE [freed |-> archives[gone].size, left |-> Used(rest, rows),
                      more |-> rest # <<>>]
  BY DEF Tick
<1>2. N \in Nat /\ archives \in Seq(Archive)
  BY ArchivesSized DEF Typed
<1>3. rows \in Nat
  BY DEF Typed
<1> HIDE DEF next, rows
<1>4. \E n \in 0..N :
         /\ rest = SubSeq(archives, n + 1, N)
         /\ n > 0 => AtLeast(Used(SubSeq(archives, n, N), rows), WarnPct)
         /\ n > 0 /\ n < N => ~AtLeast(Used(rest, rows), WarnPct)
         /\ setup.mode = "pause-requests" => n = 0
  <2>1. CASE drops
    <3>1. rest = dropOldestArchives(archives, rows) /\ setup.mode # "pause-requests"
      BY <2>1
    <3>2. PICK n \in 0..N :
              /\ dropOldestArchives(archives, rows) = SubSeq(archives, n + 1, N)
              /\ n > 0 => AtLeast(Used(SubSeq(archives, n, N), rows), WarnPct)
              /\ n < N => ~AtLeast(Used(SubSeq(archives, n + 1, N), rows), WarnPct)
      BY <1>3, DropMeans
    <3> HIDE DEF N, rest
    <3> QED
      BY <3>1, <3>2
  <2>2. CASE ~drops
    <3>1. rest = archives
      BY <2>2
    <3>2. archives = SubSeq(archives, 0 + 1, N)
      BY <1>2
    <3>3. 0 \in 0..N
      BY <1>2
    <3> HIDE DEF rest, N
    <3> QED
      BY <3>1, <3>2, <3>3
  <2> QED
    BY <2>1, <2>2
<1>5. PICK n \in 0..N :
         /\ rest = SubSeq(archives, n + 1, N)
         /\ n > 0 => AtLeast(Used(SubSeq(archives, n, N), rows), WarnPct)
         /\ n > 0 /\ n < N => ~AtLeast(Used(rest, rows), WarnPct)
         /\ setup.mode = "pause-requests" => n = 0
  BY <1>4
<1>6. /\ SubSeq(archives, n + 1, N) \in Seq(Archive)
      /\ Len(SubSeq(archives, n + 1, N)) = N - n
      /\ \A i \in 1..(N - n) : SubSeq(archives, n + 1, N)[i] = archives[n + i]
      /\ n = 0 => SubSeq(archives, n + 1, N) = archives
  BY <1>2
<1> HIDE DEF rest, N
<1>7. gone = n
  BY <1>2, <1>5, <1>6
<1>8. cut' = IF n = 0 THEN NoDrop
             ELSE [freed |-> archives[n].size, left |-> Used(rest, rows), more |-> rest # <<>>]
  BY <1>1, <1>7
<1>9. rest \in Seq(Archive) /\ Len(rest) = N - n /\ \A i \in 1..Len(rest) : rest[i] = archives[n + i]
  BY <1>5, <1>6
<1>10. setup.mode = "pause-requests" => n = 0 /\ rest = archives
  BY <1>5, <1>6
<1> QED
  BY <1>1, <1>5, <1>8, <1>9, <1>10 DEF N

\* What one tick of the monitor leaves in each variable.
LEMMA TickSets ==
    ASSUME Numbers, Typed, NEW blind \in BOOLEAN, Tick(blind)
    PROVE  /\ status' \in Statuses
           /\ ~setup.ignore /\ ~blind => status' = Classify(Used(archives, active))
           /\ refusing' = (setup.mode = "pause-requests" /\ status' \in {"critical", "emergency"})
           /\ active' = IF ~setup.ignore /\ status' # status /\ Used(archives, active) < setup.total
                        THEN active + 1 ELSE active
           /\ since' = 0
           /\ ticked' = IF blind /\ ~setup.ignore THEN "blind" ELSE "seen"
           /\ disturbed' = (disturbed \/ blind
                             \/ (ticked = "no" /\ AtLeast(Used(archives, active), CritPct)))
           /\ UNCHANGED <<setup, other, inflight, made, lost>>
<1> DEFINE used == Used(archives, active)
<1>1. used \in Nat
  BY SpaceIsNat
<1>2. Classify(used) \in {"ok", "degraded", "critical", "emergency"}
  BY <1>1, ClassifyMeans
<1> DEFINE next == CASE setup.ignore -> "ignored"
                     [] ~setup.ignore /\ blind -> "degraded"
                     [] ~setup.ignore /\ ~blind -> Classify(used)
           rows == active + (IF ~setup.ignore /\ next # status /\ used < setup.total
                             THEN 1 ELSE 0)
<1>3. status' = next /\ active' = rows /\ refusing' = RefuseRequests(setup.mode, next)
  BY DEF Tick
<1>4. next \in Statuses /\ (~setup.ignore /\ ~blind => next = Classify(used))
  <2> HIDE DEF used
  <2>1. setup.ignore \in BOOLEAN
    BY DEF Typed
  <2> QED
    BY <1>2, <2>1 DEF Statuses
<1>5. /\ since' = 0
      /\ ticked' = IF blind /\ ~setup.ignore THEN "blind" ELSE "seen"
      /\ disturbed' = (disturbed \/ blind \/ (ticked = "no" /\ AtLeast(used, CritPct)))
      /\ UNCHANGED <<setup, other, inflight, made, lost>>
  BY DEF Tick
<1> HIDE DEF next, used
<1>6. refusing' = (setup.mode = "pause-requests" /\ status' \in {"critical", "emergency"})
  BY <1>3 DEF RefuseRequests
<1>7. active' = IF ~setup.ignore /\ status' # status /\ used < setup.total
                THEN active + 1 ELSE active
  BY <1>3 DEF Typed
<1> QED
  BY <1>3, <1>4, <1>5, <1>6, <1>7 DEF used

\* The row of a request.
LEMMA RowSets ==
    ASSUME Numbers, Typed, Row
    PROVE  /\ UNCHANGED <<setup, other, archives, status, refusing, made, ticked, disturbed, cut>>
           /\ Used(archives, active) < setup.total =>
                 lost' = lost /\ active' = active + 1
                 /\ Used(archives, active)' = Used(archives, active) + 1
           /\ ~(Used(archives, active) < setup.total) =>
                 lost' = (lost \/ ticked # "no") /\ active' = active
                 /\ Used(archives, active)' = Used(archives, active)
<1>1. Used(archives, active)' = other' + active' + Size(archives)'
  BY DEF Used
<1>2. archives' = archives /\ other' = other
  BY DEF Row
<1>3. Size(archives)' = Size(archives)
  BY <1>2
<1>4. Size(archives) \in Nat /\ Used(archives, active) = other + active + Size(archives)
  BY SpaceIsNat
<1> QED
  BY <1>1, <1>2, <1>3, <1>4 DEF Row, Typed

\* A rotation moves the active file behind the archives and uses no space.
LEMMA CutSets ==
    ASSUME Numbers, Typed, Cut
    PROVE  /\ archives' \in Seq(Archive) /\ Len(archives') = Len(archives) + 1
           /\ \A i \in 1..Len(archives') :
                 archives'[i] = IF i <= Len(archives) THEN archives[i]
                                ELSE [id |-> made + 1, size |-> active]
           /\ Used(archives, active)' = Used(archives, active)
<1> DEFINE x == [id |-> made + 1, size |-> active]
<1>1. archives' = Append(archives, x) /\ active' = 0 /\ other' = other
  BY DEF Cut
<1>2. x \in Archive /\ archives \in Seq(Archive) /\ x.size = active
  BY DEF Typed, Archive
<1>3. Used(archives, active)' = other + 0 + Size(Append(archives, x))
  BY <1>1 DEF Used
<1>4. Size(Append(archives, x)) = Size(archives) + active
  <2> HIDE DEF x
  <2> QED
    BY <1>2, SizeAppend
<1>5. Size(archives) \in Nat /\ Used(archives, active) = other + active + Size(archives)
  BY SpaceIsNat
<1>6. Used(archives, active)' = Used(archives, active)
  <2> HIDE DEF x
  <2> QED
    BY <1>3, <1>4, <1>5 DEF Typed
<1> HIDE DEF x
<1>7. /\ Append(archives, x) \in Seq(Archive)
      /\ Len(Append(archives, x)) = Len(archives) + 1
      /\ \A i \in 1..(Len(archives) + 1) :
            Append(archives, x)[i] = IF i <= Len(archives) THEN archives[i] ELSE x
  BY <1>2
<1> QED
  BY <1>1, <1>6, <1>7 DEF x

\* Other programs change their own space, and an undisturbed change only frees a unit of it.
LEMMA OthersSets ==
    ASSUME Numbers, Typed, Others
    PROVE  /\ UNCHANGED <<setup, active, archives, status, refusing, inflight, since, made, ticked, cut, lost>>
           /\ other' \in Nat /\ disturbed' \in BOOLEAN
           /\ Used(archives, active)' <= setup.total
           /\ ~disturbed' => ~disturbed /\ Used(archives, active)' = Used(archives, active) - 1
<1>1. /\ UNCHANGED <<setup, active, archives, status, refusing, inflight, since, made, ticked, cut, lost>>
      /\ \/ Used(archives, active) < setup.total /\ other' = other + 1 /\ disturbed' = TRUE
         \/ other > 0 /\ other' = other - 1 /\ disturbed' = disturbed
  BY DEF Others
<1>2. Used(archives, active)' = other' + active + Size(archives)
  BY <1>1 DEF Used
<1>3. Size(archives) \in Nat /\ Used(archives, active) = other + active + Size(archives)
      /\ setup.total \in Nat
  BY SpaceIsNat
<1>4. other \in Nat /\ active \in Nat /\ Used(archives, active) <= setup.total
      /\ disturbed \in BOOLEAN
  BY DEF Typed
<1>5. CASE other' = other + 1 /\ disturbed' = TRUE /\ Used(archives, active) < setup.total
  BY <1>1, <1>2, <1>3, <1>4, <1>5
<1>6. CASE other > 0 /\ other' = other - 1 /\ disturbed' = disturbed
  BY <1>1, <1>2, <1>3, <1>4, <1>6
<1> QED
  BY <1>1, <1>5, <1>6

\* Every step keeps the types and the volume no more than full.
LEMMA TypedStep ==
    ASSUME Numbers, Typed, [DiskNext]_diskVars
    PROVE  Typed'
<1>1. ASSUME NEW blind \in BOOLEAN, Tick(blind) PROVE Typed'
  <2>a. PICK n \in 0..Len(archives) : \E rest :
              /\ rest = SubSeq(archives, n + 1, Len(archives))
              /\ archives' = rest /\ rest \in Seq(Archive) /\ Len(rest) = Len(archives) - n
              /\ \A i \in 1..Len(rest) : rest[i] = archives[n + i]
              /\ n > 0 => AtLeast(Used(SubSeq(archives, n, Len(archives)), active'), WarnPct)
              /\ n > 0 /\ n < Len(archives) => ~AtLeast(Used(rest, active'), WarnPct)
              /\ setup.mode = "pause-requests" => n = 0 /\ rest = archives
              /\ cut' = IF n = 0 THEN NoDrop
                        ELSE [freed |-> archives[n].size, left |-> Used(rest, active'),
                              more |-> rest # <<>>]
    BY <1>1, TickMeans
  <2>1. PICK rest :
              /\ rest = SubSeq(archives, n + 1, Len(archives))
              /\ archives' = rest /\ rest \in Seq(Archive) /\ Len(rest) = Len(archives) - n
              /\ \A i \in 1..Len(rest) : rest[i] = archives[n + i]
              /\ n > 0 => AtLeast(Used(SubSeq(archives, n, Len(archives)), active'), WarnPct)
              /\ n > 0 /\ n < Len(archives) => ~AtLeast(Used(rest, active'), WarnPct)
              /\ setup.mode = "pause-requests" => n = 0 /\ rest = archives
              /\ cut' = IF n = 0 THEN NoDrop
                        ELSE [freed |-> archives[n].size, left |-> Used(rest, active'),
                              more |-> rest # <<>>]
    BY <2>a
  <2>2. Len(archives) \in Nat /\ archives \in Seq(Archive) /\ Len(rest) \in Nat
    BY <2>1, ArchivesSized DEF Typed
  <2>3. /\ Size(rest) \in Nat /\ Size(rest) <= Size(archives) /\ Size(archives) \in Nat
    BY <2>1, <2>2, RestIsSmaller, SizeIsNat
  <2>4. /\ status' \in Statuses
        /\ refusing' \in BOOLEAN
        /\ active' = IF ~setup.ignore /\ status' # status /\ Used(archives, active) < setup.total
                     THEN active + 1 ELSE active
        /\ since' = 0 /\ ticked' \in {"blind", "seen"} /\ disturbed' \in BOOLEAN
        /\ UNCHANGED <<setup, other, inflight, made, lost>>
    BY <1>1, TickSets
  <2>5. active' \in Nat
    BY <2>4 DEF Typed
  <2>6. Used(rest, active') = other + active' + Size(rest)
    BY DEF Used
  <2>7. Used(rest, active') \in Nat /\ Used(rest, active') <= setup.total
    <3>1. Used(archives, active) = other + active + Size(archives) /\ setup.total \in Nat
          /\ Used(archives, active) <= setup.total
      BY SpaceIsNat DEF Typed
    <3> QED
      BY <2>3, <2>4, <2>5, <2>6, <3>1, SMTT(30) DEF Typed
  <2>8. Used(archives, active)' = Used(rest, active')
    BY <2>1, <2>4 DEF Used
  <2>9. cut'.freed \in Nat /\ cut'.left \in Nat
    <3>1. CASE n = 0
      BY <2>1, <3>1 DEF NoDrop
    <3>2. CASE n # 0
      <4>1. n \in 1..Len(archives)
        BY <2>2, <3>2
      <4>2. archives[n] \in Archive
        BY <2>2, <4>1
      <4>3. archives[n].size \in Nat
        BY <4>2 DEF Archive
      <4>4. cut' = [freed |-> archives[n].size, left |-> Used(rest, active'),
                    more |-> rest # <<>>]
        BY <2>1, <3>2
      <4> QED
        BY <2>7, <4>3, <4>4
    <3> QED
      BY <3>1, <3>2
  <2>10. \A i \in 1..Len(rest) :
            rest[i].size > 0 /\ rest[i].id = made - Len(rest) + i
    <3> SUFFICES ASSUME NEW i \in 1..Len(rest)
                 PROVE  rest[i].size > 0 /\ rest[i].id = made - Len(rest) + i
      OBVIOUS
    <3>1. n + i \in 1..Len(archives) /\ rest[i] = archives[n + i]
      BY <2>1, <2>2
    <3>2. rest[i].size > 0 /\ rest[i].id = made - Len(archives) + (n + i)
      BY <3>1 DEF Typed
    <3>3. made \in Int /\ n \in Int /\ i \in Int
      BY <2>2 DEF Typed
    <3>4. Len(rest) = Len(archives) - n /\ Len(archives) \in Int
      BY <2>1, <2>2
    <3>5. made - Len(rest) + i = made - Len(archives) + (n + i)
      BY <3>3, <3>4
    <3> QED
      BY <3>2, <3>5
  <2>11. Len(rest) <= made
    BY <2>1, <2>2 DEF Typed
  <2>12. setup.total \in Nat /\ 0 \in 0..MaxBurst
    BY SpaceIsNat DEF Numbers
  <2> QED
    BY <2>1, <2>4, <2>5, <2>7, <2>8, <2>9, <2>10, <2>11, <2>12 DEF Typed
<1>2. CASE Admit
  <2>1. Used(archives, active)' = Used(archives, active)
    BY <1>2 DEF Admit, Used
  <2>2. inflight' \in 0..MaxInFlight
    BY <1>2 DEF Admit, Typed, Numbers
  <2> QED
    BY <1>2, <2>1, <2>2 DEF Admit, Typed
<1>3. CASE Finish \/ Inner
  <2>1. Row /\ inflight' \in 0..MaxInFlight /\ since' \in 0..MaxBurst
    BY <1>3 DEF Finish, Inner, Typed, Numbers
  <2>2. /\ UNCHANGED <<setup, other, archives, status, refusing, made, ticked, disturbed, cut>>
        /\ lost' \in BOOLEAN /\ active' \in Nat
        /\ Used(archives, active)' <= setup.total
    <3>1. UNCHANGED <<setup, other, archives, status, refusing, made, ticked, disturbed, cut>>
      BY <2>1, RowSets
    <3>2. Used(archives, active) \in Nat /\ setup.total \in Nat
      BY SpaceIsNat
    <3>3. active \in Nat /\ lost \in BOOLEAN /\ Used(archives, active) <= setup.total
      BY DEF Typed
    <3>4. CASE Used(archives, active) < setup.total
      <4>1. /\ lost' = lost /\ active' = active + 1
            /\ Used(archives, active)' = Used(archives, active) + 1
        BY <2>1, <3>4, RowSets
      <4> QED
        BY <3>1, <3>2, <3>3, <3>4, <4>1
    <3>5. CASE ~(Used(archives, active) < setup.total)
      <4>1. /\ lost' = (lost \/ ticked # "no") /\ active' = active
            /\ Used(archives, active)' = Used(archives, active)
        BY <2>1, <3>5, RowSets
      <4> QED
        BY <3>1, <3>3, <4>1
    <3> QED
      BY <3>4, <3>5
  <2> QED
    BY <2>1, <2>2 DEF Typed
<1>4. CASE Cut
  <2>1. /\ archives' \in Seq(Archive) /\ Len(archives') = Len(archives) + 1
        /\ \A i \in 1..Len(archives') :
              archives'[i] = IF i <= Len(archives) THEN archives[i]
                             ELSE [id |-> made + 1, size |-> active]
        /\ Used(archives, active)' = Used(archives, active)
    BY <1>4, CutSets
  <2>2. /\ active > 0 /\ made < MaxArchives /\ made' = made + 1 /\ active' = 0
        /\ UNCHANGED <<setup, other, status, refusing, inflight, since, ticked, disturbed, cut, lost>>
    BY <1>4 DEF Cut
  <2>3. Len(archives) \in Nat
    BY ArchivesSized DEF Typed
  <2>4. made' \in 0..MaxArchives
    BY <2>2 DEF Typed, Numbers
  <2>5. \A i \in 1..Len(archives') :
            archives'[i].size > 0 /\ archives'[i].id = made' - Len(archives') + i
    <3> SUFFICES ASSUME NEW i \in 1..Len(archives')
                 PROVE  archives'[i].size > 0 /\ archives'[i].id = made' - Len(archives') + i
      OBVIOUS
    <3>1. CASE i <= Len(archives)
      <4>1. archives'[i] = archives[i] /\ i \in 1..Len(archives)
        BY <2>1, <2>3, <3>1
      <4> QED
        BY <2>1, <2>2, <2>3, <4>1 DEF Typed
    <3>2. CASE ~(i <= Len(archives))
      <4>1. archives'[i] = [id |-> made + 1, size |-> active]
        BY <2>1, <3>2
      <4>2. i = Len(archives) + 1
        BY <2>1, <2>3, <3>2
      <4> QED
        BY <2>1, <2>2, <2>3, <4>1, <4>2 DEF Typed
    <3> QED
      BY <3>1, <3>2
  <2> QED
    BY <2>1, <2>2, <2>3, <2>4, <2>5 DEF Typed
<1>5. CASE Others
  BY <1>5, OthersSets DEF Typed
<1>6. CASE UNCHANGED diskVars
  <2>1. Used(archives, active)' = Used(archives, active)
    BY <1>6 DEF diskVars, Used
  <2> QED
    BY <1>6, <2>1 DEF diskVars, Typed
<1> QED
  BY <1>1, <1>2, <1>3, <1>4, <1>5, <1>6 DEF DiskNext

\* Every step keeps what is known of the archives last dropped.
LEMMA NeededStep ==
    ASSUME Numbers, Typed, Needed, [DiskNext]_diskVars
    PROVE  Needed'
<1>1. \A u : AtLeast(u, WarnPct)' <=> u * 100 >= WarnPct * setup'.total
  BY DEF AtLeast
<1>2. ASSUME NEW blind \in BOOLEAN, Tick(blind) PROVE Needed'
  <2>a. PICK n \in 0..Len(archives) : \E rest :
              /\ rest = SubSeq(archives, n + 1, Len(archives))
              /\ archives' = rest /\ rest \in Seq(Archive) /\ Len(rest) = Len(archives) - n
              /\ \A i \in 1..Len(rest) : rest[i] = archives[n + i]
              /\ n > 0 => AtLeast(Used(SubSeq(archives, n, Len(archives)), active'), WarnPct)
              /\ n > 0 /\ n < Len(archives) => ~AtLeast(Used(rest, active'), WarnPct)
              /\ setup.mode = "pause-requests" => n = 0 /\ rest = archives
              /\ cut' = IF n = 0 THEN NoDrop
                        ELSE [freed |-> archives[n].size, left |-> Used(rest, active'),
                              more |-> rest # <<>>]
    BY <1>2, TickMeans
  <2>1. PICK rest :
              /\ rest = SubSeq(archives, n + 1, Len(archives))
              /\ archives' = rest /\ rest \in Seq(Archive) /\ Len(rest) = Len(archives) - n
              /\ \A i \in 1..Len(rest) : rest[i] = archives[n + i]
              /\ n > 0 => AtLeast(Used(SubSeq(archives, n, Len(archives)), active'), WarnPct)
              /\ n > 0 /\ n < Len(archives) => ~AtLeast(Used(rest, active'), WarnPct)
              /\ setup.mode = "pause-requests" => n = 0 /\ rest = archives
              /\ cut' = IF n = 0 THEN NoDrop
                        ELSE [freed |-> archives[n].size, left |-> Used(rest, active'),
                              more |-> rest # <<>>]
    BY <2>a
  <2>2. setup' = setup /\ made' = made /\ active' \in Nat
    BY <1>2, TickSets DEF Typed
  <2>3. (setup.mode = "pause-requests" => Len(archives) = made)'
    BY <2>1, <2>2 DEF Needed
  <2>4. CASE n = 0
    BY <2>1, <2>3, <2>4 DEF Needed, NoDrop
  <2>5. CASE n # 0
    <3>1. n \in 1..Len(archives) /\ n > 0 /\ archives \in Seq(Archive) /\ Len(archives) \in Nat
      BY <2>5, ArchivesSized DEF Typed
    <3>2. cut'.freed = archives[n].size /\ cut'.left = Used(rest, active')
          /\ (cut'.more <=> rest # <<>>)
      BY <2>1, <2>5
    <3>3. Size(SubSeq(archives, n, Len(archives))) = archives[n].size + Size(rest)
      BY <2>1, <3>1, SizeFrom
    <3>4. archives[n].size \in Nat /\ Size(rest) \in Nat
      <4>1. archives[n] \in Archive
        BY <3>1
      <4> QED
        BY <2>1, <4>1, SizeIsNat DEF Archive
    <3>5. Used(SubSeq(archives, n, Len(archives)), active') = cut'.left + cut'.freed
      BY <2>2, <3>2, <3>3, <3>4 DEF Used, Typed
    <3>6. AtLeast(cut'.left + cut'.freed, WarnPct)
      BY <2>1, <3>1, <3>5
    <3>7. cut'.more => ~AtLeast(cut'.left, WarnPct)
      <4>1. rest # <<>> => Len(rest) # 0
        BY <2>1
      <4>2. rest # <<>> => n < Len(archives)
        BY <2>1, <3>1, <4>1
      <4> QED
        BY <2>1, <3>1, <3>2, <4>2
    <3> QED
      BY <2>2, <2>3, <3>6, <3>7 DEF Needed, AtLeast
  <2> QED
    BY <2>4, <2>5
<1>3. CASE Admit \/ Finish \/ Inner \/ Others \/ UNCHANGED diskVars
  <2>1. UNCHANGED <<setup, archives, made, cut>>
    BY <1>3 DEF Admit, Finish, Inner, Others, Row, diskVars
  <2> QED
    BY <2>1 DEF Needed, AtLeast
<1>4. CASE Cut
  <2>1. setup' = setup /\ cut' = cut /\ made' = made + 1 /\ Len(archives') = Len(archives) + 1
    BY <1>4, CutSets DEF Cut
  <2> QED
    BY <2>1 DEF Needed, AtLeast
<1> QED
  BY <1>2, <1>3, <1>4 DEF DiskNext

\* Once the circumstances are not those of RowsFit, they are not any more.
LEMMA CalmBefore ==
    ASSUME Numbers, Typed, [DiskNext]_diskVars, Calm'
    PROVE  Calm
<1>1. setup' = setup /\ (disturbed => disturbed')
  <2>1. ASSUME NEW blind \in BOOLEAN, Tick(blind) PROVE setup' = setup /\ (disturbed => disturbed')
    BY <2>1, TickSets DEF Typed
  <2>2. CASE Admit \/ Finish \/ Inner \/ Cut \/ Others \/ UNCHANGED diskVars
    BY <2>2 DEF Admit, Finish, Inner, Cut, Others, Row, diskVars
  <2> QED
    BY <2>1, <2>2 DEF DiskNext
<1> QED
  BY <1>1 DEF Calm, Headroom, AtLeast

\* Every step that disturbs nothing leaves the room owed to the admitted.
LEMMA RoomStep ==
    ASSUME Numbers, Typed, [DiskNext]_diskVars, Calm, Calm', RoomIsLeft
    PROVE  RoomIsLeft'
<1> DEFINE U == Used(archives, active)
           T == setup.total
<1>1. /\ U \in Nat /\ T \in Nat /\ U <= T /\ Room = T - U
      /\ Size(archives) \in Nat /\ U = other + active + Size(archives)
      /\ U \in 0..T
  BY SpaceIsNat DEF Typed, Room
<1>2. /\ inflight \in Nat /\ inflight <= MaxInFlight /\ since \in Nat /\ since <= MaxBurst
      /\ MaxInFlight \in Nat /\ MaxBurst \in Nat /\ lost \in BOOLEAN /\ refusing \in BOOLEAN
      /\ ticked \in {"no", "blind", "seen"} /\ disturbed \in BOOLEAN
  BY DEF Typed, Numbers
<1>3. /\ setup.mode = "pause-requests" /\ ~setup.ignore /\ ~setup.mitm
      /\ ~disturbed /\ ~disturbed'
  BY DEF Calm
<1>4. ~AtLeast(U, CritPct) => T - U >= MaxBurst + MaxInFlight + 3
  BY <1>1 DEF Calm, Headroom
<1>5. ASSUME NEW blind \in BOOLEAN, Tick(blind) PROVE RoomIsLeft'
  <2>1. /\ ~blind
        /\ status' = Classify(U)
        /\ refusing' = (status' \in {"critical", "emergency"})
        /\ active' = IF status' # status /\ U < T THEN active + 1 ELSE active
        /\ since' = 0 /\ ticked' = "seen"
        /\ ~(ticked = "no" /\ AtLeast(U, CritPct))
        /\ UNCHANGED <<setup, other, inflight, made, lost>>
    <3>1. /\ ~setup.ignore /\ ~blind => status' = Classify(U)
          /\ refusing' = (setup.mode = "pause-requests" /\ status' \in {"critical", "emergency"})
          /\ active' = IF ~setup.ignore /\ status' # status /\ U < T
                       THEN active + 1 ELSE active
          /\ since' = 0
          /\ ticked' = IF blind /\ ~setup.ignore THEN "blind" ELSE "seen"
          /\ disturbed' = (disturbed \/ blind \/ (ticked = "no" /\ AtLeast(U, CritPct)))
          /\ UNCHANGED <<setup, other, inflight, made, lost>>
      BY <1>5, TickSets
    <3> HIDE DEF U, T
    <3>2. ~blind /\ ~(ticked = "no" /\ AtLeast(U, CritPct))
      BY <1>3, <3>1
    <3> QED
      BY <1>3, <3>1, <3>2
  <2>2. archives' = archives
    <3>a. PICK n \in 0..Len(archives) : \E rest :
                 archives' = rest /\ (setup.mode = "pause-requests" => n = 0 /\ rest = archives)
      BY <1>5, TickMeans
    <3>1. PICK rest :
                 archives' = rest /\ (setup.mode = "pause-requests" => n = 0 /\ rest = archives)
      BY <3>a
    <3> QED
      BY <1>3, <3>1
  <2>3. /\ status' \in {"ok", "degraded", "critical", "emergency"}
        /\ status' \notin {"critical", "emergency"} => ~AtLeast(U, CritPct)
        /\ status' = "emergency" => AtLeast(U, EmergencyPct)
        /\ status' = "critical" => ~AtLeast(U, EmergencyPct)
    BY <1>1, <2>1, ClassifyMeans
  <2>4. Room' = T - (U + (IF status' # status /\ U < T THEN 1 ELSE 0))
    <3>1. Room' = T - (other + active' + Size(archives))
      BY <2>1, <2>2 DEF Room, Used
    <3> HIDE DEF U, T
    <3> QED
      BY <1>1, <2>1, <3>1, SMTT(30) DEF Typed
  <2>5. status' = "emergency" => \A u \in Nat : ~AtLeast(u, EmergencyPct) => u < U
    BY <1>1, <2>3, AtLeastGrows DEF Numbers
  <2>6. AtLeast(U, CritPct) => ticked = "seen"
    BY <1>2, <2>1 DEF RoomIsLeft
  <2>7. status' \notin {"critical", "emergency"} => T - U >= MaxBurst + MaxInFlight + 3
    BY <1>4, <2>3
  \* What there was before the report, if it was a refusal.
  <2>8. /\ status' = "critical" => inflight <= T - U - (IF status' = status THEN 1 ELSE 2)
        /\ status' = "emergency" => inflight <= T - U - (IF status' = status THEN 0 ELSE 1)
        /\ status' = "emergency" =>
              \A u \in Nat : ~AtLeast(u, EmergencyPct) => u + 2 <= T - inflight
    <3>1. CASE ticked = "no"
      <4>1. T - U >= MaxBurst + MaxInFlight + 3
        BY <1>4, <2>1, <3>1
      <4> HIDE DEF U, T
      <4>2. inflight <= T - U - 3
        BY <1>1, <1>2, <4>1
      <4> QED
        BY <1>1, <1>2, <2>5, <4>2
    <3>2. CASE ticked = "seen"
      <4>1. /\ refusing <=> status \in {"critical", "emergency"}
            /\ ~refusing => T - U >= MaxBurst + MaxInFlight + 2 - since
            /\ status = "critical" => inflight <= T - U - 1
            /\ status = "emergency" =>
                  /\ inflight <= T - U
                  /\ \A u \in Nat : ~AtLeast(u, EmergencyPct) => u + 2 <= T - inflight
        BY <1>1, <3>2 DEF RoomIsLeft
      <4> HIDE DEF U, T
      <4>2. CASE ~refusing
        <5>1. inflight <= T - U - 2
          BY <1>1, <1>2, <4>1, <4>2
        <5> QED
          BY <1>1, <1>2, <2>5, <5>1
      <4>3. CASE status = "critical"
        <5>1. status' = "critical" => inflight <= T - U - 1
          BY <4>1, <4>3
        <5>2. status' = "emergency" => inflight <= T - U - 1
          BY <4>1, <4>3
        <5> QED
          BY <1>1, <1>2, <2>5, <4>3, <5>1, <5>2
      <4>4. CASE status = "emergency"
        <5>1. status' = "critical" => U + 2 <= T - inflight
          BY <1>1, <2>3, <4>1, <4>4
        <5> QED
          BY <1>1, <1>2, <4>1, <4>4, <5>1
      <4> QED
        BY <4>1, <4>2, <4>3, <4>4
    <3> QED
      BY <1>2, <3>1, <3>2 DEF RoomIsLeft
  <2>9. setup' = setup /\ inflight' = inflight /\ ~lost'
    BY <2>1 DEF RoomIsLeft
  <2>10. \A u : AtLeast(u, EmergencyPct)' <=> AtLeast(u, EmergencyPct)
    BY <2>9 DEF AtLeast
  <2> DEFINE report == IF status' # status /\ U < T THEN 1 ELSE 0
  <2>11. report \in {0, 1} /\ (status' = status => report = 0) /\ Room' = T - (U + report)
    BY <2>4
  <2> HIDE DEF report
  <2>12. /\ ~refusing' => Room' >= MaxBurst + MaxInFlight + 2 - since'
         /\ status' = "critical" => inflight' <= Room' - 1
         /\ status' = "emergency" => inflight' <= Room'
    <3> HIDE DEF U, T
    <3>1. ~refusing' => Room' >= MaxBurst + MaxInFlight + 2 - since'
      <4>1. ~refusing' => T - U >= MaxBurst + MaxInFlight + 3
        BY <2>1, <2>7
      <4>2. since' = 0
        BY <2>1
      <4> QED
        BY <1>1, <1>2, <2>11, <4>1, <4>2
    <3>2. status' = "critical" => inflight <= T - U - (IF status' = status THEN 1 ELSE 2)
      BY <2>8
    <3>3. status' = "critical" => inflight' <= Room' - 1
      BY <1>1, <1>2, <2>9, <2>11, <3>2
    <3>4. status' = "emergency" => inflight <= T - U - (IF status' = status THEN 0 ELSE 1)
      BY <2>8
    <3>5. status' = "emergency" => inflight' <= Room'
      BY <1>1, <1>2, <2>9, <2>11, <3>4
    <3> QED
      BY <3>1, <3>3, <3>5
  <2> QED
    BY <2>1, <2>8, <2>9, <2>10, <2>12 DEF RoomIsLeft
<1>6. ASSUME UNCHANGED <<setup, status, refusing, ticked, lost, since, inflight>>,
             Room' \in Int, Room' >= Room
      PROVE  RoomIsLeft'
  <2>1. \A u : AtLeast(u, EmergencyPct)' <=> AtLeast(u, EmergencyPct)
    BY <1>6 DEF AtLeast
  <2>2. Room \in Int
    BY <1>1
  <2>3. ticked = "seen" =>
          /\ ~refusing => Room' >= MaxBurst + MaxInFlight + 2 - since
          /\ status = "critical" => inflight <= Room' - 1
          /\ status = "emergency" => inflight <= Room'
    <3>1. ticked = "seen" =>
            /\ ~refusing => Room >= MaxBurst + MaxInFlight + 2 - since
            /\ status = "critical" => inflight <= Room - 1
            /\ status = "emergency" => inflight <= Room
      BY DEF RoomIsLeft
    <3>2. \A x, y \in Int : y >= x =>
            /\ x >= MaxBurst + MaxInFlight + 2 - since
                  => y >= MaxBurst + MaxInFlight + 2 - since
            /\ inflight <= x - 1 => inflight <= y - 1
            /\ inflight <= x => inflight <= y
      BY <1>2
    <3> QED
      BY <1>6, <2>2, <3>1, <3>2
  <2> QED
    BY <1>6, <2>1, <2>3 DEF RoomIsLeft
<1>7. CASE Admit
  <2>1. /\ ~refusing /\ inflight' = inflight + 1
        /\ UNCHANGED <<setup, other, active, archives, status, refusing, since, ticked, lost>>
    BY <1>7 DEF Admit
  <2>2. Room' = Room
    BY <2>1 DEF Room, Used
  <2> QED
    BY <2>1, <2>2 DEF RoomIsLeft
<1>8. CASE Finish
  <2>1. /\ inflight > 0 /\ inflight' = inflight - 1 /\ since < MaxBurst /\ since' = since + 1
        /\ Row
    BY <1>8 DEF Finish
  <2>2. UNCHANGED <<setup, other, archives, status, refusing, made, ticked, disturbed, cut>>
    BY <2>1, RowSets
  <2>3. CASE ticked = "no"
    <3>1. ~lost'
      BY <2>1, <2>3 DEF Row, RoomIsLeft
    <3> QED
      BY <2>2, <2>3, <3>1 DEF RoomIsLeft
  <2>4. CASE ticked = "seen"
    <3>1. /\ refusing <=> status \in {"critical", "emergency"}
          /\ ~refusing => T - U >= MaxBurst + MaxInFlight + 2 - since
          /\ status = "critical" => inflight <= T - U - 1
          /\ status = "emergency" =>
                /\ inflight <= T - U
                /\ \A u \in Nat : ~AtLeast(u, EmergencyPct) => u + 2 <= T - inflight
      BY <1>1, <2>4 DEF RoomIsLeft
    <3>2. U < T
      <4> HIDE DEF U, T
      <4> QED
        BY <1>1, <1>2, <2>1, <3>1
    <3>3. ~lost' /\ Room' = T - U - 1
      <4>1. lost' = lost /\ Used(archives, active)' = U + 1
        BY <2>1, <3>2, RowSets
      <4>2. setup' = setup
        BY <2>2
      <4> QED
        BY <1>1, <4>1, <4>2 DEF Room, RoomIsLeft
    <3>4. \A u : AtLeast(u, EmergencyPct)' <=> AtLeast(u, EmergencyPct)
      BY <2>2 DEF AtLeast
    <3>5. /\ ~refusing => Room' >= MaxBurst + MaxInFlight + 2 - since'
          /\ status = "critical" => inflight' <= Room' - 1
          /\ status = "emergency" =>
                /\ inflight' <= Room'
                /\ \A u \in Nat : ~AtLeast(u, EmergencyPct) => u + 2 <= T - inflight'
      <4> HIDE DEF U, T
      <4> QED
        BY <1>1, <1>2, <2>1, <3>1, <3>3
    <3>6. T' = T
      BY <2>2
    <3> QED
      BY <2>2, <2>4, <3>1, <3>3, <3>4, <3>5, <3>6 DEF RoomIsLeft
  <2> QED
    BY <1>2, <2>3, <2>4 DEF RoomIsLeft
<1>9. CASE Inner
  BY <1>3, <1>9 DEF Inner
<1>10. CASE Cut
  <2>1. Used(archives, active)' = U /\ setup' = setup
    BY <1>10, CutSets DEF Cut
  <2>2. Room' = Room
    BY <2>1 DEF Room
  <2> QED
    BY <1>1, <1>6, <1>10, <2>2 DEF Cut
<1>11. CASE Others
  <2>1. /\ UNCHANGED <<setup, active, archives, status, refusing, inflight, since, made, ticked, cut, lost>>
        /\ Used(archives, active)' = U - 1
    BY <1>3, <1>11, OthersSets
  <2>2. Room' = T - (U - 1)
    BY <2>1 DEF Room
  <2>3. Room' \in Int /\ Room' >= Room
    <3> HIDE DEF U, T
    <3> QED
      BY <1>1, <2>2
  <2> QED
    BY <1>6, <2>1, <2>3
<1>12. CASE UNCHANGED diskVars
  <2>1. Room' = Room
    BY <1>12 DEF diskVars, Room, Used
  <2> QED
    BY <1>1, <1>6, <1>12, <2>1 DEF diskVars
<1> QED
  BY <1>5, <1>7, <1>8, <1>9, <1>10, <1>11, <1>12 DEF DiskNext

\* The breaker's invariant holds throughout.
LEMMA DiskInvHolds ==
    ASSUME Numbers
    PROVE  DiskSpec => []DiskInv
<1>1. ASSUME DiskInit PROVE DiskInv
  <2>1. archives \in Seq(Archive) /\ Len(archives) = 0 /\ 1..Len(archives) = {} /\ Size(archives) = 0
    <3>1. archives = <<>>
      BY <1>1 DEF DiskInit
    <3> QED
      BY <3>1, SizeEmpty
  <2>2. setup.total \in Nat
    BY <1>1 DEF DiskInit, Numbers
  <2>3. other \in Nat /\ other <= setup.total /\ active = 0
    BY <1>1, <2>2 DEF DiskInit
  <2>4. Used(archives, active) <= setup.total
    BY <2>1, <2>2, <2>3 DEF Used
  <2>5. Typed
    <3>1. inflight \in 0..MaxInFlight /\ since \in 0..MaxBurst /\ made \in 0..MaxArchives
          /\ Len(archives) <= made
      BY <1>1, <2>1 DEF DiskInit, Numbers
    <3>2. cut.freed \in Nat /\ cut.left \in Nat
      BY <1>1 DEF DiskInit, NoDrop
    <3>3. /\ setup \in [mode : Modes, ignore : BOOLEAN, mitm : BOOLEAN, total : Volumes]
          /\ status \in Statuses /\ refusing \in BOOLEAN /\ ticked \in {"no", "blind", "seen"}
          /\ disturbed \in BOOLEAN /\ lost \in BOOLEAN
      BY <1>1 DEF DiskInit, Statuses
    <3>4. active \in Nat
      BY <2>3
    <3> QED
      BY <2>1, <2>3, <2>4, <3>1, <3>2, <3>3, <3>4 DEF Typed
  <2>6. Needed
    BY <1>1, <2>1 DEF DiskInit, Needed, NoDrop
  <2>7. RoomIsLeft
    BY <1>1 DEF DiskInit, RoomIsLeft
  <2> QED
    BY <2>5, <2>6, <2>7 DEF DiskInv
<1>2. ASSUME DiskInv, [DiskNext]_diskVars PROVE DiskInv'
  <2>1. Typed /\ Needed /\ (Calm => RoomIsLeft)
    BY <1>2 DEF DiskInv
  <2>2. Typed'
    BY <1>2, <2>1, TypedStep
  <2>3. Needed'
    BY <1>2, <2>1, NeededStep
  <2>4. Calm' => RoomIsLeft'
    BY <1>2, <2>1, CalmBefore, RoomStep
  <2> QED
    BY <2>2, <2>3, <2>4 DEF DiskInv
<1> QED
  BY <1>1, <1>2, PTL DEF DiskSpec

-----------------------------------------------------------------------------
\* The breaker's numbers stay in their ranges, the volume is never more than
\* full, and the archives bear the numbers they were made with.
THEOREM VolumeIsNeverOverfull ==
    ASSUME Numbers
    PROVE  DiskSpec => []DiskTypeOK
<1>1. ASSUME DiskInv PROVE DiskTypeOK
  <2>1. Typed
    BY <1>1 DEF DiskInv
  <2>2. archives \in Seq(Archive) /\ Len(archives) \in Nat /\ made \in Nat
    BY <2>1, ArchivesSized DEF Typed, Numbers
  <2>3. \A i \in DOMAIN archives : archives[i].id \in 1..made /\ archives[i].size > 0
    BY <2>1, <2>2 DEF Typed
  <2> QED
    BY <2>1, <2>3 DEF Typed, DiskTypeOK
<1> QED
  BY <1>1, DiskInvHolds, PTL

\* With the default mode, on a volume where only the log grows and where the
\* critical percentage leaves the headroom, no row is lost; and in every mode the
\* archives that go are the oldest, as many as it takes (EvaluateAndReact,
\* dropOldestArchivesDP).
THEOREM DiskIsHandled ==
    ASSUME Numbers
    PROVE  DiskSpec => []DiskPressureIsHandled
<1>1. ASSUME DiskInv PROVE DiskPressureIsHandled
  <2>1. RowsFit
    BY <1>1 DEF DiskInv, Calm, RoomIsLeft, RowsFit
  <2>2. DropsAreNeeded
    <3>1. Typed /\ Needed /\ DOMAIN archives = 1..Len(archives)
      BY <1>1 DEF DiskInv, Typed
    <3> QED
      BY <3>1 DEF Typed, Needed, DropsAreNeeded
  <2> QED
    BY <2>1, <2>2 DEF DiskPressureIsHandled
<1> QED
  BY <1>1, DiskInvHolds, PTL
=============================================================================
