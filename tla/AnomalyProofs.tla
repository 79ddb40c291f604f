--------------------------- MODULE AnomalyProofs ---------------------------
(***************************************************************************)
(* Proofs about Anomaly: that the baseline is what was observed, and that  *)
(* a burst exceeds the score by no more than was in flight, for any cap,   *)
(* window and thresholds.                                                  *)
(***************************************************************************)
EXTENDS Anomaly, FiniteSetTheorems, WellFoundedInduction, TLAPS

\* What the constants stand for: a cap, a window, and bounds.
Numbers ==
    /\ MaxKeys \in Nat \ {0} /\ Window \in Nat \ {0}
    /\ MaxClock \in Nat /\ MaxRequests \in Nat /\ MaxInFlight \in Nat \ {0}

-----------------------------------------------------------------------------
\* Induction, and the extremes of sets of numbers.

\* Every set of natural numbers that is not empty has a least element.
LEMMA LeastNumber ==
    ASSUME NEW T, T \subseteq Nat, T # {}
    PROVE  \E n \in T : \A k \in T : n <= k
<1> DEFINE Less == OpToRel(<, Nat)
<1>1. IsWellFoundedOn(Less, Nat)
  BY NatLessThanWellFounded
<1>2. \A k, n \in Nat : k < n => <<k, n>> \in Less
  BY DEF OpToRel
<1> HIDE DEF Less
<1>3. PICK n \in T : \A k \in T : ~(<<k, n>> \in Less)
  BY <1>1, WFMin
<1>4. ASSUME NEW k \in T, k < n PROVE FALSE
  <2>1. k \in Nat /\ n \in Nat
    OBVIOUS
  <2>2. <<k, n>> \in Less
    BY <1>2, <1>4, <2>1
  <2> QED
    BY <1>3, <2>2
<1>5. \A k \in T : k \in Nat /\ n \in Nat
  OBVIOUS
<1> QED
  BY <1>4, <1>5

\* A property of 0 that passes from each number to the next holds up to the bound.
LEMMA UpToTheBound ==
    ASSUME NEW top \in Nat, NEW T \in SUBSET (0..top), 0 \in T,
           \A n \in 1..top : n - 1 \in T => n \in T
    PROVE  T = 0..top
<1> DEFINE U == (0..top) \ T
<1>1. SUFFICES ASSUME U # {} PROVE FALSE
  OBVIOUS
<1>2. U \subseteq Nat
  OBVIOUS
<1>3. PICK n \in U : \A k \in U : n <= k
  BY <1>1, <1>2, LeastNumber
<1>4. n \in 1..top /\ n - 1 \in 0..top
  BY <1>3
<1>5. n - 1 \in T
  BY <1>3, <1>4
<1> QED
  BY <1>3, <1>4, <1>5

\* The largest of a set of numbers up to a bound is above each of them.
LEMMA LargestIsLargest ==
    ASSUME NEW top \in Nat, NEW S, S \subseteq 0..top, S # {}
    PROVE  Max(S) \in S /\ \A y \in S : y <= Max(S)
<1> DEFINE T == {n \in 0..top : \A y \in S : y <= n}
<1>1. T \subseteq Nat /\ top \in T
  OBVIOUS
<1>2. PICK n \in T : \A k \in T : n <= k
  BY <1>1, LeastNumber
<1>3. n \in S
  <2> SUFFICES ASSUME n \notin S PROVE FALSE
    OBVIOUS
  <2>1. PICK y \in S : TRUE
    OBVIOUS
  <2>2. y \in 0..top /\ y <= n /\ y # n
    BY <1>2
  <2>3. n \in Nat /\ n - 1 \in 0..top
    BY <1>2, <2>2
  <2>4. \A x \in S : x <= n - 1
    <3> TAKE x \in S
    <3>1. x \in 0..top /\ x <= n /\ x # n
      BY <1>2
    <3> QED
      BY <2>3, <3>1
  <2>5. n - 1 \in T
    BY <2>3, <2>4
  <2> QED
    BY <1>2, <2>3, <2>5
<1>4. \A y \in S : n >= y
  <2> TAKE y \in S
  <2>1. y \in 0..top /\ n \in 0..top /\ y <= n
    BY <1>2
  <2> QED
    BY <2>1
<1>5. Max(S) \in S /\ \A y \in S : Max(S) >= y
  BY <1>3, <1>4 DEF Max
<1>6. ASSUME NEW y \in S PROVE y <= Max(S)
  <2>1. y \in 0..top /\ Max(S) \in 0..top
    BY <1>5
  <2> QED
    BY <1>5, <2>1
<1> QED
  BY <1>5, <1>6

\* The larger of two numbers is one of them, and at least the first.
LEMMA LargerOfTwo ==
    ASSUME NEW a \in Int, NEW b \in Int
    PROVE  Max({a, b}) \in {a, b} /\ Max({a, b}) >= a
<1>1. \E x \in {a, b} : \A y \in {a, b} : x >= y
  <2>1. CASE a >= b
    BY <2>1
  <2>2. CASE b >= a
    BY <2>2
  <2> QED
    BY <2>1, <2>2
<1> QED
  BY <1>1 DEF Max

-----------------------------------------------------------------------------
\* Sums over hours.

Counts == [Hours -> Nat]

\* What an hour adds to the total.
Term(obs, from, t) == IF t >= from THEN obs[t] ELSE 0

\* f gives the totals up to each of the first n hours.
SumsTo(n, obs, from, f) ==
    /\ f[0] = Term(obs, from, 0)
    /\ \A t \in 1..n : f[t] = f[t-1] + Term(obs, from, t)

\* What an hour adds is a number.
LEMMA TermIsNat ==
    ASSUME NEW obs \in Counts, NEW from \in Int, NEW t \in Hours
    PROVE  Term(obs, from, t) \in Nat
  BY DEF Counts, Term

\* The totals exist.
LEMMA SumsExist ==
    ASSUME Numbers, NEW obs \in Counts, NEW from \in Int
    PROVE  \E f \in [Hours -> Nat] : SumsTo(MaxClock, obs, from, f)
<1> DEFINE T == {n \in 0..MaxClock : \E f \in [0..n -> Nat] : SumsTo(n, obs, from, f)}
<1>0. MaxClock \in Nat /\ Hours = 0..MaxClock
  BY DEF Numbers, Hours
<1>1. 0 \in T
  <2> DEFINE z == [k \in 0..0 |-> Term(obs, from, 0)]
  <2>1. Term(obs, from, 0) \in Nat
    BY <1>0, TermIsNat
  <2>2. z \in [0..0 -> Nat] /\ SumsTo(0, obs, from, z)
    BY <2>1 DEF SumsTo
  <2> QED
    BY <1>0, <2>2
<1>2. ASSUME NEW n \in 1..MaxClock, n - 1 \in T PROVE n \in T
  <2>1. PICK f \in [0..(n-1) -> Nat] : SumsTo(n - 1, obs, from, f)
    BY <1>2
  <2>2. n \in Nat /\ n \in Hours /\ n - 1 \in 0..(n-1)
    BY <1>0
  <2>3. Term(obs, from, n) \in Nat /\ f[n-1] \in Nat
    BY <2>2, TermIsNat
  <2> DEFINE g == [k \in 0..n |-> IF k = n THEN f[n-1] + Term(obs, from, n) ELSE f[k]]
  <2>4. \A k \in 0..(n-1) : k \in 0..n /\ k # n /\ g[k] = f[k]
    BY <2>2
  <2>5. g[n] = f[n-1] + Term(obs, from, n)
    BY <2>2
  <2>6. g \in [0..n -> Nat]
    <3>1. \A k \in 0..n : k = n \/ k \in 0..(n-1)
      BY <2>2
    <3>2. \A k \in 0..n : g[k] \in Nat
      BY <2>3, <2>4, <2>5, <3>1
    <3> QED
      BY <3>2
  <2> HIDE DEF g
  <2>7. g[0] = Term(obs, from, 0)
    BY <2>1, <2>2, <2>4 DEF SumsTo
  <2>8. ASSUME NEW t \in 1..n PROVE g[t] = g[t-1] + Term(obs, from, t)
    <3>1. t - 1 \in 0..(n-1) /\ g[t-1] = f[t-1]
      BY <2>2, <2>4
    <3>2. CASE t = n
      BY <2>5, <3>1, <3>2
    <3>3. CASE t # n
      <4>1. t \in 1..(n-1) /\ t \in 0..(n-1)
        BY <2>2, <3>3
      <4> QED
        BY <2>1, <2>4, <3>1, <4>1 DEF SumsTo
    <3> QED
      BY <3>2, <3>3
  <2>9. SumsTo(n, obs, from, g)
    BY <2>7, <2>8 DEF SumsTo
  <2> QED
    BY <1>0, <2>2, <2>6, <2>9
<1>3. MaxClock \in T
  <2>1. T \in SUBSET (0..MaxClock)
    OBVIOUS
  <2> HIDE DEF T
  <2>2. T = 0..MaxClock
    BY <1>0, <1>1, <1>2, <2>1, UpToTheBound
  <2> QED
    BY <1>0, <2>2
<1> QED
  BY <1>0, <1>3

\* They are all there is to Total.
LEMMA TotalIsSum ==
    ASSUME Numbers, NEW obs \in Counts, NEW from \in Int
    PROVE  \E f \in [Hours -> Nat] : SumsTo(MaxClock, obs, from, f) /\ Total(obs, from) = f[MaxClock]
<1> DEFINE Sums(h) == h = [t \in Hours |-> (IF t = 0 THEN 0 ELSE h[t-1])
                                           + (IF t >= from THEN obs[t] ELSE 0)]
           g == CHOOSE h : Sums(h)
<1>0. MaxClock \in Nat /\ Hours = 0..MaxClock
  BY DEF Numbers, Hours
<1>1. Total(obs, from) = g[MaxClock]
  BY DEF Total
<1>2. PICK f \in [Hours -> Nat] : SumsTo(MaxClock, obs, from, f)
  BY SumsExist
<1>3. Sums(f)
  <2>1. ASSUME NEW t \in Hours
        PROVE  f[t] = (IF t = 0 THEN 0 ELSE f[t-1]) + (IF t >= from THEN obs[t] ELSE 0)
    <3>1. Term(obs, from, t) \in Nat
      BY TermIsNat
    <3>2. CASE t = 0
      BY <1>2, <3>1, <3>2 DEF SumsTo, Term
    <3>3. CASE t # 0
      <4>1. t \in 1..MaxClock
        BY <1>0, <3>3
      <4> QED
        BY <1>2, <3>3, <4>1 DEF SumsTo, Term
    <3> QED
      BY <3>2, <3>3
  <2>2. f = [t \in Hours |-> f[t]]
    OBVIOUS
  <2> QED
    BY <2>1, <2>2
<1>4. Sums(g)
  BY <1>3
<1> HIDE DEF g
<1>5. \A t \in Hours : g[t] = (IF t = 0 THEN 0 ELSE g[t-1]) + (IF t >= from THEN obs[t] ELSE 0)
  BY <1>4
<1> HIDE DEF Sums
<1> DEFINE T == {t \in 0..MaxClock : g[t] = f[t]}
<1>6. T \in SUBSET (0..MaxClock)
  OBVIOUS
<1>7. 0 \in T
  <2>0. 0 \in Hours
    BY <1>0
  <2>1. g[0] = 0 + Term(obs, from, 0) /\ Term(obs, from, 0) \in Nat
    BY <1>5, <2>0, TermIsNat DEF Term
  <2> QED
    BY <1>0, <1>2, <2>1 DEF SumsTo
<1>8. ASSUME NEW t \in 1..MaxClock, t - 1 \in T PROVE t \in T
  <2>1. t \in Hours /\ t # 0 /\ g[t] = g[t-1] + Term(obs, from, t)
    BY <1>0, <1>5 DEF Term
  <2>2. f[t] = f[t-1] + Term(obs, from, t)
    BY <1>2 DEF SumsTo
  <2> QED
    BY <1>0, <1>8, <2>1, <2>2
<1> HIDE DEF T
<1>9. T = 0..MaxClock
  BY <1>0, <1>6, <1>7, <1>8, UpToTheBound
<1>10. g[MaxClock] = f[MaxClock]
  BY <1>0, <1>9 DEF T
<1> QED
  BY <1>1, <1>2, <1>10

\* A total is a number, and it is no smaller than that of counts that are nowhere larger.
LEMMA TotalGrows ==
    ASSUME Numbers, NEW a \in Counts, NEW b \in Counts, NEW m \in Int, NEW n \in Int,
           \A t \in Hours : Term(a, m, t) <= Term(b, n, t)
    PROVE  Total(a, m) \in Nat /\ Total(b, n) \in Nat /\ Total(a, m) <= Total(b, n)
<1>0. MaxClock \in Nat /\ Hours = 0..MaxClock
  BY DEF Numbers, Hours
<1>1. PICK f \in [Hours -> Nat] : SumsTo(MaxClock, a, m, f) /\ Total(a, m) = f[MaxClock]
  BY TotalIsSum
<1>2. PICK g \in [Hours -> Nat] : SumsTo(MaxClock, b, n, g) /\ Total(b, n) = g[MaxClock]
  BY TotalIsSum
<1> DEFINE T == {t \in 0..MaxClock : f[t] <= g[t]}
<1>3. T \in SUBSET (0..MaxClock)
  OBVIOUS
<1>4. 0 \in T
  BY <1>0, <1>1, <1>2 DEF SumsTo
<1>5. ASSUME NEW t \in 1..MaxClock, t - 1 \in T PROVE t \in T
  <2>1. t \in Hours /\ t - 1 \in Hours /\ f[t-1] <= g[t-1]
    BY <1>0, <1>5
  <2>2. f[t] = f[t-1] + Term(a, m, t) /\ g[t] = g[t-1] + Term(b, n, t)
    BY <1>1, <1>2 DEF SumsTo
  <2>3. Term(a, m, t) \in Nat /\ Term(b, n, t) \in Nat /\ Term(a, m, t) <= Term(b, n, t)
    BY <2>1, TermIsNat
  <2>4. f[t-1] \in Nat /\ g[t-1] \in Nat
    BY <2>1
  <2> QED
    BY <1>0, <2>1, <2>2, <2>3, <2>4
<1> HIDE DEF T
<1>6. T = 0..MaxClock
  BY <1>0, <1>3, <1>4, <1>5, UpToTheBound
<1>7. f[MaxClock] <= g[MaxClock] /\ f[MaxClock] \in Nat /\ g[MaxClock] \in Nat
  BY <1>0, <1>6 DEF T
<1> QED
  BY <1>1, <1>2, <1>7

\* A request counted in an hour that the total covers adds one to it, in an
\* earlier hour nothing.
LEMMA TotalAdds ==
    ASSUME Numbers, NEW a \in Counts, NEW h \in Hours, NEW m \in Int
    PROVE  LET b == [a EXCEPT ![h] = @ + 1] IN
           /\ b \in Counts
           /\ Total(b, m) = Total(a, m) + (IF h >= m THEN 1 ELSE 0)
<1> DEFINE b == [a EXCEPT ![h] = @ + 1]
           one(t) == IF t = h /\ h >= m THEN 1 ELSE 0
           past(t) == IF t >= h /\ h >= m THEN 1 ELSE 0
<1>0. MaxClock \in Nat /\ Hours = 0..MaxClock /\ h \in Nat /\ h <= MaxClock
  BY DEF Numbers, Hours
<1>1. b \in Counts
  BY DEF Counts
<1>2. \A t \in Hours : Term(b, m, t) = Term(a, m, t) + one(t)
  <2> TAKE t \in Hours
  <2>1. a[t] \in Nat /\ b[t] = IF t = h THEN a[t] + 1 ELSE a[t]
    BY DEF Counts
  <2> HIDE DEF b
  <2>2. t \in Int /\ h \in Int
    BY <1>0
  <2> QED
    BY <2>1, <2>2 DEF Term
<1> HIDE DEF b
<1>3. PICK f \in [Hours -> Nat] : SumsTo(MaxClock, a, m, f) /\ Total(a, m) = f[MaxClock]
  BY TotalIsSum
<1>4. PICK g \in [Hours -> Nat] : SumsTo(MaxClock, b, m, g) /\ Total(b, m) = g[MaxClock]
  BY <1>1, TotalIsSum
<1> DEFINE T == {t \in 0..MaxClock : g[t] = f[t] + past(t)}
<1>5. T \in SUBSET (0..MaxClock)
  OBVIOUS
<1>6. 0 \in T
  <2>1. 0 \in Hours /\ f[0] = Term(a, m, 0) /\ g[0] = Term(a, m, 0) + one(0)
    BY <1>0, <1>2, <1>3, <1>4 DEF SumsTo
  <2> QED
    BY <1>0, <2>1
<1>7. ASSUME NEW t \in 1..MaxClock, t - 1 \in T PROVE t \in T
  <2>1. t \in Hours /\ t - 1 \in Hours /\ g[t-1] = f[t-1] + past(t-1)
    BY <1>0, <1>7
  <2>2. f[t] = f[t-1] + Term(a, m, t) /\ g[t] = g[t-1] + (Term(a, m, t) + one(t))
    BY <1>2, <1>3, <1>4, <2>1 DEF SumsTo
  <2>3. Term(a, m, t) \in Nat /\ f[t-1] \in Nat
    BY <2>1, TermIsNat
  <2>4. past(t) = past(t-1) + one(t)
    BY <1>0, <2>1
  <2>5. past(t-1) \in Nat /\ one(t) \in Nat
    OBVIOUS
  <2> HIDE DEF past, one
  <2>6. g[t] = f[t] + past(t)
    BY <2>1, <2>2, <2>3, <2>4, <2>5
  <2> QED
    BY <2>6
<1> HIDE DEF T
<1>8. T = 0..MaxClock
  BY <1>0, <1>5, <1>6, <1>7, UpToTheBound
<1>9. g[MaxClock] = f[MaxClock] + past(MaxClock)
  BY <1>0, <1>8 DEF T
<1>10. past(MaxClock) = IF h >= m THEN 1 ELSE 0
  BY <1>0
<1> QED
  BY <1>1, <1>3, <1>4, <1>9, <1>10 DEF b

\* An hour's count is no larger than a total that covers it.
LEMMA TotalCovers ==
    ASSUME Numbers, NEW a \in Counts, NEW h \in Hours
    PROVE  a[h] <= Total(a, 0)
<1>0. MaxClock \in Nat /\ Hours = 0..MaxClock /\ h \in Nat /\ h <= MaxClock
  BY DEF Numbers, Hours
<1>1. PICK f \in [Hours -> Nat] : SumsTo(MaxClock, a, 0, f) /\ Total(a, 0) = f[MaxClock]
  BY TotalIsSum
<1>2. \A t \in Hours : Term(a, 0, t) = a[t] /\ a[t] \in Nat
  BY <1>0 DEF Term, Counts
<1> DEFINE T == {t \in 0..MaxClock : t >= h => a[h] <= f[t]}
<1>3. T \in SUBSET (0..MaxClock)
  OBVIOUS
<1>4. 0 \in T
  <2>1. 0 \in Hours /\ f[0] = a[0] /\ a[0] \in Nat
    BY <1>0, <1>1, <1>2 DEF SumsTo
  <2> QED
    BY <1>0, <2>1
<1>5. ASSUME NEW t \in 1..MaxClock, t - 1 \in T PROVE t \in T
  <2>1. t \in Hours /\ t - 1 \in Hours /\ (t - 1 >= h => a[h] <= f[t-1])
    BY <1>0, <1>5
  <2>2. f[t] = f[t-1] + a[t]
    BY <1>1, <1>2, <2>1 DEF SumsTo
  <2>3. f[t-1] \in Nat /\ a[t] \in Nat /\ a[h] \in Nat
    BY <1>2, <2>1
  <2> QED
    BY <1>0, <2>1, <2>2, <2>3
<1> HIDE DEF T
<1>6. T = 0..MaxClock
  BY <1>0, <1>3, <1>4, <1>5, UpToTheBound
<1> QED
  BY <1>0, <1>1, <1>6 DEF T

\* Nothing adds up to nothing.
LEMMA TotalOfNothing ==
    ASSUME Numbers, NEW a \in Counts, NEW m \in Int, \A t \in Hours : t >= m => a[t] = 0
    PROVE  Total(a, m) = 0
<1>0. MaxClock \in Nat /\ Hours = 0..MaxClock
  BY DEF Numbers, Hours
<1>1. PICK f \in [Hours -> Nat] : SumsTo(MaxClock, a, m, f) /\ Total(a, m) = f[MaxClock]
  BY TotalIsSum
<1>2. \A t \in Hours : Term(a, m, t) = 0
  BY DEF Term
<1> DEFINE T == {t \in 0..MaxClock : f[t] = 0}
<1>3. T \in SUBSET (0..MaxClock)
  OBVIOUS
<1>4. 0 \in T
  BY <1>0, <1>1, <1>2 DEF SumsTo
<1>5. ASSUME NEW t \in 1..MaxClock, t - 1 \in T PROVE t \in T
  <2>1. t \in Hours /\ f[t] = f[t-1] + 0
    BY <1>0, <1>1, <1>2 DEF SumsTo
  <2> QED
    BY <1>0, <1>5, <2>1
<1> HIDE DEF T
<1>6. T = 0..MaxClock
  BY <1>0, <1>3, <1>4, <1>5, UpToTheBound
<1> QED
  BY <1>0, <1>1, <1>6 DEF T

-----------------------------------------------------------------------------
(***************************************************************************)
(* Why bursts are bounded: what was let through since any hour is what was *)
(* observed since and what is still in flight, because an observation is   *)
(* counted in an hour no earlier than its decision; and what was observed  *)
(* in the last hour is what the score saw, because the window covers it.   *)
(* An evicted key loses both counts, and its stalest time of observation   *)
(* puts it behind every key that stays.                                    *)
(***************************************************************************)
Typed ==
    /\ block \in BOOLEAN /\ clock \in Hours /\ requests \in 0..MaxRequests
    /\ Tracked \subseteq Keys /\ IsFiniteSet(Tracked) /\ Cardinality(Tracked) <= MaxKeys
    /\ \A k \in Tracked : rolling[k] \in Counts
    /\ lastSeen \in [Tracked -> Hours]
    /\ inflight \in [Keys -> 0..MaxInFlight]
    /\ seen \in [Keys -> Counts] /\ warm \in [Keys -> Counts]
    /\ seenAt \in [Keys -> Hours \cup {-1}]

Baseline ==
    /\ \A k \in Tracked : seenAt[k] = lastSeen[k]
    /\ \A k \in Keys : seenAt[k] <= clock
    /\ \A k \in Keys \ Tracked : seen[k] = Nothing
    /\ \A k \in Tracked : \A t \in Hours :
          /\ rolling[k][t] <= seen[k][t]
          /\ t >= clock - Window => rolling[k][t] = seen[k][t]
    /\ \A k \in Tracked, j \in Keys \ Tracked : seenAt[j] <= seenAt[k]

\* A key's requests, and those of them let through on a warm baseline.
Rate(k) ==
    /\ Total(seen[k], 0) + inflight[k] <= requests
    /\ \A m \in Int : m <= clock => Total(warm[k], m) <= Total(seen[k], m) + inflight[k]
    /\ \A t \in Hours : t > clock => warm[k][t] = 0

Burst == excess \in 0..requests /\ excess <= MaxInFlight - 1

AnomalyInv == Typed /\ Baseline /\ (\A k \in Keys : Rate(k)) /\ Burst

\* An hour, and the last of the hours.
LEMMA HoursAre ==
    ASSUME Numbers
    PROVE  /\ Hours = 0..MaxClock /\ MaxClock \in Nat /\ Hours \subseteq Nat
           /\ Nothing \in Counts /\ \A m \in Int : Total(Nothing, m) = 0
<1>1. Hours = 0..MaxClock /\ MaxClock \in Nat /\ Hours \subseteq Nat
  BY DEF Numbers, Hours
<1>2. Nothing \in Counts /\ \A t \in Hours : Nothing[t] = 0
  BY DEF Nothing, Counts
<1> QED
  BY <1>1, <1>2, TotalOfNothing

\* The initial state: nothing observed, nothing in flight.
LEMMA AnomalyStart == Numbers /\ AnomalyInit => AnomalyInv
<1> SUFFICES ASSUME Numbers, AnomalyInit PROVE AnomalyInv
  OBVIOUS
<1>0. /\ MaxKeys \in Nat /\ MaxInFlight \in Nat /\ MaxInFlight >= 1 /\ MaxRequests \in Nat
      /\ 0 \in Hours /\ Nothing \in Counts /\ \A m \in Int : Total(Nothing, m) = 0
  BY HoursAre DEF Numbers
<1>1. Tracked = {} /\ lastSeen \in [{} -> Hours]
  BY DEF AnomalyInit, Tracked
<1>2. Typed
  BY <1>0, <1>1, FS_EmptySet DEF AnomalyInit, Typed
<1>3. Baseline
  BY <1>0, <1>1 DEF AnomalyInit, Baseline
<1>4. ASSUME NEW k \in Keys PROVE Rate(k)
  <2>1. seen[k] = Nothing /\ warm[k] = Nothing /\ inflight[k] = 0 /\ requests = 0
    BY DEF AnomalyInit
  <2>2. \A t \in Hours : Nothing[t] = 0
    BY DEF Nothing
  <2> QED
    BY <1>0, <2>1, <2>2 DEF Rate
<1>5. Burst
  BY <1>0 DEF AnomalyInit, Burst
<1> QED
  BY <1>2, <1>3, <1>4, <1>5 DEF AnomalyInv

\* The key that goes at the cap is tracked, and none that is was observed before it.
LEMMA VictimIsStalest ==
    ASSUME Numbers, Typed, Tracked # {}
    PROVE  Victim \in Tracked /\ \A j \in Tracked : lastSeen[Victim] <= lastSeen[j]
<1> DEFINE T == {lastSeen[k] : k \in Tracked}
<1>1. T \subseteq Nat /\ T # {}
  BY HoursAre DEF Typed
<1>2. PICK n \in T : \A m \in T : n <= m
  BY <1>1, LeastNumber
<1>3. PICK k \in Tracked : lastSeen[k] = n
  BY <1>2
<1>4. \A j \in Tracked : lastSeen[k] <= lastSeen[j]
  BY <1>2, <1>3
<1> QED
  BY <1>4 DEF Victim

\* What Observe does to the keys, of which it may drop one.
Observed(k, gone) ==
    /\ gone \subseteq Tracked /\ k \notin gone
    /\ Tracked' = (Tracked \ gone) \cup {k}
    /\ IsFiniteSet(Tracked') /\ Cardinality(Tracked') <= MaxKeys
    /\ \A g \in gone, j \in Tracked : lastSeen[g] <= lastSeen[j]
    /\ \A j \in Tracked' : j # k => rolling'[j] = rolling[j] /\ lastSeen'[j] = lastSeen[j]
    /\ lastSeen' \in [Tracked' -> Hours] /\ lastSeen'[k] = clock
    /\ rolling'[k] = [t \in Hours |-> IF t >= clock - Window
                                      THEN [Observations(k) EXCEPT ![clock] = @ + 1][t] ELSE 0]
    /\ seen' \in [Keys -> Counts] /\ warm' \in [Keys -> Counts]
    /\ \A j \in Keys : seen'[j] = IF j \in gone THEN Nothing
                                  ELSE IF j = k THEN [seen[k] EXCEPT ![clock] = @ + 1] ELSE seen[j]
    /\ \A j \in Keys : warm'[j] = IF j \in gone THEN Nothing ELSE warm[j]
    /\ seenAt' = [seenAt EXCEPT ![k] = clock]

\* The counts of a key, with one more in this hour.
LEMMA OneMore ==
    ASSUME NEW a \in Counts, NEW h \in Hours, Numbers
    PROVE  /\ [a EXCEPT ![h] = @ + 1] \in Counts
           /\ \A t \in Hours : [a EXCEPT ![h] = @ + 1][t] = IF t = h THEN a[t] + 1 ELSE a[t]
  BY DEF Counts

\* An observation is Observed, with what room had to be made for it.
LEMMA ObserveMeans ==
    ASSUME Numbers, Typed, NEW k \in Keys, Observe(k)
    PROVE  \E gone \in SUBSET Tracked : Observed(k, gone)
<1> DEFINE full == k \notin Tracked /\ Cardinality(Tracked) >= MaxKeys
           gone == IF full THEN {Victim} ELSE {}
           kept == IF full THEN Tracked \ {Victim} ELSE Tracked
           seenx == IF full THEN [seen EXCEPT ![Victim] = Nothing] ELSE seen
           fresh == [t \in Hours |-> IF t >= clock - Window
                                     THEN [Observations(k) EXCEPT ![clock] = @ + 1][t] ELSE 0]
<1>0. /\ MaxKeys \in Nat /\ MaxKeys >= 1 /\ IsFiniteSet(Tracked) /\ Cardinality(Tracked) \in Nat
      /\ Cardinality(Tracked) <= MaxKeys /\ Nothing \in Counts /\ clock \in Hours
  BY HoursAre, FS_CardinalityType DEF Numbers, Typed
<1>1. full => /\ Tracked # {} /\ Victim \in Tracked /\ Victim # k
              /\ \A j \in Tracked : lastSeen[Victim] <= lastSeen[j]
  BY <1>0, FS_EmptySet, VictimIsStalest
<1>2. /\ rolling' = [j \in kept \cup {k} |-> IF j = k THEN fresh ELSE rolling[j]]
      /\ lastSeen' = [j \in kept \cup {k} |-> IF j = k THEN clock ELSE lastSeen[j]]
      /\ seen' = [seenx EXCEPT ![k][clock] = @ + 1]
      /\ warm' = IF full THEN [warm EXCEPT ![Victim] = Nothing] ELSE warm
      /\ seenAt' = [seenAt EXCEPT ![k] = clock]
  BY DEF Observe
<1>3. gone \subseteq Tracked /\ k \notin gone /\ kept = Tracked \ gone
      /\ \A g \in gone, j \in Tracked : lastSeen[g] <= lastSeen[j]
  BY <1>1
<1>4. Tracked' = kept \cup {k}
  BY <1>2 DEF Tracked
<1>5. IsFiniteSet(kept \cup {k}) /\ Cardinality(kept \cup {k}) <= MaxKeys
  <2>1. CASE full
    <3>1. IsFiniteSet(kept) /\ Cardinality(kept) = Cardinality(Tracked) - 1
      BY <1>0, <1>1, <2>1, FS_RemoveElement
    <3>2. IsFiniteSet(kept \cup {k}) /\ Cardinality(kept \cup {k}) = Cardinality(kept) + 1
      BY <2>1, <3>1, FS_AddElement
    <3> QED
      BY <1>0, <3>1, <3>2
  <2>2. CASE k \in Tracked
    <3>1. kept \cup {k} = Tracked
      BY <2>2
    <3> QED
      BY <1>0, <3>1
  <2>3. CASE k \notin Tracked /\ Cardinality(Tracked) < MaxKeys
    <3>1. kept = Tracked
      BY <1>0, <2>3
    <3>2. IsFiniteSet(Tracked \cup {k}) /\ Cardinality(Tracked \cup {k}) = Cardinality(Tracked) + 1
      BY <1>0, <2>3, FS_AddElement
    <3> QED
      BY <1>0, <2>3, <3>1, <3>2
  <2> QED
    BY <1>0, <2>1, <2>2, <2>3
<1>6. seenx \in [Keys -> Counts] /\ seenx[k] = seen[k]
      /\ \A j \in Keys : seenx[j] = IF j \in gone THEN Nothing ELSE seen[j]
  BY <1>0, <1>1 DEF Typed
<1>7. warm' \in [Keys -> Counts]
      /\ \A j \in Keys : warm'[j] = IF j \in gone THEN Nothing ELSE warm[j]
  BY <1>0, <1>1, <1>2 DEF Typed
<1> HIDE DEF full, gone, kept, seenx, fresh
<1>8. [seen[k] EXCEPT ![clock] = @ + 1] \in Counts
  BY <1>0, OneMore DEF Typed
<1>9. seen' = [seenx EXCEPT ![k] = [seen[k] EXCEPT ![clock] = @ + 1]]
  BY <1>2, <1>6
<1>10. seen' \in [Keys -> Counts]
       /\ \A j \in Keys : seen'[j] = IF j = k THEN [seen[k] EXCEPT ![clock] = @ + 1] ELSE seenx[j]
  BY <1>6, <1>8, <1>9
<1>11. lastSeen' \in [Tracked' -> Hours] /\ lastSeen'[k] = clock
       /\ \A j \in Tracked' : j # k => rolling'[j] = rolling[j] /\ lastSeen'[j] = lastSeen[j]
  BY <1>0, <1>2, <1>3, <1>4 DEF Typed
<1>12. rolling'[k] = fresh
  BY <1>2
<1>13. Observed(k, gone)
  BY <1>2, <1>3, <1>4, <1>5, <1>6, <1>7, <1>10, <1>11, <1>12 DEF Observed, fresh
<1> QED
  BY <1>3, <1>13

\* The tracked counts after an observation, and the rest of the types.
LEMMA ObserveKeepsTypes ==
    ASSUME Numbers, Typed, NEW k \in Keys, NEW gone, Observed(k, gone),
           UNCHANGED <<block, clock>>, requests' \in 0..MaxRequests,
           inflight' \in [Keys -> 0..MaxInFlight]
    PROVE  Typed'
<1>1. Nothing \in Counts /\ clock \in Hours /\ Hours \subseteq Nat
  BY HoursAre DEF Typed
<1>2. Observations(k) \in Counts
  BY <1>1 DEF Observations, Typed
<1>3. rolling'[k] \in Counts
  <2>1. [Observations(k) EXCEPT ![clock] = @ + 1] \in Counts
    BY <1>1, <1>2, OneMore
  <2> QED
    BY <2>1 DEF Observed, Counts
<1>4. \A j \in Tracked' : rolling'[j] \in Counts
  BY <1>3 DEF Observed, Typed
<1>5. Tracked' \subseteq Keys
  BY DEF Observed, Typed
<1>6. seenAt' \in [Keys -> Hours \cup {-1}]
  BY <1>1 DEF Observed, Typed
<1>7. Counts' = Counts /\ Hours' = Hours
  BY DEF Counts, Hours
<1>8. Tracked = DOMAIN rolling
  BY DEF Tracked
<1> QED
  BY <1>4, <1>5, <1>6 DEF Observed, Typed

\* The baseline survives an observation.
LEMMA ObserveKeepsBaseline ==
    ASSUME Numbers, Typed, Baseline, NEW k \in Keys, NEW gone, Observed(k, gone),
           UNCHANGED clock
    PROVE  Baseline'
<1>1. /\ Nothing \in Counts /\ clock \in Hours /\ Hours \subseteq Nat /\ Window \in Nat
      /\ \A t \in Hours : Nothing[t] = 0
  BY HoursAre DEF Typed, Numbers, Nothing
<1>2. Observations(k) \in Counts
      /\ \A t \in Hours : /\ Observations(k)[t] <= seen[k][t]
                          /\ t >= clock - Window => Observations(k)[t] = seen[k][t]
  <2>1. CASE k \in Tracked
    BY <2>1 DEF Observations, Typed, Baseline
  <2>2. CASE k \notin Tracked
    <3>1. seen[k] = Nothing /\ Observations(k) = Nothing
      BY <2>2 DEF Observations, Baseline
    <3> QED
      BY <1>1, <3>1
  <2> QED
    BY <2>1, <2>2
<1>3. seen[k] \in Counts /\ seenAt[k] \in Hours \cup {-1}
  BY DEF Typed
<1>4. ASSUME NEW t \in Hours
      PROVE  /\ rolling'[k][t] <= seen'[k][t]
             /\ t >= clock - Window => rolling'[k][t] = seen'[k][t]
  <2>1. seen'[k] = [seen[k] EXCEPT ![clock] = @ + 1]
    BY DEF Observed
  <2>2. seen'[k][t] = IF t = clock THEN seen[k][t] + 1 ELSE seen[k][t]
    BY <1>1, <1>3, <2>1, OneMore
  <2>3. [Observations(k) EXCEPT ![clock] = @ + 1][t]
           = IF t = clock THEN Observations(k)[t] + 1 ELSE Observations(k)[t]
    <3>1. PICK a : a = Observations(k)
      OBVIOUS
    <3>2. a \in Counts
      BY <1>2, <3>1
    <3>3. [a EXCEPT ![clock] = @ + 1][t] = IF t = clock THEN a[t] + 1 ELSE a[t]
      BY <1>1, <3>2, OneMore
    <3> QED
      BY <3>1, <3>3
  <2>4. rolling'[k][t] = IF t >= clock - Window
                         THEN IF t = clock THEN Observations(k)[t] + 1 ELSE Observations(k)[t]
                         ELSE 0
    BY <2>3 DEF Observed
  <2>5. seen[k][t] \in Nat /\ Observations(k)[t] \in Nat
    BY <1>2, <1>3 DEF Counts
  <2> QED
    BY <1>2, <2>2, <2>4, <2>5
<1>5. ASSUME NEW j \in Tracked', NEW t \in Hours
      PROVE  /\ rolling'[j][t] <= seen'[j][t]
             /\ t >= clock - Window => rolling'[j][t] = seen'[j][t]
  <2>1. CASE j = k
    BY <1>4, <2>1
  <2>2. CASE j # k
    <3>1. j \in Tracked /\ j \in Keys /\ rolling'[j] = rolling[j] /\ seen'[j] = seen[j]
      BY <2>2 DEF Observed, Typed
    <3> QED
      BY <3>1 DEF Baseline
  <2> QED
    BY <2>1, <2>2
<1>6. seenAt'[k] = clock /\ \A j \in Keys : j # k => seenAt'[j] = seenAt[j]
  BY DEF Observed, Typed
<1>7. \A j \in Tracked' : seenAt'[j] = lastSeen'[j]
  BY <1>6 DEF Observed, Typed, Baseline
<1>8. \A j \in Keys : seenAt'[j] <= clock
  BY <1>1, <1>6 DEF Baseline
<1>9. \A j \in Keys \ Tracked' : seen'[j] = Nothing
  BY DEF Observed, Baseline
<1>10. ASSUME NEW i \in Tracked', NEW j \in Keys \ Tracked' PROVE seenAt'[j] <= seenAt'[i]
  <2>1. j # k /\ seenAt'[j] = seenAt[j] /\ seenAt[j] <= clock
    BY <1>6 DEF Observed, Baseline
  <2>2. CASE i = k
    BY <1>6, <2>1, <2>2
  <2>3. CASE i # k
    <3>1. i \in Tracked /\ seenAt'[i] = seenAt[i] /\ i \in Keys
      BY <1>6, <2>3 DEF Observed, Typed
    <3>2. CASE j \in gone
      BY <2>1, <3>1, <3>2 DEF Observed, Baseline
    <3>3. CASE j \notin gone
      <4>1. j \in Keys \ Tracked
        BY <3>3 DEF Observed
      <4> QED
        BY <2>1, <3>1, <4>1 DEF Baseline
    <3> QED
      BY <3>2, <3>3
  <2> QED
    BY <2>2, <2>3
<1>11. Nothing' = Nothing /\ Hours' = Hours
  BY DEF Nothing, Hours
<1> QED
  BY <1>5, <1>7, <1>8, <1>9, <1>10, <1>11 DEF Baseline

\* A key's rates survive an observation that ends a request or that a new request makes.
LEMMA ObserveKeepsRates ==
    ASSUME Numbers, Typed, \A j \in Keys : Rate(j), NEW k \in Keys, NEW gone, Observed(k, gone),
           UNCHANGED clock, requests' \in Nat, requests <= requests',
           inflight' \in [Keys -> 0..MaxInFlight], \A j \in Keys : j # k => inflight'[j] = inflight[j],
           inflight'[k] + 1 + requests = inflight[k] + requests', inflight'[k] + 1 >= inflight[k]
    PROVE  \A j \in Keys : Rate(j)'
<1> SUFFICES ASSUME NEW j \in Keys PROVE Rate(j)'
  OBVIOUS
<1>0. /\ Nothing \in Counts /\ clock \in Hours /\ Hours \subseteq Nat /\ requests \in Nat
      /\ \A t \in Hours : Nothing[t] = 0
      /\ \A m \in Int : Total(Nothing, m) = 0
      /\ seen[j] \in Counts /\ warm[j] \in Counts /\ inflight[j] \in Nat /\ inflight'[j] \in Nat
  <2>1. Nothing \in Counts /\ Hours \subseteq Nat /\ \A m \in Int : Total(Nothing, m) = 0
    BY HoursAre
  <2>2. \A t \in Hours : Nothing[t] = 0
    BY DEF Nothing
  <2>3. clock \in Hours /\ requests \in Nat /\ seen[j] \in Counts /\ warm[j] \in Counts
    BY DEF Typed
  <2>4. inflight[j] \in Nat /\ inflight'[j] \in Nat
    <3>1. inflight[j] \in 0..MaxInFlight /\ inflight'[j] \in 0..MaxInFlight
      BY DEF Typed
    <3> QED
      BY <3>1
  <2> QED
    BY <2>1, <2>2, <2>3, <2>4
<1>1. /\ Total(seen[j], 0) + inflight[j] <= requests
      /\ \A m \in Int : m <= clock => Total(warm[j], m) <= Total(seen[j], m) + inflight[j]
      /\ \A t \in Hours : t > clock => warm[j][t] = 0
  BY DEF Rate
<1>2. \A m \in Int : Total(seen[j], m) \in Nat /\ Total(warm[j], m) \in Nat
  <2> TAKE m \in Int
  <2>1. \A a \in Counts : \A t \in Hours : Term(a, m, t) <= Term(a, m, t)
    BY TermIsNat
  <2> QED
    BY <1>0, <2>1, TotalGrows
<1>3. CASE j \in gone
  <2>1. j # k /\ seen'[j] = Nothing /\ warm'[j] = Nothing /\ inflight'[j] = inflight[j]
    BY <1>3 DEF Observed
  <2>2. Total(seen[j], 0) \in Nat
    BY <1>2
  <2> QED
    BY <1>0, <1>1, <2>1, <2>2 DEF Rate, Hours
<1>4. CASE j = k
  <2>1. seen'[k] = [seen[k] EXCEPT ![clock] = @ + 1] /\ warm'[k] = warm[k]
    BY DEF Observed
  <2>2. \A m \in Int : Total(seen'[k], m) = Total(seen[k], m) + (IF clock >= m THEN 1 ELSE 0)
    <3> TAKE m \in Int
    <3> QED
      BY <1>0, <1>4, <2>1, TotalAdds
  <2>3. Total(seen'[k], 0) = Total(seen[k], 0) + 1
    BY <1>0, <2>2
  <2>4. Total(seen'[k], 0) + inflight'[k] <= requests'
    BY <1>0, <1>1, <1>2, <1>4, <2>3
  <2>5. ASSUME NEW m \in Int, m <= clock
        PROVE  Total(warm'[k], m) <= Total(seen'[k], m) + inflight'[k]
    <3>1. Total(seen'[k], m) = Total(seen[k], m) + 1
      BY <1>0, <2>2, <2>5
    <3>2. Total(warm[k], m) <= Total(seen[k], m) + inflight[k]
      BY <1>1, <1>4, <2>5
    <3>3. Total(seen[k], m) \in Nat /\ Total(warm[k], m) \in Nat
      BY <1>2, <1>4
    <3> QED
      BY <1>0, <1>4, <2>1, <3>1, <3>2, <3>3
  <2> QED
    BY <1>1, <1>4, <2>1, <2>4, <2>5 DEF Rate, Hours
<1>5. CASE j \notin gone /\ j # k
  <2>1. seen'[j] = seen[j] /\ warm'[j] = warm[j] /\ inflight'[j] = inflight[j]
    BY <1>5 DEF Observed
  <2>2. Total(seen[j], 0) \in Nat
    BY <1>2
  <2>3. Total(seen[j], 0) + inflight[j] <= requests'
    BY <1>0, <1>1, <2>2
  <2> QED
    BY <1>1, <2>1, <2>3 DEF Rate, Hours
<1> QED
  BY <1>3, <1>4, <1>5

\* What the score sees of the last hour is what was observed in it.
LEMMA RateIsObserved ==
    ASSUME Numbers, Typed, Baseline, NEW k \in Keys, Rate(k)
    PROVE  /\ RecentRate(k) = Total(seen[k], clock - 1)
           /\ RecentRate(k) \in Nat /\ RecentRate(k) + inflight[k] <= requests
<1>0. /\ clock \in Nat /\ Window \in Nat /\ Window >= 1 /\ Hours \subseteq Nat
      /\ seen[k] \in Counts /\ clock - 1 \in Int /\ requests \in Nat /\ inflight[k] \in Nat
  BY HoursAre DEF Typed, Numbers
<1>1. Observations(k) \in Counts
      /\ \A t \in Hours : t >= clock - 1 => Observations(k)[t] = seen[k][t]
  <2>1. CASE k \in Tracked
    <3>1. \A t \in Hours : t >= clock - 1 => t >= clock - Window
      BY <1>0
    <3> QED
      BY <2>1, <3>1 DEF Observations, Typed, Baseline
  <2>2. CASE k \notin Tracked
    BY <2>2, HoursAre DEF Observations, Baseline
  <2> QED
    BY <2>1, <2>2
<1>2. \A t \in Hours : /\ Term(Observations(k), clock - 1, t) = Term(seen[k], clock - 1, t)
                       /\ Term(seen[k], clock - 1, t) \in Nat
                       /\ Term(seen[k], clock - 1, t) <= Term(seen[k], 0, t)
  <2> TAKE t \in Hours
  <2>1. Term(Observations(k), clock - 1, t) = Term(seen[k], clock - 1, t)
    BY <1>1 DEF Term
  <2>2. seen[k][t] \in Nat /\ t \in Nat
    BY <1>0 DEF Counts
  <2> QED
    BY <1>0, <2>1, <2>2 DEF Term
<1>3. \A t \in Hours : /\ Term(Observations(k), clock - 1, t) <= Term(seen[k], clock - 1, t)
                       /\ Term(seen[k], clock - 1, t) <= Term(Observations(k), clock - 1, t)
                       /\ Term(seen[k], clock - 1, t) <= Term(seen[k], 0, t)
  BY <1>2
<1>4. /\ Total(Observations(k), clock - 1) \in Nat /\ Total(seen[k], clock - 1) \in Nat
      /\ Total(Observations(k), clock - 1) <= Total(seen[k], clock - 1)
  BY <1>0, <1>1, <1>3, TotalGrows
<1>5. Total(seen[k], clock - 1) <= Total(Observations(k), clock - 1)
  BY <1>0, <1>1, <1>3, TotalGrows
<1>6. Total(seen[k], 0) \in Nat /\ Total(seen[k], clock - 1) <= Total(seen[k], 0)
  <2>1. \A t \in Hours : Term(seen[k], clock - 1, t) <= Term(seen[k], 0, t)
    BY <1>3
  <2>2. seen[k] \in Counts /\ clock - 1 \in Int /\ 0 \in Int
    BY <1>0
  <2> QED
    BY <2>1, <2>2, TotalGrows
<1>7. RecentRate(k) = Total(Observations(k), clock - 1)
  BY DEF RecentRate
<1>8. Total(seen[k], 0) + inflight[k] <= requests
  BY DEF Rate
<1> QED
  BY <1>0, <1>4, <1>5, <1>6, <1>7, <1>8

\* A rate that the score finds normal is one it allows.
LEMMA AllowedCovers ==
    ASSUME Numbers, NEW k, NEW r \in 0..MaxRequests, ScoreAnomaly(k, r) = "normal"
    PROVE  Allowed(k) \in 0..MaxRequests /\ r <= Allowed(k)
<1> DEFINE fine == {n \in 0..MaxRequests : ~FrequencyDeviates(Summary(k, FALSE), n)
                                           /\ ~FrequencyDeviates(Summary(k, TRUE), n)}
<1>1. \A d \in BOOLEAN : ~FrequencyDeviates(Summary(k, d), r)
  BY DEF ScoreAnomaly
<1>2. r \in fine
  BY <1>1
<1>3. fine \subseteq 0..MaxRequests /\ fine # {} /\ MaxRequests \in Nat
  BY <1>2 DEF Numbers
<1>4. Allowed(k) = Max(fine)
  BY <1>3 DEF Allowed
<1> HIDE DEF fine
<1>5. Max(fine) \in fine /\ \A n \in fine : n <= Max(fine)
  BY <1>3, LargestIsLargest
<1> QED
  BY <1>2, <1>3, <1>4, <1>5

-----------------------------------------------------------------------------
\* The steps.

\* An hour passes: nothing has been let through in the new one.
LEMMA HourStep ==
    ASSUME Numbers, AnomalyInv, Hour
    PROVE  AnomalyInv'
<1>0. /\ clock \in Nat /\ clock' = clock + 1 /\ clock' \in Hours /\ clock' \in Nat
      /\ UNCHANGED <<block, rolling, lastSeen, inflight, requests, seen, seenAt, warm, excess>>
      /\ Hours \subseteq Nat /\ Window \in Nat
  <2>1. clock \in Hours /\ clock < MaxClock /\ clock' = clock + 1
    BY DEF Hour, AnomalyInv, Typed
  <2> QED
    BY <2>1, HoursAre DEF Hour, Numbers
<1>1. Typed'
  BY <1>0 DEF AnomalyInv, Typed, Tracked, Counts, Hours
<1>2. Baseline'
  <2>1. \A t \in Hours : t >= clock' - Window => t >= clock - Window
    BY <1>0
  <2>2. \A k \in Keys : seenAt[k] <= clock'
    <3> TAKE k \in Keys
    <3>1. seenAt[k] \in Hours \cup {-1} /\ seenAt[k] <= clock
      BY DEF AnomalyInv, Typed, Baseline
    <3>2. seenAt[k] \in Int
      <4>1. Hours \subseteq Nat
        BY <1>0
      <4>2. CASE seenAt[k] \in Hours
        <5>1. seenAt[k] \in Nat
          BY <4>1, <4>2, Zenon
        <5> QED
          BY <5>1
      <4>3. CASE seenAt[k] = -1
        <5>1. -1 \in Int
          OBVIOUS
        <5> QED
          BY <4>3, <5>1, Zenon
      <4> QED
        BY <3>1, <4>2, <4>3, Zenon
    <3>3. clock \in Int /\ clock' = clock + 1
      BY <1>0
    <3> QED
      BY <3>1, <3>2, <3>3
  <2>3. Tracked' = Tracked /\ Hours' = Hours /\ Nothing' = Nothing
    BY <1>0 DEF Tracked, Hours, Nothing
  <2> QED
    BY <1>0, <2>1, <2>2, <2>3 DEF AnomalyInv, Baseline
<1>3. ASSUME NEW k \in Keys PROVE Rate(k)'
  <2>1. Rate(k) /\ warm[k] \in Counts /\ seen[k] \in Counts /\ inflight[k] \in Nat
    BY DEF AnomalyInv, Typed
  <2>2. \A t \in Hours : t > clock' => warm[k][t] = 0
    BY <1>0, <2>1 DEF Rate
  <2>3. ASSUME NEW m \in Int, m <= clock'
        PROVE  Total(warm[k], m) <= Total(seen[k], m) + inflight[k]
    <3>1. CASE m <= clock
      BY <2>1, <3>1 DEF Rate
    <3>2. CASE m = clock'
      <4>1. \A t \in Hours : t >= m => warm[k][t] = 0
        BY <1>0, <2>1, <3>2 DEF Rate
      <4>2. Total(warm[k], m) = 0
        BY <2>1, <4>1, TotalOfNothing
      <4>3. \A t \in Hours : Term(seen[k], m, t) <= Term(seen[k], m, t)
        BY <2>1, TermIsNat
      <4>4. Total(seen[k], m) \in Nat
        BY <2>1, <4>3, TotalGrows
      <4> QED
        BY <2>1, <4>2, <4>4
    <3> QED
      BY <1>0, <2>3, <3>1, <3>2
  <2> QED
    BY <1>0, <2>1, <2>2, <2>3 DEF Rate, Hours
<1>4. Burst'
  BY <1>0 DEF AnomalyInv, Burst
<1> QED
  BY <1>1, <1>2, <1>3, <1>4 DEF AnomalyInv

\* An observation, of a request that ends or of one that is denied.
LEMMA ObserveStep ==
    ASSUME Numbers, AnomalyInv, NEW k \in Keys, Observe(k), UNCHANGED <<block, clock, excess>>,
           \/ /\ requests < MaxRequests /\ requests' = requests + 1 /\ inflight' = inflight
           \/ /\ inflight[k] > 0 /\ requests' = requests
              /\ inflight' = [inflight EXCEPT ![k] = @ - 1]
    PROVE  AnomalyInv'
<1>0. /\ requests \in Nat /\ requests <= MaxRequests /\ MaxRequests \in Nat /\ MaxInFlight \in Nat
      /\ inflight \in [Keys -> 0..MaxInFlight] /\ inflight[k] \in 0..MaxInFlight
  BY DEF AnomalyInv, Typed, Numbers
<1>1. PICK gone \in SUBSET Tracked : Observed(k, gone)
  BY ObserveMeans DEF AnomalyInv
<1>2. /\ requests' \in 0..MaxRequests /\ requests <= requests' /\ requests' \in Nat
      /\ inflight' \in [Keys -> 0..MaxInFlight]
      /\ \A j \in Keys : j # k => inflight'[j] = inflight[j]
      /\ inflight'[k] + 1 + requests = inflight[k] + requests'
      /\ inflight'[k] + 1 >= inflight[k]
  <2>1. CASE requests < MaxRequests /\ requests' = requests + 1 /\ inflight' = inflight
    BY <1>0, <2>1
  <2>2. CASE inflight[k] > 0 /\ requests' = requests /\ inflight' = [inflight EXCEPT ![k] = @ - 1]
    <3>1. inflight[k] - 1 \in 0..MaxInFlight /\ inflight'[k] = inflight[k] - 1
      BY <1>0, <2>2
    <3>2. inflight' \in [Keys -> 0..MaxInFlight]
      BY <1>0, <2>2, <3>1
    <3>3. \A j \in Keys : j # k => inflight'[j] = inflight[j]
      BY <1>0, <2>2
    <3> QED
      BY <1>0, <2>2, <3>1, <3>2, <3>3
  <2> QED
    BY <2>1, <2>2
<1>3. Typed'
  BY <1>1, <1>2, ObserveKeepsTypes DEF AnomalyInv
<1>4. Baseline'
  BY <1>1, ObserveKeepsBaseline DEF AnomalyInv
<1>5. \A j \in Keys : Rate(j)'
  BY <1>1, <1>2, ObserveKeepsRates DEF AnomalyInv
<1>6. Burst'
  BY <1>0, <1>2 DEF AnomalyInv, Burst
<1> QED
  BY <1>3, <1>4, <1>5, <1>6 DEF AnomalyInv

\* A request is let through: whatever the score said, it is in flight; and if it
\* said normal, all but those in flight had been counted in the rate it allowed.
LEMMA PassStep ==
    ASSUME Numbers, AnomalyInv, NEW k \in Keys, NEW verdict,
           verdict = "normal" => ScoreAnomaly(k, RecentRate(k)) = "normal",
           requests < MaxRequests, requests' = requests + 1,
           inflight[k] < MaxInFlight, inflight' = [inflight EXCEPT ![k] = @ + 1],
           warm' = IF verdict = "normal" THEN [warm EXCEPT ![k][clock] = @ + 1] ELSE warm,
           excess' = IF verdict # "normal" THEN excess
                     ELSE Max({excess, Total(warm'[k], clock - 1) - (Allowed(k) + 1)}),
           UNCHANGED <<rolling, lastSeen, seen, seenAt, block, clock>>
    PROVE  AnomalyInv'
<1>0. /\ requests \in Nat /\ requests <= MaxRequests /\ MaxRequests \in Nat
      /\ MaxInFlight \in Nat /\ MaxInFlight >= 1
      /\ inflight \in [Keys -> 0..MaxInFlight] /\ inflight[k] \in Nat
      /\ clock \in Hours /\ clock \in Nat /\ Hours \subseteq Nat
      /\ seen[k] \in Counts /\ warm[k] \in Counts /\ warm \in [Keys -> Counts]
      /\ excess \in Nat /\ excess <= requests /\ excess <= MaxInFlight - 1
  BY HoursAre DEF AnomalyInv, Typed, Burst, Numbers
<1>1. inflight' \in [Keys -> 0..MaxInFlight] /\ inflight'[k] = inflight[k] + 1
      /\ \A j \in Keys : j # k => inflight'[j] = inflight[j]
  BY <1>0
<1> DEFINE more == [warm[k] EXCEPT ![clock] = @ + 1]
<1>2. more \in Counts
      /\ \A m \in Int : Total(more, m) = Total(warm[k], m) + (IF clock >= m THEN 1 ELSE 0)
  <2>1. more \in Counts
    BY <1>0, OneMore
  <2>2. ASSUME NEW m \in Int
        PROVE  Total(more, m) = Total(warm[k], m) + (IF clock >= m THEN 1 ELSE 0)
    <3>1. warm[k] \in Counts /\ clock \in Hours
      BY <1>0
    <3> QED
      BY <3>1, TotalAdds
  <2> QED
    BY <2>1, <2>2
<1>3. \A t \in Hours : more[t] = IF t = clock THEN warm[k][t] + 1 ELSE warm[k][t]
  BY <1>0, OneMore
<1>4. /\ warm' \in [Keys -> Counts] /\ \A j \in Keys : j # k => warm'[j] = warm[j]
      /\ verdict = "normal" => warm'[k] = more
      /\ verdict # "normal" => warm' = warm
  <2>1. CASE verdict = "normal"
    <3>1. warm' = [warm EXCEPT ![k] = more]
      BY <1>0, <2>1
    <3> HIDE DEF more
    <3> QED
      BY <1>0, <1>2, <2>1, <3>1
  <2>2. CASE verdict # "normal"
    BY <1>0, <2>2
  <2> QED
    BY <2>1, <2>2
<1> HIDE DEF more
<1>5. \A m \in Int : Total(seen[k], m) \in Nat /\ Total(warm[k], m) \in Nat
  <2> TAKE m \in Int
  <2>1. \A a \in Counts : \A t \in Hours : Term(a, m, t) <= Term(a, m, t)
    BY TermIsNat
  <2> QED
    BY <1>0, <2>1, TotalGrows
<1>6. \A m \in Int : m <= clock => Total(warm[k], m) <= Total(seen[k], m) + inflight[k]
  BY DEF AnomalyInv, Rate
<1>7. Typed'
  BY <1>0, <1>1, <1>4 DEF AnomalyInv, Typed, Tracked, Counts, Hours
<1>8. Baseline'
  BY DEF AnomalyInv, Baseline, Tracked, Hours, Nothing
<1>9. ASSUME NEW j \in Keys PROVE Rate(j)'
  <2>1. Rate(j)
    BY DEF AnomalyInv
  <2>2. CASE j # k
    <3>1. Total(seen[j], 0) \in Nat /\ inflight[j] \in Nat
      <4>1. seen[j] \in Counts /\ inflight[j] \in Nat
        BY DEF AnomalyInv, Typed
      <4>2. \A t \in Hours : Term(seen[j], 0, t) <= Term(seen[j], 0, t)
        BY <4>1, TermIsNat
      <4> QED
        BY <4>1, <4>2, TotalGrows
    <3>2. Total(seen[j], 0) + inflight[j] <= requests'
      BY <1>0, <2>1, <3>1 DEF Rate
    <3> QED
      BY <1>1, <1>4, <2>1, <2>2, <3>2 DEF Rate, Hours
  <2>3. CASE j = k
    <3>1. Total(seen[k], 0) + inflight'[k] <= requests'
      BY <1>0, <1>1, <1>5, <2>1, <2>3 DEF Rate
    <3>2. ASSUME NEW m \in Int, m <= clock
          PROVE  Total(warm'[k], m) <= Total(seen[k], m) + inflight'[k]
      <4>1. Total(warm'[k], m) \in {Total(warm[k], m), Total(warm[k], m) + 1}
        BY <1>0, <1>2, <1>4, <3>2
      <4>2. Total(warm[k], m) <= Total(seen[k], m) + inflight[k]
        BY <1>6, <3>2
      <4> QED
        BY <1>0, <1>1, <1>5, <4>1, <4>2
    <3>3. ASSUME NEW t \in Hours, t > clock PROVE warm'[k][t] = 0
      <4>1. warm[k][t] = 0 /\ t # clock
        BY <1>0, <2>1, <2>3, <3>3 DEF Rate
      <4> QED
        BY <1>3, <1>4, <4>1
    <3> QED
      BY <2>3, <3>1, <3>2, <3>3 DEF Rate, Hours
  <2> QED
    BY <2>2, <2>3
<1>10. Burst'
  <2>1. CASE verdict # "normal"
    BY <1>0, <2>1 DEF Burst
  <2>2. CASE verdict = "normal"
    <3> DEFINE r == RecentRate(k)
               x == Total(warm'[k], clock - 1) - (Allowed(k) + 1)
    <3>1. r = Total(seen[k], clock - 1) /\ r \in Nat /\ r + inflight[k] <= requests
      BY RateIsObserved DEF AnomalyInv
    <3>2. r \in 0..MaxRequests
      BY <1>0, <3>1
    <3>3. Allowed(k) \in 0..MaxRequests /\ r <= Allowed(k)
      BY <2>2, <3>2, AllowedCovers
    <3>4. Total(warm'[k], clock - 1) = Total(warm[k], clock - 1) + 1
      <4>1. warm'[k] = more /\ clock - 1 \in Int /\ clock >= clock - 1
        BY <1>0, <1>4, <2>2
      <4>2. Total(more, clock - 1) = Total(warm[k], clock - 1) + (IF clock >= clock - 1 THEN 1 ELSE 0)
        BY <1>2, <4>1
      <4> QED
        BY <4>1, <4>2
    <3>5. Total(warm[k], clock - 1) <= r + inflight[k] /\ Total(warm[k], clock - 1) \in Nat
      BY <1>0, <1>5, <1>6, <3>1
    <3> HIDE DEF r
    <3>6. x \in Int /\ x <= inflight[k]
      BY <1>0, <3>1, <3>3, <3>4, <3>5
    <3>7. excess' = Max({excess, x})
      BY <2>2
    <3> HIDE DEF x
    <3>8. excess' \in {excess, x} /\ excess' >= excess
      BY <1>0, <3>6, <3>7, LargerOfTwo
    <3> QED
      BY <1>0, <3>1, <3>6, <3>8 DEF Burst
  <2> QED
    BY <2>1, <2>2
<1> QED
  BY <1>7, <1>8, <1>9, <1>10 DEF AnomalyInv

\* The invariant survives every step.
LEMMA AnomalyStep ==
    ASSUME Numbers, AnomalyInv, [AnomalyNext]_anomalyVars
    PROVE  AnomalyInv'
<1>1. CASE Hour
  BY <1>1, HourStep
<1>2. ASSUME NEW k \in Keys, Decide(k) PROVE AnomalyInv'
  <2> DEFINE verdict == IF block THEN ScoreAnomaly(k, RecentRate(k)) ELSE "not asked"
  <2>1. requests < MaxRequests /\ requests' = requests + 1 /\ UNCHANGED <<block, clock>>
    BY <1>2 DEF Decide
  <2>2. verdict = "normal" => ScoreAnomaly(k, RecentRate(k)) = "normal"
    OBVIOUS
  <2>3. \/ verdict = "anomalous" /\ Observe(k) /\ UNCHANGED <<inflight, excess>>
        \/ /\ verdict # "anomalous"
           /\ inflight[k] < MaxInFlight /\ inflight' = [inflight EXCEPT ![k] = @ + 1]
           /\ warm' = IF verdict = "normal" THEN [warm EXCEPT ![k][clock] = @ + 1] ELSE warm
           /\ excess' = IF verdict # "normal" THEN excess
                        ELSE Max({excess, Total(warm'[k], clock - 1) - (Allowed(k) + 1)})
           /\ UNCHANGED <<rolling, lastSeen, seen, seenAt>>
    BY <1>2 DEF Decide
  <2> HIDE DEF verdict
  <2>4. CASE Observe(k) /\ UNCHANGED <<inflight, excess>>
    BY <2>1, <2>4, ObserveStep
  <2>5. CASE verdict # "anomalous" /\ ~(Observe(k) /\ UNCHANGED <<inflight, excess>>)
    BY <2>1, <2>2, <2>3, <2>5, PassStep
  <2> QED
    BY <2>3, <2>4, <2>5
<1>3. ASSUME NEW k \in Keys, Finish(k) PROVE AnomalyInv'
  BY <1>3, ObserveStep DEF Finish
<1>4. ASSUME NEW k \in Keys, RuleDenies(k) PROVE AnomalyInv'
  BY <1>4, ObserveStep DEF RuleDenies
<1>5. CASE UNCHANGED anomalyVars
  <2>1. UNCHANGED <<block, clock, rolling, lastSeen, inflight, requests, seen, seenAt, warm, excess>>
    BY <1>5 DEF anomalyVars
  <2> QED
    BY <2>1 DEF AnomalyInv, Typed, Baseline, Rate, Burst, Tracked, Counts, Hours, Nothing
<1> QED
  BY <1>1, <1>2, <1>3, <1>4, <1>5 DEF AnomalyNext

-----------------------------------------------------------------------------
\* The theorems.

\* The invariant holds in every state.
LEMMA AnomalyInvHolds ==
    ASSUME Numbers
    PROVE  AnomalySpec => []AnomalyInv
<1>1. AnomalyInit => AnomalyInv
  BY AnomalyStart
<1>2. AnomalyInv /\ [AnomalyNext]_anomalyVars => AnomalyInv'
  BY AnomalyStep
<1> QED
  BY <1>1, <1>2, PTL DEF AnomalySpec

\* The baseline of a key is what the window holds of its observations since it
\* was evicted, the cap holds, the stalest key goes; and a burst gets through
\* beyond what the score allows only as far as requests were in flight together
\* (anomaly/baseline.go, anomaly/hook.go).
THEOREM AnomalyHolds == Numbers => (AnomalySpec => []AnomalyIsBounded)
<1>1. AnomalyInv => AnomalyIsBounded
  <2> SUFFICES ASSUME AnomalyInv PROVE AnomalyIsBounded
    OBVIOUS
  <2>1. BaselineIsTheWindow
    BY DEF AnomalyInv, Typed, Baseline, BaselineIsTheWindow
  <2>2. BurstsAreBounded
    BY DEF AnomalyInv, Burst, BurstsAreBounded
  <2> QED
    BY <2>1, <2>2 DEF AnomalyIsBounded
<1> SUFFICES ASSUME Numbers PROVE AnomalySpec => []AnomalyIsBounded
  OBVIOUS
<1> QED
  BY <1>1, AnomalyInvHolds, PTL

\* The counts of the detector keep their ranges: no hour of a key holds more than
\* the requests there were.
THEOREM AnomalyIsTyped == Numbers => (AnomalySpec => []AnomalyTypeOK)
<1>1. ASSUME Numbers, AnomalyInv PROVE AnomalyTypeOK
  <2> USE <1>1
  <2>0. requests \in 0..MaxRequests /\ MaxRequests \in Nat /\ Hours \subseteq Nat
    BY HoursAre DEF AnomalyInv, Typed, Numbers
  <2>1. ASSUME NEW k \in Keys
        PROVE  /\ seen[k] \in [Hours -> 0..MaxRequests]
               /\ warm[k] \in [Hours -> 0..MaxRequests]
    <3>1. seen[k] \in Counts /\ warm[k] \in Counts /\ inflight[k] \in Nat /\ Rate(k) /\ clock \in Nat
      BY <2>0 DEF AnomalyInv, Typed
    <3>2. \A t \in Hours : seen[k][t] <= Total(seen[k], 0) /\ warm[k][t] <= Total(warm[k], 0)
      BY <3>1, TotalCovers
    <3>3. \A t \in Hours : Term(seen[k], 0, t) <= Term(seen[k], 0, t)
                           /\ Term(warm[k], 0, t) <= Term(warm[k], 0, t)
      BY <3>1, TermIsNat
    <3>4. Total(seen[k], 0) \in Nat
      BY <3>1, <3>3, TotalGrows
    <3>5. Total(warm[k], 0) \in Nat
      BY <3>1, <3>3, TotalGrows
    <3>6. Total(seen[k], 0) <= MaxRequests /\ Total(warm[k], 0) <= MaxRequests
      BY <2>0, <3>1, <3>4, <3>5 DEF Rate
    <3>7. \A t \in Hours : seen[k][t] \in Nat /\ warm[k][t] \in Nat
      BY <3>1 DEF Counts
    <3>8. \A t \in Hours : seen[k][t] \in 0..MaxRequests /\ warm[k][t] \in 0..MaxRequests
      BY <2>0, <3>2, <3>4, <3>5, <3>6, <3>7
    <3> QED
      BY <3>1, <3>8 DEF Counts
  <2>2. ASSUME NEW k \in Tracked PROVE rolling[k] \in [Hours -> 0..MaxRequests]
    <3>1. rolling[k] \in Counts /\ k \in Keys /\ \A t \in Hours : rolling[k][t] <= seen[k][t]
      BY DEF AnomalyInv, Typed, Baseline
    <3>2. \A t \in Hours : rolling[k][t] \in Nat /\ seen[k][t] \in 0..MaxRequests
      BY <2>1, <3>1 DEF Counts
    <3>3. \A t \in Hours : rolling[k][t] \in 0..MaxRequests
      BY <2>0, <3>1, <3>2
    <3> QED
      BY <3>1, <3>3 DEF Counts
  <2>3. excess \in 0..MaxRequests
    BY <2>0 DEF AnomalyInv, Burst
  <2>4. seen \in [Keys -> [Hours -> 0..MaxRequests]] /\ warm \in [Keys -> [Hours -> 0..MaxRequests]]
    BY <2>1 DEF AnomalyInv, Typed
  <2> QED
    BY <2>2, <2>3, <2>4 DEF AnomalyInv, Typed, AnomalyTypeOK
<1> SUFFICES ASSUME Numbers PROVE AnomalySpec => []AnomalyTypeOK
  OBVIOUS
<1>2. AnomalyInv => AnomalyTypeOK
  BY <1>1
<1> QED
  BY <1>2, AnomalyInvHolds, PTL
=============================================================================
