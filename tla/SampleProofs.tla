---------------------------- MODULE SampleProofs ----------------------------
(***************************************************************************)
(* Proofs about the pure parts of MCControl: the rules of a policy and     *)
(* both their parsers, the configuration files and bundles, the rule       *)
(* files a generator's are merged with, the commands on record, the        *)
(* list of denials and the body scanners.  A run evaluates them on         *)
(* samples; here they are shown for every input, entries, files, rows and  *)
(* bodies of any length, and the samples are shown to be such inputs.      *)
(***************************************************************************)
EXTENDS MCControl, FiniteSetTheorems, WellFoundedInduction, TLAPS

-----------------------------------------------------------------------------
\* Induction.

\* A property of 0 that passes from each number to the next holds up to the bound.
LEMMA UpToTheBound ==
    ASSUME NEW top \in Nat, NEW T \in SUBSET (0..top), 0 \in T,
           \A n \in 1..top : n - 1 \in T => n \in T
    PROVE  T = 0..top
<1> DEFINE U == (0..top) \ T
           Less == OpToRel(<, Nat)
<1>1. SUFFICES ASSUME U # {} PROVE FALSE
  OBVIOUS
<1>2. IsWellFoundedOn(Less, Nat)
  BY NatLessThanWellFounded
<1>3. \A k, n \in Nat : k < n => <<k, n>> \in Less
  BY DEF OpToRel
<1>4. U \subseteq Nat
  OBVIOUS
<1> HIDE DEF Less, U
<1>5. PICK n \in U : \A k \in U : ~(<<k, n>> \in Less)
  BY <1>1, <1>2, <1>4, WFMin
<1>6. n \in 1..top /\ n - 1 \in 0..top
  BY <1>5 DEF U
<1>7. n - 1 \notin U
  <2>1. n - 1 \in Nat /\ n \in Nat /\ n - 1 < n
    BY <1>6
  <2> QED
    BY <1>3, <1>5, <2>1
<1>8. n - 1 \in T
  BY <1>6, <1>7 DEF U
<1> QED
  BY <1>5, <1>6, <1>8 DEF U

-----------------------------------------------------------------------------
\* Lists that keep some members of others.

\* f gives what is selected from the first i members of s, for each i up to top.
SelectedUpTo(s, kept, top, f) ==
    f = [i \in 0..top |-> IF i = 0 THEN <<>>
                          ELSE IF i \in kept THEN Append(f[i-1], s[i]) ELSE f[i-1]]

\* The recursive function of Selected exists.
LEMMA SelectionExists ==
    ASSUME NEW s, NEW kept, NEW top \in Nat
    PROVE  \E f : SelectedUpTo(s, kept, top, f)
<1> DEFINE T == {k \in 0..top : \E f : SelectedUpTo(s, kept, k, f)}
<1>1. 0 \in T
  <2>1. SelectedUpTo(s, kept, 0, [i \in 0..0 |-> <<>>])
    BY DEF SelectedUpTo
  <2> QED
    BY <2>1
<1>2. ASSUME NEW n \in 1..top, n - 1 \in T PROVE n \in T
  <2>1. PICK f : SelectedUpTo(s, kept, n - 1, f)
    BY <1>2
  <2> DEFINE next == IF n \in kept THEN Append(f[n-1], s[n]) ELSE f[n-1]
             h == [i \in 0..n |-> IF i = n THEN next ELSE f[i]]
  <2>2. \A i \in 0..n : h[i] = IF i = 0 THEN <<>>
                               ELSE IF i \in kept THEN Append(h[i-1], s[i]) ELSE h[i-1]
    <3> SUFFICES ASSUME NEW i \in 0..n
                 PROVE  h[i] = IF i = 0 THEN <<>>
                               ELSE IF i \in kept THEN Append(h[i-1], s[i]) ELSE h[i-1]
      OBVIOUS
    <3>1. CASE i = n
      <4>1. h[n] = next /\ h[n-1] = f[n-1] /\ n # 0
        OBVIOUS
      <4> HIDE DEF h
      <4> QED
        BY <3>1, <4>1
    <3>2. CASE i # n
      <4>1. i \in 0..(n-1) /\ h[i] = f[i] /\ (i # 0 => i - 1 \in 0..(n-1) /\ h[i-1] = f[i-1])
        BY <3>2
      <4> HIDE DEF h
      <4> QED
        BY <2>1, <4>1 DEF SelectedUpTo
    <3> QED
      BY <3>1, <3>2
  <2>3. h = [i \in 0..n |-> h[i]]
    OBVIOUS
  <2> HIDE DEF h
  <2>4. SelectedUpTo(s, kept, n, h)
    BY <2>2, <2>3 DEF SelectedUpTo
  <2> QED
    BY <2>4
<1> HIDE DEF T
<1>3. T = 0..top
  <2>1. T \in SUBSET (0..top)
    BY DEF T
  <2> QED
    BY <1>1, <1>2, <2>1, UpToTheBound
<1>4. top \in T
  BY <1>3
<1> QED
  BY <1>4 DEF T

\* r has the members of s at the places of kept up to n, in the order of places.
Places(s, kept, n, r, place) ==
    /\ Len(r) \in Nat /\ DOMAIN r = 1..Len(r)
    /\ place \in [1..Len(r) -> (1..n) \cap kept]
    /\ \A k \in 1..Len(r) : r[k] = s[place[k]]
    /\ \A j, k \in 1..Len(r) : j < k => place[j] < place[k]
    /\ \A i \in (1..n) \cap kept : \E k \in 1..Len(r) : place[k] = i

\* One place further on.
LEMMA PlacesStep ==
    ASSUME NEW S, NEW s \in Seq(S), NEW kept, NEW n \in 1..Len(s), NEW r \in Seq(S), NEW place,
           Places(s, kept, n - 1, r, place)
    PROVE  LET next == IF n \in kept THEN Append(r, s[n]) ELSE r
           IN  next \in Seq(S) /\ \E p : Places(s, kept, n, next, p)
<1>1. CASE n \notin kept
  <2>1. (1..n) \cap kept = (1..(n-1)) \cap kept
    BY <1>1
  <2> QED
    BY <1>1, <2>1 DEF Places
<1>2. CASE n \in kept
  <2> DEFINE next == Append(r, s[n])
             p == [k \in 1..(Len(r)+1) |-> IF k = Len(r) + 1 THEN n ELSE place[k]]
  <2>1. s[n] \in S /\ next \in Seq(S) /\ Len(next) = Len(r) + 1 /\ DOMAIN next = 1..(Len(r)+1)
    OBVIOUS
  <2>2. next[Len(r)+1] = s[n] /\ \A k \in 1..Len(r) : next[k] = r[k]
    OBVIOUS
  <2>3. p[Len(r)+1] = n /\ \A k \in 1..Len(r) : p[k] = place[k]
    OBVIOUS
  <2>4. Len(r) \in Nat /\ \A k \in 1..Len(r) : place[k] \in 1..(n-1) /\ place[k] \in kept
    BY DEF Places
  <2>5. p \in [1..(Len(r)+1) -> (1..n) \cap kept]
    <3>1. \A k \in 1..(Len(r)+1) : p[k] \in (1..n) \cap kept
      <4> SUFFICES ASSUME NEW k \in 1..(Len(r)+1) PROVE p[k] \in (1..n) \cap kept
        OBVIOUS
      <4> HIDE DEF p
      <4>1. k = Len(r) + 1 \/ k \in 1..Len(r)
        BY <2>4
      <4> QED
        BY <1>2, <2>3, <2>4, <4>1
    <3> QED
      BY <3>1
  <2> HIDE DEF p, next
  <2>6. \A k \in 1..(Len(r)+1) : k = Len(r) + 1 \/ k \in 1..Len(r)
    BY <2>4
  <2>7. \A k \in 1..(Len(r)+1) : next[k] = s[p[k]]
    BY <2>2, <2>3, <2>6 DEF Places
  <2>8. \A j, k \in 1..(Len(r)+1) : j < k => p[j] < p[k]
    <3> SUFFICES ASSUME NEW j \in 1..(Len(r)+1), NEW k \in 1..(Len(r)+1), j < k
                 PROVE  p[j] < p[k]
      OBVIOUS
    <3>1. j \in 1..Len(r)
      BY <2>4, <2>6
    <3>2. CASE k = Len(r) + 1
      BY <2>3, <2>4, <3>1, <3>2
    <3>3. CASE k \in 1..Len(r)
      BY <2>3, <3>1, <3>3 DEF Places
    <3> QED
      BY <2>6, <3>2, <3>3
  <2>9. \A i \in (1..n) \cap kept : \E k \in 1..(Len(r)+1) : p[k] = i
    <3> SUFFICES ASSUME NEW i \in (1..n) \cap kept PROVE \E k \in 1..(Len(r)+1) : p[k] = i
      OBVIOUS
    <3>1. CASE i = n
      <4>1. Len(r) + 1 \in 1..(Len(r)+1)
        BY <2>4
      <4> QED
        BY <2>3, <3>1, <4>1
    <3>2. CASE i # n
      <4>1. i \in (1..(n-1)) \cap kept
        BY <3>2
      <4>2. PICK k \in 1..Len(r) : place[k] = i
        BY <4>1 DEF Places
      <4>3. k \in 1..(Len(r)+1)
        BY <2>4
      <4> QED
        BY <2>3, <4>2, <4>3
    <3> QED
      BY <3>1, <3>2
  <2>10. Places(s, kept, n, next, p)
    <3>1. Len(next) = Len(r) + 1 /\ Len(r) + 1 \in Nat
      BY <2>1, <2>4
    <3> QED
      BY <2>1, <2>5, <2>7, <2>8, <2>9, <3>1 DEF Places
  <2> QED
    BY <1>2, <2>1, <2>10 DEF next
<1> QED
  BY <1>1, <1>2

\* What Selected gives, in either module that uses it.
LEMMA SelectedHas ==
    ASSUME NEW S, NEW s \in Seq(S), NEW kept
    PROVE  /\ Rules!Selected(s, kept) = Denied!Selected(s, kept)
           /\ Rules!Selected(s, kept) \in Seq(S)
           /\ \E place : Places(s, kept, Len(s), Rules!Selected(s, kept), place)
<1> DEFINE upTo[i \in 0..Len(s)] ==
             IF i = 0 THEN <<>> ELSE IF i \in kept THEN Append(upTo[i-1], s[i]) ELSE upTo[i-1]
<1>1. Rules!Selected(s, kept) = upTo[Len(s)] /\ Denied!Selected(s, kept) = upTo[Len(s)]
  BY DEF Rules!Selected, Denied!Selected
<1>2. upTo = CHOOSE f : SelectedUpTo(s, kept, Len(s), f)
  BY DEF SelectedUpTo
<1>3. SelectedUpTo(s, kept, Len(s), upTo)
  <2> HIDE DEF upTo
  <2>1. Len(s) \in Nat
    OBVIOUS
  <2>2. \E f : SelectedUpTo(s, kept, Len(s), f)
    BY <2>1, SelectionExists
  <2> QED
    BY <1>2, <2>2
<1> HIDE DEF upTo
<1> DEFINE Good(i) == upTo[i] \in Seq(S) /\ \E place : Places(s, kept, i, upTo[i], place)
           T == {i \in 0..Len(s) : Good(i)}
<1>4. Len(s) \in Nat
  OBVIOUS
<1>5. 0 \in T
  <2>1. upTo[0] = <<>>
    BY <1>3, <1>4 DEF SelectedUpTo
  <2>2. Places(s, kept, 0, <<>>, <<>>)
    <3>1. <<>> \in [1..0 -> (1..0) \cap kept]
      OBVIOUS
    <3> QED
      BY <3>1 DEF Places
  <2>3. <<>> \in Seq(S)
    OBVIOUS
  <2>4. Good(0)
    BY <2>1, <2>2, <2>3
  <2> HIDE DEF Good
  <2> QED
    BY <1>4, <2>4
<1>6. ASSUME NEW n \in 1..Len(s), n - 1 \in T PROVE n \in T
  <2>1. upTo[n] = IF n \in kept THEN Append(upTo[n-1], s[n]) ELSE upTo[n-1]
    <3>1. n \in 0..Len(s) /\ n # 0
      OBVIOUS
    <3> QED
      BY <1>3, <3>1 DEF SelectedUpTo
  <2>2. Good(n)
    BY <1>6, <2>1, PlacesStep
  <2> QED
    BY <2>2
<1>7. T = 0..Len(s)
  <2>1. T \in SUBSET (0..Len(s))
    OBVIOUS
  <2> HIDE DEF T
  <2> QED
    BY <1>4, <1>5, <1>6, <2>1, UpToTheBound
<1>8. Len(s) \in T
  BY <1>4, <1>7
<1> QED
  BY <1>1, <1>8

\* The members selected are those at the places.
LEMMA SelectedMembers ==
    ASSUME NEW S, NEW s \in Seq(S), NEW kept \in SUBSET DOMAIN s
    PROVE  /\ Rules!Selected(s, kept) \in Seq(S)
           /\ Range(Rules!Selected(s, kept)) = {s[i] : i \in kept}
<1>1. PICK place : Places(s, kept, Len(s), Rules!Selected(s, kept), place)
  BY SelectedHas
<1>2. Rules!Selected(s, kept) \in Seq(S)
  BY SelectedHas
<1> DEFINE r == Rules!Selected(s, kept)
<1> HIDE DEF r
<1>3. DOMAIN r = 1..Len(r) /\ (1..Len(s)) \cap kept = kept
  BY <1>2 DEF r
<1>4. Range(r) = {s[i] : i \in kept}
  <2>1. ASSUME NEW k \in DOMAIN r PROVE r[k] \in {s[i] : i \in kept}
    BY <1>1, <1>3, <2>1 DEF Places, r
  <2>2. ASSUME NEW i \in kept PROVE \E k \in DOMAIN r : r[k] = s[i]
    BY <1>1, <1>3, <2>2 DEF Places, r
  <2> QED
    BY <2>1, <2>2 DEF Range
<1> QED
  BY <1>2, <1>4 DEF r

\* As many members are selected as there are places.
LEMMA SelectedCount ==
    ASSUME NEW S, NEW s \in Seq(S), NEW kept \in SUBSET DOMAIN s
    PROVE  Cardinality(kept) = Len(Rules!Selected(s, kept)) /\ IsFiniteSet(kept)
<1>1. PICK place : Places(s, kept, Len(s), Rules!Selected(s, kept), place)
  BY SelectedHas
<1> DEFINE n == Len(Rules!Selected(s, kept))
<1>2. n \in Nat
  BY <1>1 DEF Places
<1>3. (1..Len(s)) \cap kept = kept
  OBVIOUS
<1> HIDE DEF n
<1>4. place \in Bijection(1..n, kept)
  <2>1. place \in [1..n -> kept]
    BY <1>1, <1>3 DEF Places, n
  <2>2. \A j, k \in 1..n : place[j] = place[k] => j = k
    <3> SUFFICES ASSUME NEW j \in 1..n, NEW k \in 1..n, place[j] = place[k], j # k PROVE FALSE
      OBVIOUS
    <3>1. j < k \/ k < j
      BY <1>2
    <3>2. place[j] < place[k] \/ place[k] < place[j]
      BY <1>1, <3>1 DEF Places, n
    <3>3. place[j] \in Nat /\ place[k] \in Nat
      BY <1>3, <2>1
    <3> QED
      BY <3>2, <3>3
  <2>3. \A i \in kept : \E k \in 1..n : place[k] = i
    BY <1>1, <1>3 DEF Places, n
  <2> QED
    BY <2>1, <2>2, <2>3 DEF Bijection, Injection, Surjection, IsInjective
<1>5. ExistsBijection(1..n, kept)
  BY <1>4 DEF ExistsBijection
<1>6. IsFiniteSet(1..n) /\ Cardinality(1..n) = n
  BY <1>2, FS_Interval
<1>7. IsFiniteSet(kept) /\ Cardinality(kept) = n
  BY <1>5, <1>6, FS_Bijection
<1> QED
  BY <1>7 DEF n

-----------------------------------------------------------------------------
\* Entries of deny_hosts.

\* A host pattern as an operator may write it, with names from any words.
PatternOf(Text) ==
    {t \in [stars : Nat, lead : BOOLEAN, name : Seq(Text),
            extra : {"none", "space", "scheme", "path", "port", "bracket"}] :
        /\ t.lead => t.stars >= 1
        /\ t.name = <<>> => t.extra = "none"}

\* A name is a suffix of itself.
LEMMA SuffixOfItself ==
    ASSUME NEW Text, NEW s \in Seq(Text)
    PROVE  Rules!IsSuffix(s, s)
<1>1. Len(s) \in Nat
  OBVIOUS
<1> DEFINE r == [i \in 1..Len(s) |-> s[(Len(s) - i) + 1]]
<1>2. r \in Seq(Text)
  <2>1. \A i \in 1..Len(s) : s[(Len(s) - i) + 1] \in Text
    <3> SUFFICES ASSUME NEW i \in 1..Len(s) PROVE s[(Len(s) - i) + 1] \in Text
      OBVIOUS
    <3>1. (Len(s) - i) + 1 \in 1..Len(s)
      BY <1>1
    <3> QED
      BY <3>1
  <2>2. r \in [1..Len(s) -> Text]
    BY <2>1
  <2> QED
    BY <1>1, <2>2
<1> HIDE DEF r
<1>3. Len(r) \in Nat /\ Len(r) <= Len(r)
  BY <1>2
<1>4. Rules!IsPrefix(r, r)
  BY <1>3 DEF Rules!IsPrefix
<1> QED
  BY <1>4 DEF Rules!IsSuffix, Rules!Reverse, r

\* The two parsers of an entry accept the same entries.
LEMMA ParsersAgree ==
    ASSUME NEW Text, NEW t \in PatternOf(Text)
    PROVE  Rules!ParseDenyHost(t) <=> Rules!ParseDenyHostEntry(t)
<1>1. /\ t.stars \in Nat /\ t.lead \in BOOLEAN
      /\ t.extra \in {"none", "space", "scheme", "path", "port", "bracket"}
      /\ t.lead => t.stars >= 1
  BY DEF PatternOf
<1>2. t.stars < 2 <=> t.stars \in {0, 1}
  BY <1>1
<1> QED
  BY <1>1, <1>2 DEF Rules!ParseDenyHost, Rules!ParseDenyHostEntry, Rules!Literal

\* An entry the proxy accepts denies the hosts that it names and no other.
LEMMA EntryCovers ==
    ASSUME NEW Text, NEW t \in PatternOf(Text), Rules!ParseDenyHost(t), t.extra # "bracket", NEW h
    PROVE  Rules!MatchDenyHost(t, h) <=> Rules!NameCovers(t, h)
<1>1. t.stars \in Nat /\ t.lead \in BOOLEAN /\ (t.lead => t.stars >= 1) /\ t.name \in Seq(Text)
  BY DEF PatternOf
<1>2. Rules!IsSuffix(t.name, t.name)
  BY <1>1, SuffixOfItself
<1>3. t.stars = 0 \/ (t.stars = 1 /\ t.lead)
  BY DEF Rules!ParseDenyHost
<1>4. CASE t.stars = 0
  <2>1. ~t.lead
    BY <1>1, <1>4
  <2> QED
    BY <1>4, <2>1 DEF Rules!MatchDenyHost, Rules!NameCovers
<1>5. CASE t.stars = 1 /\ t.lead
  BY <1>2, <1>5 DEF Rules!MatchDenyHost, Rules!NameCovers
<1> QED
  BY <1>3, <1>4, <1>5

\* The same of a list of entries: one of them covers the host.
LEMMA EntriesCover ==
    ASSUME NEW Text, NEW ts, NEW h,
           \A i \in DOMAIN ts : /\ ts[i] \in PatternOf(Text)
                                /\ Rules!ParseDenyHost(ts[i]) /\ ts[i].extra # "bracket"
    PROVE  Rules!MatchDenyHosts(ts, h) <=> \E i \in DOMAIN ts : Rules!NameCovers(ts[i], h)
<1>1. \A i \in DOMAIN ts : Rules!MatchDenyHost(ts[i], h) <=> Rules!NameCovers(ts[i], h)
  BY EntryCovers
<1> QED
  BY <1>1 DEF Rules!MatchDenyHosts

\* What either parser accepts the other accepts, whatever the text, and it denies
\* the hosts it names and no other (a bracketed address aside).
THEOREM EveryEntryMeansWhatItSays ==
    ASSUME NEW Text, NEW t \in PatternOf(Text)
    PROVE  /\ Rules!ParseDenyHost(t) <=> Rules!ParseDenyHostEntry(t)
           /\ Rules!ParseDenyHost(t) /\ t.extra # "bracket" =>
                 \A h : Rules!MatchDenyHosts(<<t>>, h) <=> Rules!NameCovers(t, h)
<1>1. DOMAIN <<t>> = {1} /\ <<t>>[1] = t
  OBVIOUS
<1>2. ASSUME Rules!ParseDenyHost(t), t.extra # "bracket", NEW h
      PROVE  Rules!MatchDenyHosts(<<t>>, h) <=> Rules!NameCovers(t, h)
  BY <1>1, <1>2, EntryCovers DEF Rules!MatchDenyHosts
<1> QED
  BY <1>2, ParsersAgree

-----------------------------------------------------------------------------
\* Files of deny_hosts.

\* g gives the first i lists one after the other, for each i up to top.
FlatFrom(seqs, g, top) ==
    g = [i \in 1..top |-> IF i = 1 THEN seqs[i] ELSE g[i - 1] \o seqs[i]]

\* The recursive function of FlattenSeq exists.
LEMMA FlatExists ==
    ASSUME NEW seqs, NEW top \in Nat
    PROVE  \E g : FlatFrom(seqs, g, top)
<1> DEFINE T == {k \in 0..top : \E g : FlatFrom(seqs, g, k)}
<1>1. 0 \in T
  <2>1. FlatFrom(seqs, [i \in 1..0 |-> seqs], 0)
    BY DEF FlatFrom
  <2> QED
    BY <2>1
<1>2. ASSUME NEW n \in 1..top, n - 1 \in T PROVE n \in T
  <2>1. PICK g : FlatFrom(seqs, g, n - 1)
    BY <1>2
  <2> DEFINE h == [i \in 1..n |-> IF i = n THEN (IF n = 1 THEN seqs[n] ELSE g[n - 1] \o seqs[n]) ELSE g[i]]
  <2>2. \A i \in 1..n : h[i] = IF i = 1 THEN seqs[i] ELSE h[i - 1] \o seqs[i]
    <3> SUFFICES ASSUME NEW i \in 1..n
                 PROVE  h[i] = IF i = 1 THEN seqs[i] ELSE h[i - 1] \o seqs[i]
      OBVIOUS
    <3>1. CASE i = n
      <4>1. h[i] = (IF n = 1 THEN seqs[n] ELSE g[n - 1] \o seqs[n]) /\ (n # 1 => h[i - 1] = g[n - 1])
        BY <3>1
      <4> HIDE DEF h
      <4> QED
        BY <3>1, <4>1
    <3>2. CASE i # n
      <4>1. i \in 1..(n - 1) /\ h[i] = g[i] /\ (i # 1 => i - 1 \in 1..(n - 1) /\ h[i - 1] = g[i - 1])
        BY <3>2
      <4> HIDE DEF h
      <4> QED
        BY <2>1, <4>1 DEF FlatFrom
    <3> QED
      BY <3>1, <3>2
  <2>3. h = [i \in 1..n |-> h[i]]
    OBVIOUS
  <2> HIDE DEF h
  <2>4. FlatFrom(seqs, h, n)
    BY <2>2, <2>3 DEF FlatFrom
  <2> QED
    BY <2>4
<1> HIDE DEF T
<1>3. T = 0..top
  <2>1. T \in SUBSET (0..top)
    BY DEF T
  <2> QED
    BY <1>1, <1>2, <2>1, UpToTheBound
<1>4. top \in T
  BY <1>3
<1> QED
  BY <1>4 DEF T

\* FlattenSeq is its last value.
LEMMA FlattenIs ==
    ASSUME NEW seqs, Len(seqs) \in Nat, Len(seqs) # 0
    PROVE  \E g : FlatFrom(seqs, g, Len(seqs)) /\ Rules!FlattenSeq(seqs) = g[Len(seqs)]
<1> DEFINE flatten[i \in 1..Len(seqs)] ==
            IF i = 1 THEN seqs[i] ELSE flatten[i-1] \o seqs[i]
<1>1. flatten = CHOOSE g : FlatFrom(seqs, g, Len(seqs))
  BY DEF FlatFrom
<1>2. FlatFrom(seqs, flatten, Len(seqs))
  BY <1>1, FlatExists
<1>3. Rules!FlattenSeq(seqs) = flatten[Len(seqs)]
  BY DEF Rules!FlattenSeq
<1> QED
  BY <1>2, <1>3


\* The members of two lists put together.
LEMMA ConcatRange ==
    ASSUME NEW S, NEW a \in Seq(S), NEW b \in Seq(S)
    PROVE  Range(a \o b) = Range(a) \cup Range(b)
<1>1. /\ Len(a) \in Nat /\ Len(b) \in Nat /\ DOMAIN a = 1..Len(a) /\ DOMAIN b = 1..Len(b)
      /\ a \o b \in Seq(S) /\ Len(a \o b) = Len(a) + Len(b)
  OBVIOUS
<1>2. DOMAIN (a \o b) = 1..(Len(a) + Len(b))
  BY <1>1
<1>3. \A i \in 1..(Len(a) + Len(b)) : (a \o b)[i] = IF i <= Len(a) THEN a[i] ELSE b[i - Len(a)]
  OBVIOUS
<1> DEFINE c == a \o b
<1> HIDE DEF c
<1>4. ASSUME NEW i \in DOMAIN c PROVE c[i] \in Range(a) \cup Range(b)
  <2>1. i \in 1..(Len(a) + Len(b))
    BY <1>2 DEF c
  <2>2. CASE i <= Len(a)
    <3>1. i \in DOMAIN a /\ c[i] = a[i]
      BY <1>1, <1>3, <2>1, <2>2 DEF c
    <3> QED
      BY <3>1 DEF Range
  <2>3. CASE ~(i <= Len(a))
    <3>1. i - Len(a) \in DOMAIN b /\ c[i] = b[i - Len(a)]
      BY <1>1, <1>3, <2>1, <2>3 DEF c
    <3> QED
      BY <3>1 DEF Range
  <2> QED
    BY <2>2, <2>3
<1>5. ASSUME NEW i \in DOMAIN a PROVE a[i] \in Range(c)
  <2>1. i \in DOMAIN c /\ c[i] = a[i]
    BY <1>1, <1>2, <1>3 DEF c
  <2> QED
    BY <2>1 DEF Range
<1>6. ASSUME NEW i \in DOMAIN b PROVE b[i] \in Range(c)
  <2>1. i + Len(a) \in DOMAIN c /\ c[i + Len(a)] = b[i]
    <3>1. i + Len(a) \in 1..(Len(a) + Len(b)) /\ ~(i + Len(a) <= Len(a)) /\ (i + Len(a)) - Len(a) = i
      BY <1>1
    <3> QED
      BY <1>2, <1>3, <3>1 DEF c
  <2> QED
    BY <2>1 DEF Range
<1> QED
  BY <1>4, <1>5, <1>6 DEF Range, c

\* It is a list of the members of the lists.
LEMMA FlattenMembers ==
    ASSUME NEW S, NEW s \in Seq(Seq(S))
    PROVE  /\ Rules!FlattenSeq(s) \in Seq(S)
           /\ Range(Rules!FlattenSeq(s)) = UNION {Range(s[i]) : i \in DOMAIN s}
<1>1. Len(s) \in Nat /\ DOMAIN s = 1..Len(s) /\ \A i \in 1..Len(s) : s[i] \in Seq(S)
  OBVIOUS
<1>2. CASE Len(s) = 0
  <2>1. Rules!FlattenSeq(s) = s /\ s = <<>>
    BY <1>2 DEF Rules!FlattenSeq
  <2> QED
    BY <2>1 DEF Range
<1>3. CASE Len(s) # 0
  <2>1. PICK g : FlatFrom(s, g, Len(s)) /\ Rules!FlattenSeq(s) = g[Len(s)]
    BY <1>1, <1>3, FlattenIs
  <2> DEFINE Good(k) == g[k] \in Seq(S) /\ Range(g[k]) = UNION {Range(s[i]) : i \in 1..k}
             T == {k \in 0..Len(s) : k # 0 => Good(k)}
  <2>2. 0 \in T
    BY <1>1
  <2>3. ASSUME NEW k \in 1..Len(s), k - 1 \in T PROVE k \in T
    <3>1. g[k] = IF k = 1 THEN s[k] ELSE g[k - 1] \o s[k]
      BY <2>1 DEF FlatFrom
    <3>2. s[k] \in Seq(S)
      BY <1>1
    <3>3. CASE k = 1
      <4>1. 1..k = {1}
        BY <3>3
      <4>2. g[k] = s[1]
        BY <3>1, <3>3
      <4>3. Good(k)
        BY <3>2, <3>3, <4>1, <4>2
      <4> HIDE DEF Good
      <4> QED
        BY <4>3
    <3>4. CASE k # 1
      <4>1. Good(k - 1)
        BY <2>3, <3>4
      <4>2. g[k] = g[k - 1] \o s[k]
        BY <3>1, <3>4
      <4>3. Range(g[k]) = Range(g[k - 1]) \cup Range(s[k])
        BY <3>2, <4>1, <4>2, ConcatRange
      <4>4. 1..k = (1..(k - 1)) \cup {k}
        OBVIOUS
      <4>5. UNION {Range(s[i]) : i \in 1..k} = (UNION {Range(s[i]) : i \in 1..(k - 1)}) \cup Range(s[k])
        BY <4>4
      <4>6. g[k] \in Seq(S)
        BY <3>2, <4>1, <4>2
      <4>7. Good(k)
        BY <4>1, <4>3, <4>5, <4>6
      <4> HIDE DEF Good
      <4> QED
        BY <4>7
    <3> QED
      BY <3>3, <3>4
  <2> HIDE DEF T, Good
  <2>4. T = 0..Len(s)
    <3>1. T \in SUBSET (0..Len(s))
      BY DEF T
    <3> QED
      BY <1>1, <2>2, <2>3, <3>1, UpToTheBound
  <2>5. Good(Len(s))
    BY <1>1, <1>3, <2>4 DEF T
  <2> QED
    BY <1>1, <2>1, <2>5 DEF Good
<1> QED
  BY <1>2, <1>3

\* A line of a file: its entries, each of which may be blank or a comment; only an
\* item of a list and a flow list have any.
LineOf(Text) ==
    {l \in [form : {"comment", "key", "item", "flow"},
            entries : Seq([text : BOOLEAN,
                           entry : {t \in PatternOf(Text) : t.extra # "bracket"}])] :
        l.form \notin {"item", "flow"} => l.entries = <<>>}

\* The entries a file of lines names.
Named(lines) ==
    {e.entry : e \in {e \in UNION {Rules!ToSet(lines[i].entries) : i \in DOMAIN lines} : e.text}}

\* What is read of a file is what its lines name, in one list.
LEMMA FileRead ==
    ASSUME NEW Text, NEW lines \in Seq(LineOf(Text))
    PROVE  \E texts : /\ Named(lines) = {texts[i].entry : i \in DOMAIN texts}
                      /\ Rules!ParseDenyHostsFile(lines) =
                            IF \A i \in DOMAIN texts : Rules!ParseDenyHost(texts[i].entry)
                            THEN texts ELSE "refused"
<1> DEFINE E == [text : BOOLEAN, entry : {t \in PatternOf(Text) : t.extra # "bracket"}]
           entries(l) == IF l.form \in {"item", "flow"} THEN l.entries ELSE <<>>
           lists == [i \in DOMAIN lines |-> entries(lines[i])]
           flat == Rules!FlattenSeq(lists)
           kept == {i \in DOMAIN flat : flat[i].text}
           texts == Rules!Selected(flat, kept)
<1>1. DOMAIN lines = 1..Len(lines) /\ Len(lines) \in Nat /\ \A i \in DOMAIN lines : lines[i] \in LineOf(Text)
  OBVIOUS
<1>2. \A i \in DOMAIN lines : lists[i] = lines[i].entries /\ lists[i] \in Seq(E)
  BY <1>1 DEF LineOf
<1>3. DOMAIN lists = 1..Len(lines)
  BY <1>1
<1> HIDE DEF lists, E
<1>4. lists \in Seq(Seq(E))
  <2>1. lists \in [1..Len(lines) -> Seq(E)]
    BY <1>1, <1>2, <1>3 DEF lists
  <2> QED
    BY <1>1, <2>1
<1>5. flat \in Seq(E) /\ Range(flat) = UNION {Range(lists[i]) : i \in DOMAIN lists}
  BY <1>4, FlattenMembers
<1>6. Rules!ParseDenyHostsFile(lines) =
          IF \A i \in DOMAIN texts : Rules!ParseDenyHost(texts[i].entry) THEN texts ELSE "refused"
  BY DEF Rules!ParseDenyHostsFile, Rules!ParseDenyHosts, lists
<1> HIDE DEF flat
<1>7. Range(texts) = {flat[i] : i \in kept}
  <2>1. kept \in SUBSET DOMAIN flat
    OBVIOUS
  <2> HIDE DEF kept
  <2> QED
    BY <1>5, <2>1, SelectedMembers
<1> HIDE DEF texts
<1>8. UNION {Rules!ToSet(lines[i].entries) : i \in DOMAIN lines} = Range(flat)
  <2>1. \A i \in DOMAIN lines : Rules!ToSet(lines[i].entries) = Range(lists[i])
    BY <1>2 DEF Rules!ToSet, Range
  <2> QED
    BY <1>1, <1>3, <1>5, <2>1
<1>9. {e \in Range(flat) : e.text} = {flat[i] : i \in kept}
  BY DEF Range
<1>10. Named(lines) = {e.entry : e \in Range(texts)}
  BY <1>7, <1>8, <1>9 DEF Named
<1>11. Named(lines) = {texts[i].entry : i \in DOMAIN texts}
  BY <1>10 DEF Range
<1> QED
  BY <1>6, <1>11

\* What a file names is a pattern, and not a bracketed one.
LEMMA NamedArePatterns ==
    ASSUME NEW Text, NEW lines \in Seq(LineOf(Text)), NEW t \in Named(lines)
    PROVE  t \in PatternOf(Text) /\ t.extra # "bracket"
<1>1. PICK i \in DOMAIN lines : \E e \in Rules!ToSet(lines[i].entries) : t = e.entry
  BY DEF Named
<1>2. lines[i] \in LineOf(Text)
  OBVIOUS
<1>3. PICK j \in DOMAIN lines[i].entries : t = lines[i].entries[j].entry
  BY <1>1 DEF Rules!ToSet
<1>4. lines[i].entries \in Seq([text : BOOLEAN, entry : {u \in PatternOf(Text) : u.extra # "bracket"}])
  BY <1>2 DEF LineOf
<1>5. lines[i].entries[j] \in [text : BOOLEAN, entry : {u \in PatternOf(Text) : u.extra # "bracket"}]
  <2> DEFINE E == [text : BOOLEAN, entry : {u \in PatternOf(Text) : u.extra # "bracket"}]
             es == lines[i].entries
  <2>1. es \in Seq(E) /\ j \in DOMAIN es
    BY <1>3, <1>4
  <2> HIDE DEF E, es
  <2>2. es[j] \in E
    BY <2>1
  <2> QED
    BY <2>2 DEF E, es
<1> QED
  BY <1>3, <1>5

\* A file of deny_hosts of any length that is accepted denies what its lines name,
\* in either form of a list, and one line that is no entry refuses the file.
THEOREM EveryFileMeansWhatItSays ==
    ASSUME NEW Text, NEW lines \in Seq(LineOf(Text))
    PROVE  LET rules == Rules!ParseDenyHostsFile(lines)
           IN  IF \E t \in Named(lines) : ~Rules!ParseDenyHost(t) THEN rules = "refused"
               ELSE \A h : Rules!MatchDenyHosts([i \in DOMAIN rules |-> rules[i].entry], h)
                              <=> \E t \in Named(lines) : Rules!NameCovers(t, h)
<1>1. PICK texts : /\ Named(lines) = {texts[i].entry : i \in DOMAIN texts}
                   /\ Rules!ParseDenyHostsFile(lines) =
                         IF \A i \in DOMAIN texts : Rules!ParseDenyHost(texts[i].entry)
                         THEN texts ELSE "refused"
  BY FileRead
<1>2. CASE \E t \in Named(lines) : ~Rules!ParseDenyHost(t)
  BY <1>1, <1>2
<1>3. CASE ~(\E t \in Named(lines) : ~Rules!ParseDenyHost(t))
  <2> DEFINE ts == [i \in DOMAIN texts |-> texts[i].entry]
  <2>1. Rules!ParseDenyHostsFile(lines) = texts
    BY <1>1, <1>3
  <2>2. DOMAIN ts = DOMAIN texts /\ \A i \in DOMAIN ts : ts[i] = texts[i].entry /\ ts[i] \in Named(lines)
    BY <1>1
  <2> HIDE DEF ts
  <2>3. \A i \in DOMAIN ts : /\ ts[i] \in PatternOf(Text)
                             /\ Rules!ParseDenyHost(ts[i]) /\ ts[i].extra # "bracket"
    BY <1>3, <2>2, NamedArePatterns
  <2>4. \A h : Rules!MatchDenyHosts(ts, h) <=> \E i \in DOMAIN ts : Rules!NameCovers(ts[i], h)
    BY <2>3, EntriesCover
  <2>5. Named(lines) = {ts[i] : i \in DOMAIN ts}
    BY <1>1, <2>2
  <2>6. \A h : Rules!MatchDenyHosts(ts, h) <=> \E t \in Named(lines) : Rules!NameCovers(t, h)
    BY <2>4, <2>5
  <2> QED
    BY <1>3, <2>1, <2>6 DEF ts
<1> QED
  BY <1>2, <1>3

-----------------------------------------------------------------------------
\* Rules.

\* A set of numbers that has one has a least one.
LEMMA LeastIn ==
    ASSUME NEW hits, hits \subseteq Nat, hits # {}
    PROVE  LET least == CHOOSE i \in hits : \A j \in hits : i <= j
           IN  least \in hits /\ \A j \in hits : least <= j
<1> DEFINE Less == OpToRel(<, Nat)
<1>1. IsWellFoundedOn(Less, Nat)
  BY NatLessThanWellFounded
<1>2. \A k, n \in Nat : k < n => <<k, n>> \in Less
  BY DEF OpToRel
<1> HIDE DEF Less
<1>3. PICK n \in hits : \A k \in hits : ~(<<k, n>> \in Less)
  BY <1>1, WFMin
<1>4. \A k \in hits : n <= k
  <2> SUFFICES ASSUME NEW k \in hits, ~(n <= k) PROVE FALSE
    OBVIOUS
  <2>1. k \in Nat /\ n \in Nat /\ k < n
    OBVIOUS
  <2> QED
    BY <1>2, <1>3, <2>1
<1> QED
  BY <1>4

\* A rule applies, with decryption or without.
Hits(s, mitm, r) == (mitm \/ ~Rules!RequiresMITM(s)) /\ Rules!Match(s, r)

\* There is a first match exactly when a rule of the list applies.
LEMMA FirstMatchFinds ==
    ASSUME NEW S, NEW rules \in Seq(S), NEW mitm \in BOOLEAN, NEW r
    PROVE  Rules!FirstMatch(rules, mitm, r) # 0 <=> \E s \in Range(rules) : Hits(s, mitm, r)
<1> DEFINE hits == {i \in DOMAIN rules : Hits(rules[i], mitm, r)}
<1>1. Rules!FirstMatch(rules, mitm, r) =
          IF hits = {} THEN 0 ELSE CHOOSE i \in hits : \A j \in hits : i <= j
  BY DEF Rules!FirstMatch, Hits
<1>2. hits = {} <=> ~\E s \in Range(rules) : Hits(s, mitm, r)
  BY DEF Range
<1>3. hits \subseteq 1..Len(rules) /\ Len(rules) \in Nat
  OBVIOUS
<1> HIDE DEF hits
<1> DEFINE least == CHOOSE i \in hits : \A j \in hits : i <= j
<1>4. hits # {} => least \in hits
  <2>1. hits \subseteq Nat
    BY <1>3
  <2> QED
    BY <2>1, LeastIn
<1> HIDE DEF least
<1>5. hits # {} => least # 0
  BY <1>3, <1>4
<1> QED
  BY <1>1, <1>2, <1>5 DEF least

\* Whatever the rules and the requests, a verdict without decryption is the same
\* for two requests to the same host and port.
THEOREM EveryUndecryptedVerdictIsBlind ==
    ASSUME NEW rules, NEW r1, NEW r2, r1.host = r2.host, r1.port = r2.port
    PROVE  Rules!FirstMatch(rules, FALSE, r1) = Rules!FirstMatch(rules, FALSE, r2)
<1>1. ASSUME NEW s, ~Rules!RequiresMITM(s)
      PROVE  Rules!Match(s, r1) <=> Rules!Match(s, r2)
  <2>1. Rules!Methods(s) = {} /\ Rules!PathsSet(s) = {} /\ s.query = {}
    BY <1>1 DEF Rules!RequiresMITM
  <2>2. s.path = Rules!NoPath /\ s.prefix = Rules!NoPath /\ s.regex = {}
    BY <2>1 DEF Rules!PathsSet
  <2> QED
    BY <2>1, <2>2 DEF Rules!Match
<1> DEFINE hits(r) == {i \in DOMAIN rules : (FALSE \/ ~Rules!RequiresMITM(rules[i]))
                                            /\ Rules!Match(rules[i], r)}
<1>2. hits(r1) = hits(r2)
  BY <1>1
<1>3. \A r : Rules!FirstMatch(rules, FALSE, r) =
               IF hits(r) = {} THEN 0 ELSE CHOOSE i \in hits(r) : \A j \in hits(r) : i <= j
  BY DEF Rules!FirstMatch
<1> HIDE DEF hits
<1> QED
  BY <1>2, <1>3

-----------------------------------------------------------------------------
\* The generator's rules merged into a profile.

\* A target that is a host pattern, with nothing else in its text.
TargetOf(Text) == {t \in PatternOf(Text) : t.extra = "none"}

\* A rule of the generator, a rule of a profile, and a profile.
GeneratorRuleOf(Text) ==
    [bouncer : Text, target : TargetOf(Text), path : Seq(Text), actions : SUBSET Text]

SpecsOf(Text) ==
    [host : PatternOf(Text), port : Nat, methods : SUBSET Text, path : Seq(Text),
     prefix : Seq(Text), regex : SUBSET Seq(Text), broken : BOOLEAN, query : SUBSET Text]

ProfileOf(Text) ==
    [hosts : Seq(PatternOf(Text)), denies : Seq(SpecsOf(Text)),
     allows : Seq(SpecsOf(Text))]

\* The generator's denies that become entries of deny_hosts.
HostOnly(g) == g.actions = {} /\ g.path = Rules!NoPath

\* Adding a member that may be there already.
LEMMA AddedOnce ==
    ASSUME NEW S, NEW seq \in Seq(S), NEW x \in S
    PROVE  Rules!AddNew(seq, x) \in Seq(S) /\ Range(Rules!AddNew(seq, x)) = Range(seq) \cup {x}
<1>1. CASE x \in {seq[i] : i \in DOMAIN seq}
  BY <1>1 DEF Rules!AddNew, Range
<1>2. CASE ~(x \in {seq[i] : i \in DOMAIN seq})
  <2>1. Rules!AddNew(seq, x) = Append(seq, x)
    BY <1>2 DEF Rules!AddNew
  <2> DEFINE a == Append(seq, x)
  <2>2. /\ a \in Seq(S) /\ Len(seq) \in Nat /\ DOMAIN seq = 1..Len(seq)
        /\ DOMAIN a = 1..(Len(seq) + 1) /\ a[Len(seq) + 1] = x
        /\ \A i \in 1..Len(seq) : a[i] = seq[i]
    OBVIOUS
  <2> HIDE DEF a
  <2>3. \A i \in DOMAIN a : i = Len(seq) + 1 \/ i \in 1..Len(seq)
    BY <2>2
  <2>4. Len(seq) + 1 \in DOMAIN a /\ 1..Len(seq) \subseteq DOMAIN a
    BY <2>2
  <2>5. Range(a) = Range(seq) \cup {x}
    BY <2>2, <2>3, <2>4 DEF Range
  <2> QED
    BY <2>1, <2>2, <2>5 DEF a
<1> QED
  BY <1>1, <1>2

\* A rule made of the generator's rule is a rule.
LEMMA SpecTyped ==
    ASSUME NEW Text, NEW g \in GeneratorRuleOf(Text)
    PROVE  /\ Rules!SpecOf(g) \in SpecsOf(Text)
           /\ g.target \in PatternOf(Text)
<1>1. g.target \in TargetOf(Text) /\ g.path \in Seq(Text) /\ g.actions \in SUBSET Text
  BY DEF GeneratorRuleOf
<1>2. g.target \in PatternOf(Text)
  BY <1>1 DEF TargetOf
<1>3. <<>> \in Seq(Text) /\ 0 \in Nat
  OBVIOUS
<1> HIDE DEF PatternOf
<1> QED
  BY <1>1, <1>2, <1>3 DEF Rules!SpecOf, SpecsOf, Rules!NoPath

\* f is the profile after each of the first top denies.
DeniedUpTo(p, gs, top, f) ==
    f = [i \in 0..top |-> IF i = 0 THEN p ELSE Rules!MergeDeny(f[i-1], gs[i])]

\* The recursive function of the denies exists.
LEMMA DeniedUpToExists ==
    ASSUME NEW p, NEW gs, NEW top \in Nat
    PROVE  \E f : DeniedUpTo(p, gs, top, f)
<1> DEFINE T == {k \in 0..top : \E f : DeniedUpTo(p, gs, k, f)}
<1>1. 0 \in T
  <2>1. DeniedUpTo(p, gs, 0, [i \in 0..0 |-> p])
    BY DEF DeniedUpTo
  <2> QED
    BY <2>1
<1>2. ASSUME NEW n \in 1..top, n - 1 \in T PROVE n \in T
  <2>1. PICK f : DeniedUpTo(p, gs, n - 1, f)
    BY <1>2
  <2> DEFINE h == [i \in 0..n |-> IF i = n THEN Rules!MergeDeny(f[n-1], gs[n]) ELSE f[i]]
  <2>2. \A i \in 0..n : h[i] = IF i = 0 THEN p ELSE Rules!MergeDeny(h[i-1], gs[i])
    <3> SUFFICES ASSUME NEW i \in 0..n
                 PROVE  h[i] = IF i = 0 THEN p ELSE Rules!MergeDeny(h[i-1], gs[i])
      OBVIOUS
    <3>1. CASE i = n
      <4>1. h[n] = Rules!MergeDeny(f[n-1], gs[n]) /\ h[n-1] = f[n-1] /\ n # 0
        OBVIOUS
      <4> HIDE DEF h
      <4> QED
        BY <3>1, <4>1
    <3>2. CASE i # n
      <4>1. i \in 0..(n-1) /\ h[i] = f[i] /\ (i # 0 => i - 1 \in 0..(n-1) /\ h[i-1] = f[i-1])
        BY <3>2
      <4> HIDE DEF h
      <4> QED
        BY <2>1, <4>1 DEF DeniedUpTo
    <3> QED
      BY <3>1, <3>2
  <2>3. h = [i \in 0..n |-> h[i]]
    OBVIOUS
  <2> HIDE DEF h
  <2>4. DeniedUpTo(p, gs, n, h)
    BY <2>2, <2>3 DEF DeniedUpTo
  <2> QED
    BY <2>4
<1> HIDE DEF T
<1>3. T = 0..top
  <2>1. T \in SUBSET (0..top)
    BY DEF T
  <2> QED
    BY <1>1, <1>2, <2>1, UpToTheBound
<1>4. top \in T
  BY <1>3
<1> QED
  BY <1>4 DEF T

\* q has the rules of p and, once each, what the first n of gs add to them.
DeniesAdded(p, gs, n, q) ==
    /\ Range(q.hosts) = Range(p.hosts) \cup
          {gs[i].target : i \in {i \in 1..n : Rules!Addressed(gs[i]) /\ HostOnly(gs[i])}}
    /\ Range(q.denies) = Range(p.denies) \cup
          {Rules!SpecOf(gs[i]) : i \in {i \in 1..n : Rules!Addressed(gs[i]) /\ ~HostOnly(gs[i])}}
    /\ q.allows = p.allows

\* One deny more.
LEMMA MergeDenyAdds ==
    ASSUME NEW Text, NEW p, NEW gs, NEW n \in Nat, n # 0, NEW q \in ProfileOf(Text),
           gs[n] \in GeneratorRuleOf(Text), DeniesAdded(p, gs, n - 1, q)
    PROVE  LET next == Rules!MergeDeny(q, gs[n])
           IN  next \in ProfileOf(Text) /\ DeniesAdded(p, gs, n, next)
<1> DEFINE g == gs[n]
           next == Rules!MergeDeny(q, g)
<1>1. 1..n = (1..(n-1)) \cup {n} /\ n \notin 1..(n-1)
  OBVIOUS
<1>2. /\ q.hosts \in Seq(PatternOf(Text)) /\ q.denies \in Seq(SpecsOf(Text))
      /\ q.allows \in Seq(SpecsOf(Text))
      /\ q = [hosts |-> q.hosts, denies |-> q.denies, allows |-> q.allows]
  BY DEF ProfileOf
<1>3. Rules!SpecOf(g) \in SpecsOf(Text) /\ g.target \in PatternOf(Text)
  BY SpecTyped
<1>4. CASE ~Rules!Addressed(g)
  <2>1. next = q
    BY <1>4 DEF Rules!MergeDeny
  <2>2. /\ {i \in 1..n : Rules!Addressed(gs[i]) /\ HostOnly(gs[i])}
             = {i \in 1..(n-1) : Rules!Addressed(gs[i]) /\ HostOnly(gs[i])}
        /\ {i \in 1..n : Rules!Addressed(gs[i]) /\ ~HostOnly(gs[i])}
             = {i \in 1..(n-1) : Rules!Addressed(gs[i]) /\ ~HostOnly(gs[i])}
    BY <1>1, <1>4
  <2>3. DeniesAdded(p, gs, n, q)
    BY <2>2 DEF DeniesAdded
  <2> QED
    BY <2>1, <2>3
<1>5. CASE Rules!Addressed(g) /\ HostOnly(g)
  <2> DEFINE hs == Rules!AddNew(q.hosts, g.target)
  <2>1. next = [hosts |-> hs, denies |-> q.denies, allows |-> q.allows]
    <3>1. next = [q EXCEPT !.hosts = hs]
      BY <1>5 DEF Rules!MergeDeny, HostOnly
    <3> HIDE DEF hs
    <3> QED
      BY <1>2, <3>1
  <2>2. hs \in Seq(PatternOf(Text)) /\ Range(hs) = Range(q.hosts) \cup {g.target}
    <3>1. q.hosts \in Seq(PatternOf(Text)) /\ g.target \in PatternOf(Text)
      BY <1>2, <1>3
    <3> HIDE DEF g, next
    <3> QED
      BY <3>1, AddedOnce
  <2> HIDE DEF hs
  <2>3. next.hosts = hs /\ next.denies = q.denies /\ next.allows = q.allows
    BY <2>1
  <2>4. next \in ProfileOf(Text)
    <3>1. [hosts |-> hs, denies |-> q.denies, allows |-> q.allows] \in ProfileOf(Text)
      BY <1>2, <2>2 DEF ProfileOf
    <3> HIDE DEF next
    <3> QED
      BY <2>1, <3>1
  <2> HIDE DEF next
  <2>5. /\ {i \in 1..n : Rules!Addressed(gs[i]) /\ HostOnly(gs[i])}
             = {i \in 1..(n-1) : Rules!Addressed(gs[i]) /\ HostOnly(gs[i])} \cup {n}
        /\ {i \in 1..n : Rules!Addressed(gs[i]) /\ ~HostOnly(gs[i])}
             = {i \in 1..(n-1) : Rules!Addressed(gs[i]) /\ ~HostOnly(gs[i])}
    BY <1>1, <1>5
  <2>6. DeniesAdded(p, gs, n, next)
    BY <2>2, <2>3, <2>5 DEF DeniesAdded
  <2> QED
    BY <2>4, <2>6 DEF next
<1>6. CASE Rules!Addressed(g) /\ ~HostOnly(g)
  <2> DEFINE ds == Rules!AddNew(q.denies, Rules!SpecOf(g))
  <2>1. next = [hosts |-> q.hosts, denies |-> ds, allows |-> q.allows]
    <3>1. next = [q EXCEPT !.denies = ds]
      BY <1>6 DEF Rules!MergeDeny, HostOnly
    <3> HIDE DEF ds
    <3> QED
      BY <1>2, <3>1
  <2>2. ds \in Seq(SpecsOf(Text)) /\ Range(ds) = Range(q.denies) \cup {Rules!SpecOf(g)}
    <3>1. q.denies \in Seq(SpecsOf(Text)) /\ Rules!SpecOf(g) \in SpecsOf(Text)
      BY <1>2, <1>3
    <3> HIDE DEF g, next
    <3> QED
      BY <3>1, AddedOnce
  <2> HIDE DEF ds
  <2>3. next.hosts = q.hosts /\ next.denies = ds /\ next.allows = q.allows
    BY <2>1
  <2>4. next \in ProfileOf(Text)
    <3>1. [hosts |-> q.hosts, denies |-> ds, allows |-> q.allows] \in ProfileOf(Text)
      BY <1>2, <2>2 DEF ProfileOf
    <3> HIDE DEF next
    <3> QED
      BY <2>1, <3>1
  <2> HIDE DEF next
  <2>5. /\ {i \in 1..n : Rules!Addressed(gs[i]) /\ HostOnly(gs[i])}
             = {i \in 1..(n-1) : Rules!Addressed(gs[i]) /\ HostOnly(gs[i])}
        /\ {i \in 1..n : Rules!Addressed(gs[i]) /\ ~HostOnly(gs[i])}
             = {i \in 1..(n-1) : Rules!Addressed(gs[i]) /\ ~HostOnly(gs[i])} \cup {n}
    BY <1>1, <1>6
  <2>6. DeniesAdded(p, gs, n, next)
    BY <2>2, <2>3, <2>5 DEF DeniesAdded
  <2> QED
    BY <2>4, <2>6 DEF next
<1> QED
  BY <1>4, <1>5, <1>6

\* So it is after each of the denies.
LEMMA DeniedUpToHas ==
    ASSUME NEW Text, NEW p \in ProfileOf(Text),
           NEW gs \in Seq(GeneratorRuleOf(Text)), NEW f, DeniedUpTo(p, gs, Len(gs), f)
    PROVE  f[Len(gs)] \in ProfileOf(Text) /\ DeniesAdded(p, gs, Len(gs), f[Len(gs)])
<1> DEFINE T == {i \in 0..Len(gs) : f[i] \in ProfileOf(Text) /\ DeniesAdded(p, gs, i, f[i])}
<1>1. Len(gs) \in Nat /\ \A n \in 1..Len(gs) : gs[n] \in GeneratorRuleOf(Text)
  OBVIOUS
<1>2. 0 \in T
  <2>1. f[0] = p
    BY <1>1 DEF DeniedUpTo
  <2>2. 1..0 = {}
    OBVIOUS
  <2>3. DeniesAdded(p, gs, 0, p)
    BY <2>2 DEF DeniesAdded
  <2> QED
    BY <1>1, <2>1, <2>3
<1>3. ASSUME NEW n \in 1..Len(gs), n - 1 \in T PROVE n \in T
  <2>1. f[n] = Rules!MergeDeny(f[n-1], gs[n])
    BY <1>1 DEF DeniedUpTo
  <2>2. f[n-1] \in ProfileOf(Text) /\ DeniesAdded(p, gs, n - 1, f[n-1])
    BY <1>3
  <2>3. n \in Nat /\ n # 0 /\ gs[n] \in GeneratorRuleOf(Text)
    BY <1>1
  <2>4. f[n] \in ProfileOf(Text) /\ DeniesAdded(p, gs, n, f[n])
    BY <2>1, <2>2, <2>3, MergeDenyAdds
  <2> QED
    BY <2>4
<1> HIDE DEF T
<1>4. T = 0..Len(gs)
  <2>1. T \in SUBSET (0..Len(gs))
    BY DEF T
  <2> QED
    BY <1>1, <1>2, <1>3, <2>1, UpToTheBound
<1>5. Len(gs) \in T
  BY <1>1, <1>4
<1> QED
  BY <1>5 DEF T

\* f is the profile after each of the first top allows.
AllowedUpTo(p, gs, top, f) ==
    f = [i \in 0..top |-> IF i = 0 THEN p ELSE Rules!MergeAllow(f[i-1], gs[i])]

\* The recursive function of the allows exists.
LEMMA AllowedUpToExists ==
    ASSUME NEW p, NEW gs, NEW top \in Nat
    PROVE  \E f : AllowedUpTo(p, gs, top, f)
<1> DEFINE T == {k \in 0..top : \E f : AllowedUpTo(p, gs, k, f)}
<1>1. 0 \in T
  <2>1. AllowedUpTo(p, gs, 0, [i \in 0..0 |-> p])
    BY DEF AllowedUpTo
  <2> QED
    BY <2>1
<1>2. ASSUME NEW n \in 1..top, n - 1 \in T PROVE n \in T
  <2>1. PICK f : AllowedUpTo(p, gs, n - 1, f)
    BY <1>2
  <2> DEFINE h == [i \in 0..n |-> IF i = n THEN Rules!MergeAllow(f[n-1], gs[n]) ELSE f[i]]
  <2>2. \A i \in 0..n : h[i] = IF i = 0 THEN p ELSE Rules!MergeAllow(h[i-1], gs[i])
    <3> SUFFICES ASSUME NEW i \in 0..n
                 PROVE  h[i] = IF i = 0 THEN p ELSE Rules!MergeAllow(h[i-1], gs[i])
      OBVIOUS
    <3>1. CASE i = n
      <4>1. h[n] = Rules!MergeAllow(f[n-1], gs[n]) /\ h[n-1] = f[n-1] /\ n # 0
        OBVIOUS
      <4> HIDE DEF h
      <4> QED
        BY <3>1, <4>1
    <3>2. CASE i # n
      <4>1. i \in 0..(n-1) /\ h[i] = f[i] /\ (i # 0 => i - 1 \in 0..(n-1) /\ h[i-1] = f[i-1])
        BY <3>2
      <4> HIDE DEF h
      <4> QED
        BY <2>1, <4>1 DEF AllowedUpTo
    <3> QED
      BY <3>1, <3>2
  <2>3. h = [i \in 0..n |-> h[i]]
    OBVIOUS
  <2> HIDE DEF h
  <2>4. AllowedUpTo(p, gs, n, h)
    BY <2>2, <2>3 DEF AllowedUpTo
  <2> QED
    BY <2>4
<1> HIDE DEF T
<1>3. T = 0..top
  <2>1. T \in SUBSET (0..top)
    BY DEF T
  <2> QED
    BY <1>1, <1>2, <2>1, UpToTheBound
<1>4. top \in T
  BY <1>3
<1> QED
  BY <1>4 DEF T

\* q has the rules of p and, once each, what the first n of gs add to them.
AllowsAdded(p, gs, n, q) ==
    /\ Range(q.allows) = Range(p.allows) \cup
          {Rules!SpecOf(gs[i]) : i \in {i \in 1..n : Rules!Addressed(gs[i])}}
    /\ q.hosts = p.hosts /\ q.denies = p.denies

\* One allow more.
LEMMA MergeAllowAdds ==
    ASSUME NEW Text, NEW p, NEW gs, NEW n \in Nat, n # 0, NEW q \in ProfileOf(Text),
           gs[n] \in GeneratorRuleOf(Text), AllowsAdded(p, gs, n - 1, q)
    PROVE  LET next == Rules!MergeAllow(q, gs[n])
           IN  next \in ProfileOf(Text) /\ AllowsAdded(p, gs, n, next)
<1> DEFINE g == gs[n]
           next == Rules!MergeAllow(q, g)
<1>1. 1..n = (1..(n-1)) \cup {n} /\ n \notin 1..(n-1)
  OBVIOUS
<1>2. /\ q.hosts \in Seq(PatternOf(Text)) /\ q.denies \in Seq(SpecsOf(Text))
      /\ q.allows \in Seq(SpecsOf(Text))
      /\ q = [hosts |-> q.hosts, denies |-> q.denies, allows |-> q.allows]
  BY DEF ProfileOf
<1>3. Rules!SpecOf(g) \in SpecsOf(Text)
  BY SpecTyped
<1>4. CASE ~Rules!Addressed(g)
  <2>1. next = q
    BY <1>4 DEF Rules!MergeAllow
  <2>2. {i \in 1..n : Rules!Addressed(gs[i])} = {i \in 1..(n-1) : Rules!Addressed(gs[i])}
    BY <1>1, <1>4
  <2>3. AllowsAdded(p, gs, n, q)
    BY <2>2 DEF AllowsAdded
  <2> QED
    BY <2>1, <2>3
<1>5. CASE Rules!Addressed(g)
  <2> DEFINE as == Rules!AddNew(q.allows, Rules!SpecOf(g))
  <2>1. next = [hosts |-> q.hosts, denies |-> q.denies, allows |-> as]
    <3>1. next = [q EXCEPT !.allows = as]
      BY <1>5 DEF Rules!MergeAllow
    <3> HIDE DEF as
    <3> QED
      BY <1>2, <3>1
  <2>2. as \in Seq(SpecsOf(Text)) /\ Range(as) = Range(q.allows) \cup {Rules!SpecOf(g)}
    BY <1>2, <1>3, AddedOnce
  <2> HIDE DEF as
  <2>3. next.hosts = q.hosts /\ next.denies = q.denies /\ next.allows = as
    BY <2>1
  <2>4. next \in ProfileOf(Text)
    <3>1. [hosts |-> q.hosts, denies |-> q.denies, allows |-> as] \in ProfileOf(Text)
      BY <1>2, <2>2 DEF ProfileOf
    <3> HIDE DEF next
    <3> QED
      BY <2>1, <3>1
  <2> HIDE DEF next
  <2>5. {i \in 1..n : Rules!Addressed(gs[i])} = {i \in 1..(n-1) : Rules!Addressed(gs[i])} \cup {n}
    BY <1>1, <1>5
  <2>6. AllowsAdded(p, gs, n, next)
    BY <2>2, <2>3, <2>5 DEF AllowsAdded
  <2> QED
    BY <2>4, <2>6 DEF next
<1> QED
  BY <1>4, <1>5

\* So it is after each of the allows.
LEMMA AllowedUpToHas ==
    ASSUME NEW Text, NEW p \in ProfileOf(Text),
           NEW gs \in Seq(GeneratorRuleOf(Text)), NEW f, AllowedUpTo(p, gs, Len(gs), f)
    PROVE  f[Len(gs)] \in ProfileOf(Text) /\ AllowsAdded(p, gs, Len(gs), f[Len(gs)])
<1> DEFINE T == {i \in 0..Len(gs) : f[i] \in ProfileOf(Text) /\ AllowsAdded(p, gs, i, f[i])}
<1>1. Len(gs) \in Nat /\ \A n \in 1..Len(gs) : gs[n] \in GeneratorRuleOf(Text)
  OBVIOUS
<1>2. 0 \in T
  <2>1. f[0] = p
    BY <1>1 DEF AllowedUpTo
  <2>2. 1..0 = {}
    OBVIOUS
  <2>3. AllowsAdded(p, gs, 0, p)
    BY <2>2 DEF AllowsAdded
  <2> QED
    BY <1>1, <2>1, <2>3
<1>3. ASSUME NEW n \in 1..Len(gs), n - 1 \in T PROVE n \in T
  <2>1. f[n] = Rules!MergeAllow(f[n-1], gs[n])
    BY <1>1 DEF AllowedUpTo
  <2>2. f[n-1] \in ProfileOf(Text) /\ AllowsAdded(p, gs, n - 1, f[n-1])
    BY <1>3
  <2>3. n \in Nat /\ n # 0 /\ gs[n] \in GeneratorRuleOf(Text)
    BY <1>1
  <2>4. f[n] \in ProfileOf(Text) /\ AllowsAdded(p, gs, n, f[n])
    BY <2>1, <2>2, <2>3, MergeAllowAdds
  <2> QED
    BY <2>4
<1> HIDE DEF T
<1>4. T = 0..Len(gs)
  <2>1. T \in SUBSET (0..Len(gs))
    BY DEF T
  <2> QED
    BY <1>1, <1>2, <1>3, <2>1, UpToTheBound
<1>5. Len(gs) \in T
  BY <1>1, <1>4
<1> QED
  BY <1>5 DEF T

\* What the merge leaves: the rules of both, each once.
LEMMA MergeAdds ==
    ASSUME NEW Text, NEW p \in ProfileOf(Text),
           NEW banned \in Seq(GeneratorRuleOf(Text)),
           NEW allows \in Seq(GeneratorRuleOf(Text))
    PROVE  \E q \in ProfileOf(Text) :
              /\ DeniesAdded(p, banned, Len(banned), q)
              /\ AllowsAdded(q, allows, Len(allows), Rules!mergeGeneratorRules(p, banned, allows))
              /\ Rules!mergeGeneratorRules(p, banned, allows) \in ProfileOf(Text)
<1> DEFINE denied[i \in 0..Len(banned)] ==
             IF i = 0 THEN p ELSE Rules!MergeDeny(denied[i-1], banned[i])
           q == denied[Len(banned)]
           merged[i \in 0..Len(allows)] ==
             IF i = 0 THEN q ELSE Rules!MergeAllow(merged[i-1], allows[i])
<1>1. Len(banned) \in Nat /\ Len(allows) \in Nat
  OBVIOUS
<1>2. Rules!mergeGeneratorRules(p, banned, allows) = merged[Len(allows)]
  BY DEF Rules!mergeGeneratorRules
<1>3. denied = CHOOSE f : DeniedUpTo(p, banned, Len(banned), f)
  BY DEF DeniedUpTo
<1>4. merged = CHOOSE f : AllowedUpTo(q, allows, Len(allows), f)
  BY DEF AllowedUpTo
<1> HIDE DEF denied, merged, q
<1>5. DeniedUpTo(p, banned, Len(banned), denied)
  <2>1. \E f : DeniedUpTo(p, banned, Len(banned), f)
    BY <1>1, DeniedUpToExists
  <2> QED
    BY <1>3, <2>1
<1>6. AllowedUpTo(q, allows, Len(allows), merged)
  <2>1. \E f : AllowedUpTo(q, allows, Len(allows), f)
    BY <1>1, AllowedUpToExists
  <2> QED
    BY <1>4, <2>1
<1>7. q \in ProfileOf(Text) /\ DeniesAdded(p, banned, Len(banned), q)
  BY <1>5, DeniedUpToHas DEF q
<1>8. merged[Len(allows)] \in ProfileOf(Text) /\ AllowsAdded(q, allows, Len(allows), merged[Len(allows)])
  BY <1>6, <1>7, AllowedUpToHas
<1> QED
  BY <1>2, <1>7, <1>8

\* A request: its host has labels, its method is not white space.
RequestOf(Text, r) == r.host # <<>> /\ r.path \in Seq(Text) /\ r.method # Rules!Blank

\* An empty path is a prefix of every path.
LEMMA NoPathIsPrefix ==
    ASSUME NEW Text, NEW s \in Seq(Text)
    PROVE  Rules!IsPrefix(<<>>, s)
<1>1. Len(<<>>) = 0 /\ Len(s) \in Nat /\ 0 <= Len(s)
  OBVIOUS
<1>2. SubSeq(<<>>, 1, 0) = <<>> /\ SubSeq(s, 1, 0) = <<>>
  OBVIOUS
<1> QED
  BY <1>1, <1>2 DEF Rules!IsPrefix

\* The rule made of a generator's rule applies where that means.
LEMMA SpecMeans ==
    ASSUME NEW Text, NEW g \in GeneratorRuleOf(Text), Rules!Addressed(g),
           NEW r, RequestOf(Text, r)
    PROVE  Hits(Rules!SpecOf(g), TRUE, r) <=> Rules!Means(g, r)
<1> DEFINE s == Rules!SpecOf(g)
<1>1. /\ s.host = g.target /\ s.port = 0 /\ s.methods = g.actions \ {Rules!Blank}
      /\ s.path = <<>> /\ s.prefix = g.path /\ s.regex = {} /\ s.query = {}
  BY DEF Rules!SpecOf, Rules!NoPath
<1> HIDE DEF s
<1>2. g.target.extra = "none" /\ g.path \in Seq(Text) /\ g.bouncer \in {"", "gbounce"} /\ ~Rules!Empty(g.target)
  BY DEF GeneratorRuleOf, TargetOf, Rules!Addressed
<1>3. Rules!MatchHost(s.host, r.host) <=> Rules!Bare(g.target) \/ Rules!NameCovers(g.target, r.host)
  BY <1>1, <1>2 DEF Rules!MatchHost, Rules!NameCovers
<1>4. (Rules!Methods(s) = {} \/ r.method \in Rules!Methods(s))
          <=> (g.actions \subseteq {Rules!Blank} \/ r.method \in g.actions)
  BY <1>1 DEF Rules!Methods, RequestOf
<1>5. (CASE s.path # Rules!NoPath                       -> r.path = s.path
        [] s.path = Rules!NoPath /\ s.prefix # Rules!NoPath  -> Rules!IsPrefix(s.prefix, r.path)
        [] s.path = Rules!NoPath /\ s.prefix = Rules!NoPath /\ s.regex # {} -> r.path \in s.regex
        [] OTHER                                 -> TRUE) <=> Rules!IsPrefix(g.path, r.path)
  <2>1. g.path = <<>> => Rules!IsPrefix(g.path, r.path)
    BY NoPathIsPrefix DEF RequestOf
  <2> QED
    BY <1>1, <2>1 DEF Rules!NoPath
<1>6. s.port \in {0, r.port} /\ s.query \subseteq r.query
  BY <1>1
<1>7. Hits(s, TRUE, r) <=> Rules!Match(s, r)
  BY DEF Hits
<1>8. Rules!Match(s, r) <=> /\ Rules!Bare(g.target) \/ Rules!NameCovers(g.target, r.host)
                            /\ g.actions \subseteq {Rules!Blank} \/ r.method \in g.actions
                            /\ Rules!IsPrefix(g.path, r.path)
  BY <1>3, <1>4, <1>5, <1>6 DEF Rules!Match
<1> QED
  BY <1>2, <1>7, <1>8 DEF Rules!Means, s

\* So does the entry of deny_hosts made of a deny for a whole host, if it loads.
LEMMA HostMeans ==
    ASSUME NEW Text, NEW g \in GeneratorRuleOf(Text), Rules!Addressed(g), HostOnly(g),
           Rules!ParseDenyHostEntry(g.target), NEW r, RequestOf(Text, r)
    PROVE  Rules!MatchDenyHost(g.target, r.host) <=> Rules!Means(g, r)
<1>1. /\ g.target.extra = "none" /\ g.target \in PatternOf(Text)
      /\ g.bouncer \in {"", "gbounce"} /\ ~Rules!Bare(g.target) /\ g.path = <<>> /\ g.actions = {}
  BY DEF GeneratorRuleOf, TargetOf, Rules!Addressed, HostOnly, Rules!ParseDenyHostEntry,
     Rules!NoPath
<1>2. Rules!MatchDenyHost(g.target, r.host) <=> Rules!NameCovers(g.target, r.host)
  <2>1. g.target.extra # "bracket"
    BY <1>1
  <2>2. Rules!ParseDenyHost(g.target)
    BY <1>1, ParsersAgree
  <2> QED
    BY <1>1, <2>1, <2>2, EntryCovers
<1>3. Rules!IsPrefix(g.path, r.path)
  BY <1>1, NoPathIsPrefix DEF RequestOf
<1> QED
  BY <1>1, <1>2, <1>3 DEF Rules!Means

\* Who means nothing is not addressed.
LEMMA MeansOnlyAddressed ==
    ASSUME NEW Text, NEW g \in GeneratorRuleOf(Text), NEW r, RequestOf(Text, r),
           Rules!Means(g, r)
    PROVE  Rules!Addressed(g)
<1>1. ASSUME Rules!Empty(g.target) PROVE FALSE
  <2>1. g.target.stars = 0 /\ g.target.name = <<>> /\ (g.target.lead => g.target.stars >= 1)
    BY <1>1 DEF Rules!Empty, GeneratorRuleOf, TargetOf, PatternOf
  <2>2. ~g.target.lead /\ ~Rules!Bare(g.target)
    BY <2>1 DEF Rules!Bare
  <2> QED
    BY <2>1, <2>2 DEF Rules!Means, Rules!NameCovers, RequestOf
<1> QED
  BY <1>1 DEF Rules!Addressed, Rules!Means

\* What a list of deny_hosts matches, by its members.
LEMMA MatchDenyHostsIn ==
    ASSUME NEW ts, NEW h
    PROVE  Rules!MatchDenyHosts(ts, h) <=> \E t \in Range(ts) : Rules!MatchDenyHost(t, h)
  BY DEF Rules!MatchDenyHosts, Range

\* What the generator's denies add to a profile that loads, they deny and nothing else.
LEMMA DeniesMean ==
    ASSUME NEW Text, NEW p \in ProfileOf(Text), NEW q \in ProfileOf(Text),
           NEW gs \in Seq(GeneratorRuleOf(Text)), DeniesAdded(p, gs, Len(gs), q),
           \A t \in Range(q.hosts) : Rules!ParseDenyHostEntry(t), NEW r, RequestOf(Text, r)
    PROVE  (Rules!MatchDenyHosts(q.hosts, r.host) \/ Rules!FirstMatch(q.denies, TRUE, r) # 0)
              <=> \/ Rules!MatchDenyHosts(p.hosts, r.host) \/ Rules!FirstMatch(p.denies, TRUE, r) # 0
                  \/ \E i \in DOMAIN gs : Rules!Means(gs[i], r)
<1> DEFINE H == {i \in 1..Len(gs) : Rules!Addressed(gs[i]) /\ HostOnly(gs[i])}
           D == {i \in 1..Len(gs) : Rules!Addressed(gs[i]) /\ ~HostOnly(gs[i])}
<1>1. DOMAIN gs = 1..Len(gs) /\ \A i \in DOMAIN gs : gs[i] \in GeneratorRuleOf(Text)
  OBVIOUS
<1>2. p.denies \in Seq(SpecsOf(Text)) /\ q.denies \in Seq(SpecsOf(Text))
  BY DEF ProfileOf
<1>3. /\ Rules!FirstMatch(p.denies, TRUE, r) # 0 <=> \E s \in Range(p.denies) : Hits(s, TRUE, r)
      /\ Rules!FirstMatch(q.denies, TRUE, r) # 0 <=> \E s \in Range(q.denies) : Hits(s, TRUE, r)
  BY <1>2, FirstMatchFinds
<1>4. /\ Rules!MatchDenyHosts(p.hosts, r.host) <=> \E t \in Range(p.hosts) : Rules!MatchDenyHost(t, r.host)
      /\ Rules!MatchDenyHosts(q.hosts, r.host) <=> \E t \in Range(q.hosts) : Rules!MatchDenyHost(t, r.host)
  BY MatchDenyHostsIn
<1>5. /\ Range(q.hosts) = Range(p.hosts) \cup {gs[i].target : i \in H}
      /\ Range(q.denies) = Range(p.denies) \cup {Rules!SpecOf(gs[i]) : i \in D}
  BY DEF DeniesAdded
<1>6. \A i \in H : Rules!MatchDenyHost(gs[i].target, r.host) <=> Rules!Means(gs[i], r)
  <2> SUFFICES ASSUME NEW i \in H
               PROVE  Rules!MatchDenyHost(gs[i].target, r.host) <=> Rules!Means(gs[i], r)
    OBVIOUS
  <2>1. gs[i] \in GeneratorRuleOf(Text) /\ Rules!Addressed(gs[i]) /\ HostOnly(gs[i])
    BY <1>1
  <2>2. Rules!ParseDenyHostEntry(gs[i].target)
    BY <1>5
  <2> QED
    BY <2>1, <2>2, HostMeans
<1>7. \A i \in D : Hits(Rules!SpecOf(gs[i]), TRUE, r) <=> Rules!Means(gs[i], r)
  BY <1>1, SpecMeans
<1>8. \A i \in DOMAIN gs : Rules!Means(gs[i], r) => i \in H \cup D
  BY <1>1, MeansOnlyAddressed
<1>9. H \subseteq DOMAIN gs /\ D \subseteq DOMAIN gs
  BY <1>1
<1> HIDE DEF H, D
<1>10. (\E t \in Range(q.hosts) : Rules!MatchDenyHost(t, r.host))
           <=> \/ \E t \in Range(p.hosts) : Rules!MatchDenyHost(t, r.host)
               \/ \E i \in H : Rules!Means(gs[i], r)
  BY <1>5, <1>6
<1>11. (\E s \in Range(q.denies) : Hits(s, TRUE, r))
           <=> (\E s \in Range(p.denies) : Hits(s, TRUE, r)) \/ \E i \in D : Rules!Means(gs[i], r)
  BY <1>5, <1>7
<1>12. (\E i \in DOMAIN gs : Rules!Means(gs[i], r))
           <=> (\E i \in H : Rules!Means(gs[i], r)) \/ \E i \in D : Rules!Means(gs[i], r)
  BY <1>8, <1>9
<1> QED
  BY <1>3, <1>4, <1>10, <1>11, <1>12

\* And its allows, likewise.
LEMMA AllowsMean ==
    ASSUME NEW Text, NEW p \in ProfileOf(Text), NEW q \in ProfileOf(Text),
           NEW gs \in Seq(GeneratorRuleOf(Text)), AllowsAdded(p, gs, Len(gs), q),
           NEW r, RequestOf(Text, r)
    PROVE  Rules!FirstMatch(q.allows, TRUE, r) # 0
              <=> Rules!FirstMatch(p.allows, TRUE, r) # 0 \/ \E i \in DOMAIN gs : Rules!Means(gs[i], r)
<1> DEFINE A == {i \in 1..Len(gs) : Rules!Addressed(gs[i])}
<1>1. DOMAIN gs = 1..Len(gs) /\ \A i \in DOMAIN gs : gs[i] \in GeneratorRuleOf(Text)
  OBVIOUS
<1>2. p.allows \in Seq(SpecsOf(Text)) /\ q.allows \in Seq(SpecsOf(Text))
  BY DEF ProfileOf
<1>3. /\ Rules!FirstMatch(p.allows, TRUE, r) # 0 <=> \E s \in Range(p.allows) : Hits(s, TRUE, r)
      /\ Rules!FirstMatch(q.allows, TRUE, r) # 0 <=> \E s \in Range(q.allows) : Hits(s, TRUE, r)
  BY <1>2, FirstMatchFinds
<1>4. Range(q.allows) = Range(p.allows) \cup {Rules!SpecOf(gs[i]) : i \in A}
  BY DEF AllowsAdded
<1>5. \A i \in A : Hits(Rules!SpecOf(gs[i]), TRUE, r) <=> Rules!Means(gs[i], r)
  BY <1>1, SpecMeans
<1>6. \A i \in DOMAIN gs : Rules!Means(gs[i], r) => i \in A
  BY <1>1, MeansOnlyAddressed
<1>7. A \subseteq DOMAIN gs
  BY <1>1
<1> HIDE DEF A
<1>8. (\E s \in Range(q.allows) : Hits(s, TRUE, r))
           <=> (\E s \in Range(p.allows) : Hits(s, TRUE, r)) \/ \E i \in A : Rules!Means(gs[i], r)
  BY <1>4, <1>5
<1>9. (\E i \in DOMAIN gs : Rules!Means(gs[i], r)) <=> \E i \in A : Rules!Means(gs[i], r)
  BY <1>6, <1>7
<1> QED
  BY <1>3, <1>8, <1>9

\* However many rules the generator gives and whatever the profile had: if the
\* merged profile loads, it denies what the old one and the generator's denies
\* deny, and allows what the old one and its allows allow, and nothing else.
THEOREM EveryMergeKeepsMeaning ==
    ASSUME NEW Text, NEW p \in ProfileOf(Text),
           NEW banned \in Seq(GeneratorRuleOf(Text)),
           NEW allows \in Seq(GeneratorRuleOf(Text)), NEW r, RequestOf(Text, r),
           Rules!Valid(Rules!mergeGeneratorRules(p, banned, allows))
    PROVE  LET q == Rules!mergeGeneratorRules(p, banned, allows) IN
           /\ (Rules!MatchDenyHosts(q.hosts, r.host) \/ Rules!FirstMatch(q.denies, TRUE, r) # 0)
                 <=> \/ Rules!MatchDenyHosts(p.hosts, r.host) \/ Rules!FirstMatch(p.denies, TRUE, r) # 0
                     \/ \E i \in DOMAIN banned : Rules!Means(banned[i], r)
           /\ Rules!FirstMatch(q.allows, TRUE, r) # 0
                 <=> \/ Rules!FirstMatch(p.allows, TRUE, r) # 0
                     \/ \E i \in DOMAIN allows : Rules!Means(allows[i], r)
<1> DEFINE q == Rules!mergeGeneratorRules(p, banned, allows)
<1>1. PICK d \in ProfileOf(Text) :
              /\ DeniesAdded(p, banned, Len(banned), d)
              /\ AllowsAdded(d, allows, Len(allows), q)
              /\ q \in ProfileOf(Text)
  BY MergeAdds
<1>2. Rules!Valid(q)
  OBVIOUS
<1> HIDE DEF q
<1>3. q.hosts = d.hosts /\ q.denies = d.denies /\ d.allows = p.allows
  BY <1>1 DEF AllowsAdded, DeniesAdded
<1>4. \A t \in Range(d.hosts) : Rules!ParseDenyHostEntry(t)
  BY <1>2, <1>3 DEF Rules!Valid, Range
<1>5. (Rules!MatchDenyHosts(d.hosts, r.host) \/ Rules!FirstMatch(d.denies, TRUE, r) # 0)
                 <=> \/ Rules!MatchDenyHosts(p.hosts, r.host) \/ Rules!FirstMatch(p.denies, TRUE, r) # 0
                     \/ \E i \in DOMAIN banned : Rules!Means(banned[i], r)
  BY <1>1, <1>4, DeniesMean
<1>6. Rules!FirstMatch(q.allows, TRUE, r) # 0
                 <=> \/ Rules!FirstMatch(d.allows, TRUE, r) # 0
                     \/ \E i \in DOMAIN allows : Rules!Means(allows[i], r)
  BY <1>1, AllowsMean
<1> QED
  BY <1>3, <1>5, <1>6 DEF q

-----------------------------------------------------------------------------
\* The samples of the run.

AllSamples ==
    Rules!Samples \cup McpConfig!ConfigSamples \cup Bundle!BundleSamples
    \cup Denied!DenialSamples \cup Scan!ScanSamples \cup {[kind |-> "none"]}

\* The words they are made of.
Words == {"a", "b", "com", "org", "/", "x", "GET", Rules!Blank, "gbounce", "ibounce"}

\* The samples of the rules are of four kinds.
LEMMA RuleSampleOneOf ==
    ASSUME NEW s \in Rules!Samples
    PROVE  \/ s.kind = "entry" /\ s.text \in Rules!Texts
           \/ s.kind = "file" /\ \E k, l \in Rules!FileLines : s.lines = <<k, l>>
           \/ s.kind = "rules"
           \/ /\ s.kind = "merge" /\ s.base \in Rules!Bases
              /\ \/ s.allow = FALSE /\ \E g, h \in Rules!GeneratorRules : s.given = <<g, h>>
                 \/ s.allow = TRUE /\ \E g \in Rules!GeneratorRules : s.given = <<g>>
<1> DEFINE L == {<<k, l>> : k \in Rules!FileLines, l \in Rules!FileLines}
           R == {<<t>> : t \in Rules!RuleSpecs}
           G == {<<g, h>> : g \in Rules!GeneratorRules, h \in Rules!GeneratorRules}
           H == {<<g>> : g \in Rules!GeneratorRules}
<1>1. Rules!Samples = [kind : {"entry"}, text : Rules!Texts] \cup [kind : {"file"}, lines : L]
                      \cup [kind : {"rules"}, rules : R]
                      \cup [kind : {"merge"}, base : Rules!Bases, allow : {FALSE}, given : G]
                      \cup [kind : {"merge"}, base : Rules!Bases, allow : {TRUE}, given : H]
  BY DEF Rules!Samples
<1>2. /\ \A x \in L : \E k, l \in Rules!FileLines : x = <<k, l>>
      /\ \A x \in G : \E g, h \in Rules!GeneratorRules : x = <<g, h>>
      /\ \A x \in H : \E g \in Rules!GeneratorRules : x = <<g>>
  OBVIOUS
<1> HIDE DEF L, R, G, H
<1>3. s \in [kind : {"entry"}, text : Rules!Texts] => s.kind = "entry" /\ s.text \in Rules!Texts
  OBVIOUS
<1>4. s \in [kind : {"file"}, lines : L] => s.kind = "file" /\ s.lines \in L
  OBVIOUS
<1>5. s \in [kind : {"rules"}, rules : R] => s.kind = "rules"
  OBVIOUS
<1>6. s \in [kind : {"merge"}, base : Rules!Bases, allow : {FALSE}, given : G]
      => s.kind = "merge" /\ s.base \in Rules!Bases /\ s.allow = FALSE /\ s.given \in G
  OBVIOUS
<1>7. s \in [kind : {"merge"}, base : Rules!Bases, allow : {TRUE}, given : H]
      => s.kind = "merge" /\ s.base \in Rules!Bases /\ s.allow = TRUE /\ s.given \in H
  OBVIOUS
<1>8. \/ s.kind = "entry" /\ s.text \in Rules!Texts
      \/ s.kind = "file" /\ s.lines \in L
      \/ s.kind = "rules"
      \/ s.kind = "merge" /\ s.base \in Rules!Bases /\ s.allow = FALSE /\ s.given \in G
      \/ s.kind = "merge" /\ s.base \in Rules!Bases /\ s.allow = TRUE /\ s.given \in H
  BY <1>1, <1>3, <1>4, <1>5, <1>6, <1>7, Zenon
<1> QED
  BY <1>2, <1>8, Zenon

\* The kinds of the samples.
LEMMA SampleKinds ==
    ASSUME NEW s
    PROVE  /\ s \in Rules!Samples => s.kind \in {"entry", "file", "rules", "merge"}
           /\ s \in McpConfig!ConfigSamples => s.kind = "mcp config"
           /\ s \in Bundle!BundleSamples => s.kind \in {"bundle", "commands", "preset"}
           /\ s \in Denied!DenialSamples => s.kind \in {"since", "denials"}
           /\ s \in Scan!ScanSamples => s.kind \in {"response", "request"}
<1>2. s \in Rules!Samples => s.kind \in {"entry", "file", "rules", "merge"}
  BY RuleSampleOneOf
<1>3. s \in McpConfig!ConfigSamples => s.kind = "mcp config"
  BY DEF McpConfig!ConfigSamples
<1>4. s \in Bundle!BundleSamples => s.kind \in {"bundle", "commands", "preset"}
  <2>1. ASSUME NEW o, s \in [kind : {"bundle"}, options : {o}, bundle : Bundle!Tampered(Bundle!BuildExport(o)),
                             dry : BOOLEAN, listening : {{}, {"8080"}, {"8769"}, {"9000"}}]
        PROVE  s.kind = "bundle"
    BY <2>1
  <2>2. s \in [kind : {"commands"}, options : Bundle!Options, out : {"", "f"}, writes : BOOLEAN, log : BOOLEAN,
               modes : SUBSET {"merge", "replace"}, dry : BOOLEAN, listening : {{}, {"8080"}}]
        => s.kind = "commands"
    OBVIOUS
  <2>3. s \in [kind : {"preset"}, given : Bundle!Given, skip : SUBSET {"mode", "log"}] => s.kind = "preset"
    OBVIOUS
  <2> QED
    BY <2>1, <2>2, <2>3, Zenon DEF Bundle!BundleSamples
<1>5. s \in Denied!DenialSamples => s.kind \in {"since", "denials"}
  <2>1. s \in [kind : {"since"}, text : Denied!Texts, rows : Denied!Decisions(2)] => s.kind = "since"
    OBVIOUS
  <2>2. s \in [kind : {"denials"}, rows : UNION {Denied!Decisions(n) : n \in {0, 1, 4, 5}},
               session : {"", "s1"}, since : {0, 2}, limit : {0, 1, 2}] => s.kind = "denials"
    OBVIOUS
  <2> QED
    BY <2>1, <2>2, Zenon DEF Denied!DenialSamples
<1>6. s \in Scan!ScanSamples => s.kind \in {"response", "request"}
  <2> DEFINE A == [kind : {"response"}, body : [1..3 -> Scan!Lines], binary : BOOLEAN]
             C == [calls : {{c, d} : c \in Scan!Calls, d \in {e \in Scan!Calls :
                      e.name \in {"known", "unknown"} /\ e.form = "object" /\ e.args # [a \in {} |-> "fine"]}},
                   allowed : {FALSE}, size : {1}]
             D == [calls : {{c} : c \in Scan!Calls}, allowed : BOOLEAN, size : {1, 3}]
  <2>1. Scan!ScanSamples = A \cup [kind : {"request"}, body : C] \cup [kind : {"request"}, body : D]
    BY DEF Scan!ScanSamples
  <2>2. s \in A => s.kind = "response"
    OBVIOUS
  <2> HIDE DEF A, C, D
  <2>3. \A B : s \in [kind : {"request"}, body : B] => s.kind = "request"
    OBVIOUS
  <2> QED
    BY <2>1, <2>2, <2>3
<1> QED
  BY <1>2, <1>3, <1>4, <1>5, <1>6

\* A sample of any kind.
LEMMA SampleOf ==
    ASSUME NEW s \in AllSamples
    PROVE  /\ s.kind \in {"entry", "file", "rules", "merge"} => s \in Rules!Samples
           /\ s.kind = "mcp config" => s \in McpConfig!ConfigSamples
           /\ s.kind \in {"bundle", "commands", "preset"} => s \in Bundle!BundleSamples
           /\ s.kind \in {"since", "denials"} => s \in Denied!DenialSamples
           /\ s.kind \in {"response", "request"} => s \in Scan!ScanSamples
<1>1. CASE s \in Rules!Samples
  BY <1>1, SampleKinds
<1>2. CASE s \in McpConfig!ConfigSamples
  BY <1>2, SampleKinds
<1>3. CASE s \in Bundle!BundleSamples
  BY <1>3, SampleKinds
<1>4. CASE s \in Denied!DenialSamples
  BY <1>4, SampleKinds
<1>5. CASE s \in Scan!ScanSamples
  BY <1>5, SampleKinds
<1>6. CASE s = [kind |-> "none"]
  BY <1>6
<1> QED
  BY <1>1, <1>2, <1>3, <1>4, <1>5, <1>6 DEF AllSamples

\* What a sample of the rules holds.
LEMMA RuleSampleHas ==
    ASSUME NEW s \in AllSamples
    PROVE  /\ s.kind = "entry" => s.text \in Rules!Texts
           /\ s.kind = "file"  => \E k, l \in Rules!FileLines : s.lines = <<k, l>>
           /\ s.kind = "merge" =>
                 /\ s.base \in Rules!Bases
                 /\ \/ s.allow = FALSE /\ \E g, h \in Rules!GeneratorRules : s.given = <<g, h>>
                    \/ s.allow = TRUE /\ \E g \in Rules!GeneratorRules : s.given = <<g>>
<1>1. CASE s.kind \in {"entry", "file", "rules", "merge"}
  <2>1. s \in Rules!Samples
    BY <1>1, SampleOf
  <2> QED
    BY <2>1, RuleSampleOneOf
<1>2. CASE s.kind \notin {"entry", "file", "rules", "merge"}
  BY <1>2
<1> QED
  BY <1>1, <1>2

\* The names of the samples.
LEMMA SampleNames ==
    /\ <<>> \in Seq(Words) /\ Rules!Com \in Seq(Words) /\ Rules!Org \in Seq(Words)
    /\ Rules!ACom \in Seq(Words) /\ Rules!BACom \in Seq(Words)
    /\ Rules!Root \in Seq(Words) /\ Rules!Deep \in Seq(Words)
    /\ Rules!Com # <<>> /\ Rules!Org # <<>> /\ Rules!ACom # <<>> /\ Rules!BACom # <<>>
<1>1. /\ "a" \in Words /\ "b" \in Words /\ "com" \in Words /\ "org" \in Words
      /\ "/" \in Words /\ "x" \in Words
  BY DEF Words
<1>2. \A a, b, c \in Words : <<a>> \in Seq(Words) /\ <<a, b>> \in Seq(Words) /\ <<a, b, c>> \in Seq(Words)
  OBVIOUS
<1>3. \A a, b, c : <<a>> # <<>> /\ <<a, b>> # <<>> /\ <<a, b, c>> # <<>>
  OBVIOUS
<1>4. <<>> \in Seq(Words)
  OBVIOUS
<1> QED
  BY <1>1, <1>2, <1>3, <1>4, Zenon DEF Rules!Com, Rules!Org, Rules!ACom, Rules!BACom, Rules!Root,
     Rules!Deep

\* The patterns of the samples.
LEMMA SamplePatterns ==
    /\ Rules!Texts \subseteq PatternOf(Words)
    /\ \A t \in {Rules!Plain(Rules!ACom), Rules!Plain(Rules!Com), Rules!Star(Rules!Com),
                 Rules!Star(Rules!ACom), Rules!Anything, Rules!Plain(<<>>)} :
          t \in TargetOf(Words) /\ t \in PatternOf(Words) /\ t.extra # "bracket"
<1> DEFINE N == {<<>>, Rules!Com, Rules!ACom}
           X == {"none", "space", "scheme", "path", "port", "bracket"}
           Q == Seq(Words)
<1>1. N \subseteq Q
  BY SampleNames
<1> HIDE DEF N, Q
<1>2. Rules!Texts \subseteq PatternOf(Words)
  <2>1. ASSUME NEW t \in [stars : 0..2, lead : BOOLEAN, name : N, extra : X]
        PROVE  t \in [stars : Nat, lead : BOOLEAN, name : Q, extra : X]
    <3>1. t.stars \in Nat /\ t.lead \in BOOLEAN /\ t.name \in Q /\ t.extra \in X
      BY <1>1
    <3>2. t = [stars |-> t.stars, lead |-> t.lead, name |-> t.name, extra |-> t.extra]
      OBVIOUS
    <3> QED
      BY <3>1, <3>2
  <2> QED
    BY <2>1 DEF Rules!Texts, PatternOf, N, Q
<1>3. ASSUME NEW n \in N
      PROVE  Rules!Plain(n) \in TargetOf(Words)
  <2>1. n \in Q
    BY <1>1
  <2> QED
    BY <2>1 DEF Rules!Plain, TargetOf, PatternOf, Q
<1>4. ASSUME NEW n \in N, n # <<>>
      PROVE  Rules!Star(n) \in TargetOf(Words)
  <2>1. n \in Q
    BY <1>1
  <2> QED
    BY <2>1 DEF Rules!Star, TargetOf, PatternOf, Q
<1>5. Rules!Anything \in TargetOf(Words)
  <2>1. <<>> \in Q
    BY SampleNames DEF Q
  <2> QED
    BY <2>1 DEF Rules!Anything, TargetOf, PatternOf, Q
<1>6. \A t \in TargetOf(Words) : t \in PatternOf(Words) /\ t.extra # "bracket"
  BY DEF TargetOf
<1> QED
  BY <1>2, <1>3, <1>4, <1>5, <1>6, SampleNames DEF N

\* The lines of the samples.
LEMMA SampleLines ==
    Rules!FileLines \subseteq LineOf(Words)
<1> DEFINE P == {t \in PatternOf(Words) : t.extra # "bracket"}
           E == [text : BOOLEAN, entry : P]
<1>1. \A t \in {Rules!Plain(Rules!ACom), Rules!Star(Rules!Com), Rules!Anything,
                Rules!Plain(Rules!Com), Rules!Star(Rules!ACom)} : t \in P
  BY SamplePatterns
<1> HIDE DEF P
<1>2. \A t \in P : Rules!Entry(t) \in E
  BY DEF Rules!Entry
<1>3. Rules!NoEntry \in E
  BY <1>1 DEF Rules!NoEntry
<1> HIDE DEF E
<1>4. ASSUME NEW l \in Rules!FileLines
      PROVE  /\ l = [form |-> l.form, entries |-> l.entries] /\ l.form \in {"comment", "key", "item", "flow"}
             /\ l.entries \in Seq(E) /\ (l.form \notin {"item", "flow"} => l.entries = <<>>)
  <2>0. <<>> \in Seq(E) /\ \A a, b, c \in E : <<a>> \in Seq(E) /\ <<a, b, c>> \in Seq(E)
    OBVIOUS
  <2>1. CASE l \in [form : {"comment", "key"}, entries : {<<>>}]
    <3>1. l.form \in {"comment", "key"} /\ l.entries = <<>> /\ l = [form |-> l.form, entries |-> l.entries]
      BY <2>1
    <3> QED
      BY <2>0, <3>1
  <2>2. CASE l \in [form : {"item"}, entries : {<<Rules!Entry(t)>> :
                       t \in {Rules!Plain(Rules!ACom), Rules!Star(Rules!Com), Rules!Anything}}]
    <3>1. /\ l.form = "item" /\ l = [form |-> l.form, entries |-> l.entries]
          /\ \E t \in {Rules!Plain(Rules!ACom), Rules!Star(Rules!Com), Rules!Anything} :
                l.entries = <<Rules!Entry(t)>>
      BY <2>2
    <3> QED
      BY <1>1, <1>2, <2>0, <3>1
  <2>3. CASE l \in [form : {"flow"}, entries : {<<>>,
               <<Rules!Entry(Rules!Plain(Rules!Com)), Rules!NoEntry, Rules!Entry(Rules!Star(Rules!ACom))>>}]
    <3>1. /\ l.form = "flow" /\ l = [form |-> l.form, entries |-> l.entries]
          /\ \/ l.entries = <<>>
             \/ l.entries = <<Rules!Entry(Rules!Plain(Rules!Com)), Rules!NoEntry,
                              Rules!Entry(Rules!Star(Rules!ACom))>>
      BY <2>3
    <3> QED
      BY <1>1, <1>2, <1>3, <2>0, <3>1
  <2> QED
    BY <2>1, <2>2, <2>3 DEF Rules!FileLines
<1>5. ASSUME NEW l \in Rules!FileLines PROVE l \in LineOf(Words)
  <2>1. l \in [form : {"comment", "key", "item", "flow"}, entries : Seq(E)]
    <3> DEFINE F == Seq(E)
    <3>1. l.entries \in F /\ l.form \in {"comment", "key", "item", "flow"} /\ l = [form |-> l.form, entries |-> l.entries]
      BY <1>4
    <3> HIDE DEF F
    <3>2. l \in [form : {"comment", "key", "item", "flow"}, entries : F]
      BY <3>1
    <3> QED
      BY <3>2 DEF F
  <2> QED
    BY <1>4, <2>1 DEF LineOf, E, P
<1> QED
  BY <1>5

\* The generator's rules, the profiles and the requests of the samples.
LEMMA SampleRules ==
    /\ Rules!GeneratorRules \subseteq GeneratorRuleOf(Words)
    /\ Rules!Bases \subseteq ProfileOf(Words)
    /\ \A b \in Rules!Bases : b.denies = <<>> /\ b.allows = <<>>
    /\ \A r \in Rules!Requests : RequestOf(Words, r)
<1>1. ASSUME NEW g \in Rules!GeneratorRules PROVE g \in GeneratorRuleOf(Words)
  <2>1. g \in [bouncer : {"gbounce", "ibounce"},
               target : {Rules!Plain(Rules!ACom), Rules!Star(Rules!ACom), Rules!Anything, Rules!Plain(<<>>)},
               path : {Rules!NoPath, Rules!Deep},
               actions : {{}, {"GET"}, {Rules!Blank}, {"GET", Rules!Blank}}]
    BY DEF Rules!GeneratorRules
  <2>2. g.target \in TargetOf(Words)
    BY <2>1, SamplePatterns
  <2>3. g.path \in Seq(Words)
    BY <2>1, SampleNames DEF Rules!NoPath
  <2>4. g.actions \in SUBSET Words
    <3>1. g.actions \in {{}, {"GET"}, {Rules!Blank}, {"GET", Rules!Blank}}
      BY <2>1
    <3>2. Rules!Blank \in Words /\ "GET" \in Words
      BY DEF Words
    <3> QED
      BY <3>1, <3>2
  <2>5. g.bouncer \in {"gbounce", "ibounce"}
    BY <2>1
  <2>6. g = [bouncer |-> g.bouncer, target |-> g.target, path |-> g.path, actions |-> g.actions]
    BY <2>1
  <2>7. g.bouncer \in Words
    BY <2>5 DEF Words
  <2> QED
    BY <2>2, <2>3, <2>4, <2>6, <2>7 DEF GeneratorRuleOf
<1>2. ASSUME NEW b \in Rules!Bases
      PROVE  b \in ProfileOf(Words) /\ b.denies = <<>> /\ b.allows = <<>>
  <2>1. PICK hs \in {<<>>, <<Rules!Plain(Rules!ACom)>>} : b = [hosts |-> hs, denies |-> <<>>, allows |-> <<>>]
    BY DEF Rules!Bases
  <2>2. Rules!Plain(Rules!ACom) \in PatternOf(Words)
    BY SamplePatterns
  <2>3. hs \in Seq(PatternOf(Words)) /\ <<>> \in Seq(SpecsOf(Words))
    <3> DEFINE P == PatternOf(Words)
               R == SpecsOf(Words)
    <3>1. \A t \in P : <<t>> \in Seq(P)
      OBVIOUS
    <3>2. <<>> \in Seq(P) /\ <<>> \in Seq(R)
      OBVIOUS
    <3> HIDE DEF P, R
    <3>3. hs \in Seq(P)
      BY <2>2, <3>1, <3>2 DEF P
    <3> QED
      BY <3>2, <3>3 DEF P, R
  <2> QED
    BY <2>1, <2>3 DEF ProfileOf
<1>3. ASSUME NEW r \in Rules!Requests PROVE RequestOf(Words, r)
  <2>1. r.host \in Rules!Hosts /\ r.path \in {Rules!Root, Rules!Deep} /\ r.method \in {"GET", "PUT"}
    BY DEF Rules!Requests
  <2> QED
    BY <2>1, SampleNames DEF RequestOf, Rules!Hosts, Rules!Blank
<1> QED
  BY <1>1, <1>2, <1>3

\* The four parts of the invariant, of a sample.
LEMMA SampledRules ==
    ASSUME sample \in AllSamples
    PROVE  RulesMeanWhatTheySay
<1>1. Rules!EntriesMeanWhatTheySay
  <2> SUFFICES ASSUME sample.kind = "entry"
               PROVE  /\ Rules!ParseDenyHost(sample.text) <=> Rules!ParseDenyHostEntry(sample.text)
                      /\ Rules!ParseDenyHost(sample.text) /\ sample.text.extra # "bracket" =>
                            \A h \in Rules!Hosts : Rules!MatchDenyHosts(<<sample.text>>, h)
                                                      <=> Rules!NameCovers(sample.text, h)
    BY DEF Rules!EntriesMeanWhatTheySay
  <2>1. sample.text \in PatternOf(Words)
    BY RuleSampleHas, SamplePatterns
  <2> QED
    BY <2>1, EveryEntryMeansWhatItSays
<1>2. Rules!FilesMeanWhatTheySay
  <2> SUFFICES ASSUME sample.kind = "file" PROVE Rules!FilesMeanWhatTheySay
    BY DEF Rules!FilesMeanWhatTheySay
  <2> DEFINE lines == sample.lines
             rules == Rules!ParseDenyHostsFile(lines)
  <2>1. lines \in Seq(LineOf(Words))
    <3>1. PICK k, l \in Rules!FileLines : lines = <<k, l>>
      BY RuleSampleHas
    <3>2. k \in LineOf(Words) /\ l \in LineOf(Words)
      BY SampleLines
    <3> QED
      BY <3>1, <3>2
  <2>2. IF \E t \in Named(lines) : ~Rules!ParseDenyHost(t) THEN rules = "refused"
        ELSE \A h : Rules!MatchDenyHosts([i \in DOMAIN rules |-> rules[i].entry], h)
                       <=> \E t \in Named(lines) : Rules!NameCovers(t, h)
    BY <2>1, EveryFileMeansWhatItSays
  <2> QED
    BY <2>2 DEF Rules!FilesMeanWhatTheySay, Named
<1>3. Rules!UndecryptedIsBlind
  BY EveryUndecryptedVerdictIsBlind DEF Rules!UndecryptedIsBlind
<1>4. Rules!MergeKeepsMeaning
  <2> DEFINE banned == IF sample.allow THEN <<>> ELSE sample.given
             allows == IF sample.allow THEN sample.given ELSE <<>>
             p == Rules!mergeGeneratorRules(sample.base, banned, allows)
             meant(r) == \E i \in DOMAIN sample.given : Rules!Means(sample.given[i], r)
  <2> SUFFICES ASSUME sample.kind = "merge", Rules!Valid(p), NEW r \in Rules!Requests
               PROVE  IF sample.allow
                      THEN meant(r) <=> Rules!FirstMatch(p.allows, TRUE, r) # 0
                      ELSE Rules!Denied(p, r) <=> (meant(r) \/ Rules!MatchDenyHosts(sample.base.hosts, r.host))
    BY DEF Rules!MergeKeepsMeaning
  <2>1. /\ sample.base \in ProfileOf(Words)
        /\ sample.base.denies = <<>> /\ sample.base.allows = <<>>
        /\ RequestOf(Words, r)
    BY RuleSampleHas, SampleRules
  <2>2. sample.allow \in BOOLEAN /\ sample.given \in Seq(GeneratorRuleOf(Words))
    <3> DEFINE G == GeneratorRuleOf(Words)
    <3>0. \A a, b \in G : <<a>> \in Seq(G) /\ <<a, b>> \in Seq(G)
      OBVIOUS
    <3> HIDE DEF G
    <3>1. CASE sample.allow = FALSE /\ \E g, h \in Rules!GeneratorRules : sample.given = <<g, h>>
      BY <3>0, <3>1, SampleRules DEF G
    <3>2. CASE sample.allow = TRUE /\ \E g \in Rules!GeneratorRules : sample.given = <<g>>
      BY <3>0, <3>2, SampleRules DEF G
    <3> QED
      BY <3>1, <3>2, RuleSampleHas
  <2>3. banned \in Seq(GeneratorRuleOf(Words)) /\ allows \in Seq(GeneratorRuleOf(Words))
    <3>1. <<>> \in Seq(GeneratorRuleOf(Words))
      OBVIOUS
    <3> QED
      BY <2>2, <3>1
  <2> HIDE DEF banned, allows
  <2>4. /\ (Rules!MatchDenyHosts(p.hosts, r.host) \/ Rules!FirstMatch(p.denies, TRUE, r) # 0)
              <=> \/ Rules!MatchDenyHosts(sample.base.hosts, r.host)
                  \/ Rules!FirstMatch(sample.base.denies, TRUE, r) # 0
                  \/ \E i \in DOMAIN banned : Rules!Means(banned[i], r)
        /\ Rules!FirstMatch(p.allows, TRUE, r) # 0
              <=> \/ Rules!FirstMatch(sample.base.allows, TRUE, r) # 0
                  \/ \E i \in DOMAIN allows : Rules!Means(allows[i], r)
    <3> DEFINE b == sample.base
    <3>1. b \in ProfileOf(Words) /\ RequestOf(Words, r) /\ Rules!Valid(Rules!mergeGeneratorRules(b, banned, allows))
      BY <2>1
    <3> HIDE DEF b
    <3>2. LET q == Rules!mergeGeneratorRules(b, banned, allows) IN
           /\ (Rules!MatchDenyHosts(q.hosts, r.host) \/ Rules!FirstMatch(q.denies, TRUE, r) # 0)
                 <=> \/ Rules!MatchDenyHosts(b.hosts, r.host) \/ Rules!FirstMatch(b.denies, TRUE, r) # 0
                     \/ \E i \in DOMAIN banned : Rules!Means(banned[i], r)
           /\ Rules!FirstMatch(q.allows, TRUE, r) # 0
                 <=> \/ Rules!FirstMatch(b.allows, TRUE, r) # 0
                     \/ \E i \in DOMAIN allows : Rules!Means(allows[i], r)
      BY <2>3, <3>1, EveryMergeKeepsMeaning
    <3> QED
      BY <3>2 DEF b
  <2>5. Rules!FirstMatch(<<>>, TRUE, r) = 0
    BY DEF Rules!FirstMatch
  <2> HIDE DEF p
  <2>6. CASE sample.allow
    <3>1. allows = sample.given
      BY <2>6 DEF allows
    <3> QED
      BY <2>1, <2>4, <2>5, <2>6, <3>1
  <2>7. CASE ~sample.allow
    <3>1. banned = sample.given /\ allows = <<>>
      BY <2>7 DEF banned, allows
    <3>2. Rules!FirstMatch(p.allows, TRUE, r) = 0
      <4>1. ~\E i \in DOMAIN allows : Rules!Means(allows[i], r)
        BY <3>1
      <4>2. Rules!FirstMatch(sample.base.allows, TRUE, r) = 0
        BY <2>1, <2>5
      <4> QED
        BY <2>4, <4>1, <4>2
    <3> QED
      BY <2>1, <2>4, <2>5, <2>7, <3>1, <3>2 DEF Rules!Denied
  <2> QED
    BY <2>2, <2>6, <2>7
<1> QED
  BY <1>1, <1>2, <1>3, <1>4 DEF RulesMeanWhatTheySay, Rules!RulesMeanWhatTheySay

\* The sample of a behaviour never changes.
LEMMA SampleStays == ControlSpec => [](sample \in AllSamples)
<1>1. ControlInit => sample \in AllSamples
  BY DEF ControlInit, AllSamples
<1>2. sample \in AllSamples /\ [ControlNext]_allVars => (sample \in AllSamples)'
  <2>1. [ControlNext]_allVars => sample' = sample
    BY DEF ControlNext, allVars
  <2> QED
    BY <2>1 DEF AllSamples
<1> QED
  BY <1>1, <1>2, PTL DEF ControlSpec

\* In every behaviour what the entries and rules of a profile say is what the proxy does.
THEOREM RulesHold == ControlSpec => []RulesMeanWhatTheySay
<1>1. sample \in AllSamples => RulesMeanWhatTheySay
  BY SampledRules
<1> QED
  BY <1>1, SampleStays, PTL

-----------------------------------------------------------------------------
\* The client's configuration file.

\* A file a client may have, with any servers and any other members.
ClientFile(f) ==
    /\ f.text \in {"absent", "empty", "bad", "null", "json"}
    /\ f.servers \in {"none", "other", "object"}

\* What may become of a file: g is what another time would leave too.
InstalledAs(f, g, client, force) ==
    /\ f.text \in {"bad", "null"} /\ ~force => g = f
    /\ f.text = "json" => g.other = f.other
    /\ f.text = "json" /\ f.servers = "object" =>
          /\ \A n \in DOMAIN f.members \ {"gbounce"} :
                n \in DOMAIN g.members /\ g.members[n] = f.members[n]
          /\ g.members["gbounce"] = McpConfig!Entry(client)
    /\ f.text = "absent" => g.text = "json"
    /\ f.text # "absent" => g.text # "absent"
    /\ McpConfig!installJSON(g, client, force) = g

\* What the installer makes of a file.
LEMMA Installed ==
    ASSUME NEW f, ClientFile(f), NEW client, NEW force \in BOOLEAN
    PROVE  InstalledAs(f, McpConfig!installJSON(f, client, force), client, force)
<1> DEFINE readable == f.text \in {"absent", "empty", "json"}
           servers == IF f.text = "json" /\ f.servers # "none" /\ f.servers # "other"
                      THEN f.members ELSE McpConfig!NoServers
           refused == \/ f.text = "null" \/ (~readable /\ ~force)
                      \/ (f.text = "json" /\ f.servers = "other" /\ ~force)
           g == McpConfig!installJSON(f, client, force)
           written == [text |-> "json", servers |-> "object", members |-> McpConfig!Merged(servers, client),
                       other |-> IF f.text = "json" THEN f.other ELSE {}]
<1>1. g = IF refused THEN f ELSE written
  BY DEF McpConfig!installJSON
<1>2. CASE refused
  <2>1. g = f
    BY <1>1, <1>2
  <2>2. f.text # "absent" /\ ~(f.text = "json" /\ f.servers = "object")
    BY <1>2
  <2> HIDE DEF g
  <2>3. McpConfig!installJSON(f, client, force) = f
    BY <2>1 DEF g
  <2> QED
    BY <2>1, <2>2, <2>3 DEF g, InstalledAs
<1>3. CASE ~refused
  <2>1. g = written
    BY <1>1, <1>3
  <2>2. /\ g.text = "json" /\ g.servers = "object" /\ g.members = McpConfig!Merged(servers, client)
        /\ g.other = IF f.text = "json" THEN f.other ELSE {}
        /\ g = [text |-> "json", servers |-> "object", members |-> g.members, other |-> g.other]
    BY <2>1
  <2>3. /\ DOMAIN g.members = DOMAIN servers \cup {"gbounce"}
        /\ g.members["gbounce"] = McpConfig!Entry(client)
        /\ \A n \in DOMAIN servers \ {"gbounce"} : g.members[n] = servers[n]
        /\ g.members = [n \in DOMAIN g.members |-> g.members[n]]
    BY <2>2 DEF McpConfig!Merged
  <2>4. f.text \notin {"bad", "null"} \/ force
    BY <1>3
  <2>5. f.text = "json" /\ f.servers = "object" => servers = f.members
    OBVIOUS
  <2> HIDE DEF g, servers, written, refused
  <2>6. McpConfig!installJSON(g, client, force) = g
    <3>1. McpConfig!Merged(g.members, client) = g.members
      <4> DEFINE m == g.members
      <4>1. DOMAIN m \cup {"gbounce"} = DOMAIN m /\ m["gbounce"] = McpConfig!Entry(client)
        BY <2>3
      <4>2. m = [n \in DOMAIN m |-> m[n]]
        BY <2>3
      <4> HIDE DEF m
      <4>3. [n \in DOMAIN m |-> IF n = "gbounce" THEN McpConfig!Entry(client) ELSE m[n]] = [n \in DOMAIN m |-> m[n]]
        BY <4>1
      <4>4. McpConfig!Merged(m, client) = m
        BY <4>1, <4>2, <4>3 DEF McpConfig!Merged
      <4> QED
        BY <4>4 DEF m
    <3> QED
      BY <2>2, <3>1 DEF McpConfig!installJSON
  <2> QED
    BY <2>2, <2>3, <2>4, <2>5, <2>6 DEF g, InstalledAs
<1> QED
  BY <1>2, <1>3

\* The first of three candidates that is there, or the first.
FirstThere(a, b, c, e) == IF a \in e THEN a ELSE IF b \in e THEN b ELSE IF c \in e THEN c ELSE a

\* What the target is without a path of its own, of one candidate and of three.
TargetOfOne(a, e) == McpConfig!resolveTarget("", <<a>>, e) = a
TargetOfThree(a, b, c, e) == McpConfig!resolveTarget("", <<a, b, c>>, e) = FirstThere(a, b, c, e)

\* Without a path of its own the file is the first candidate there is, or the first.
LEMMA FirstCandidate ==
    ASSUME NEW a, NEW b, NEW c, NEW e
    PROVE  TargetOfOne(a, e) /\ TargetOfThree(a, b, c, e)
<1>1. McpConfig!resolveTarget("", <<a>>, e) = a
  <2> DEFINE l == <<a>>
             here == {i \in DOMAIN l : l[i] \in e}
             least == CHOOSE i \in here : \A j \in here : i <= j
             first == IF here = {} THEN 1 ELSE least
  <2>1. DOMAIN l = {1} /\ l[1] = a
    OBVIOUS
  <2> HIDE DEF l
  <2>2. McpConfig!resolveTarget("", l, e) = l[first]
    BY DEF McpConfig!resolveTarget
  <2>3. here \subseteq {1} /\ here \subseteq Nat
    BY <2>1
  <2>4. here # {} => least \in here
    BY <2>3, LeastIn
  <2> HIDE DEF least, here
  <2>5. first = 1
    BY <2>3, <2>4
  <2> QED
    BY <2>1, <2>2, <2>5 DEF l
<1>2. McpConfig!resolveTarget("", <<a, b, c>>, e) =
          IF a \in e THEN a ELSE IF b \in e THEN b ELSE IF c \in e THEN c ELSE a
  <2> DEFINE l == <<a, b, c>>
             here == {i \in DOMAIN l : l[i] \in e}
             least == CHOOSE i \in here : \A j \in here : i <= j
             first == IF here = {} THEN 1 ELSE least
  <2>1. DOMAIN l = 1..3 /\ l[1] = a /\ l[2] = b /\ l[3] = c
    OBVIOUS
  <2> HIDE DEF l
  <2>2. McpConfig!resolveTarget("", l, e) = l[first]
    BY DEF McpConfig!resolveTarget
  <2>3. here \subseteq 1..3 /\ (1 \in here <=> a \in e) /\ (2 \in here <=> b \in e) /\ (3 \in here <=> c \in e)
    BY <2>1
  <2> HIDE DEF here
  <2>4. here # {} => least \in here /\ \A j \in here : least <= j
    <3>1. here \subseteq Nat
      BY <2>3
    <3> QED
      BY <3>1, LeastIn
  <2> HIDE DEF least
  <2>5. first = IF 1 \in here THEN 1 ELSE IF 2 \in here THEN 2 ELSE IF 3 \in here THEN 3 ELSE 1
    <3>1. \A i \in here : i = 1 \/ i = 2 \/ i = 3
      BY <2>3
    <3>2. CASE here = {}
      BY <3>2
    <3>3. CASE here # {}
      <4>1. first = least /\ (least = 1 \/ least = 2 \/ least = 3)
        BY <2>4, <3>1, <3>3
      <4> HIDE DEF first
      <4>2. CASE least = 1
        BY <2>4, <3>3, <4>1, <4>2
      <4>3. CASE least = 2
        <5>1. 1 \notin here
          BY <2>4, <4>3
        <5> QED
          BY <2>4, <3>3, <4>1, <4>3, <5>1
      <4>4. CASE least = 3
        <5>1. 1 \notin here /\ 2 \notin here
          BY <2>4, <4>4
        <5> QED
          BY <2>4, <3>3, <4>1, <4>4, <5>1
      <4> QED
        BY <4>1, <4>2, <4>3, <4>4
    <3> QED
      BY <3>2, <3>3
  <2> HIDE DEF first
  <2> QED
    BY <2>1, <2>2, <2>3, <2>5 DEF l
<1> QED
  BY <1>1, <1>2 DEF TargetOfOne, TargetOfThree, FirstThere

\* Which file is edited, whichever are there.
EditedFile(client, explicit, e) ==
    CASE client = "devin" \/ (client = "codex" /\ explicit = "") -> "print"
      [] client # "devin" /\ explicit # "" -> "home.json"
      [] OTHER -> IF "desktop.json" \in e THEN "desktop.json"
                  ELSE IF "code.json" \in e THEN "code.json"
                  ELSE IF "home.json" \in e THEN "home.json" ELSE "desktop.json"

\* It is the target of the command.
LEMMA TargetIs ==
    ASSUME NEW client \in {"claude-code", "codex", "devin"}, NEW explicit \in {"", "home.json"},
           NEW e
    PROVE  McpConfig!Target(client, explicit, e) = EditedFile(client, explicit, e)
<1>1. CASE client = "devin"
  BY <1>1 DEF EditedFile, McpConfig!Target
<1>2. CASE client # "devin" /\ explicit # ""
  BY <1>2 DEF EditedFile, McpConfig!Target, McpConfig!resolveTarget
<1>3. CASE client = "codex" /\ explicit = ""
  <2>1. McpConfig!Candidates(client) = <<"codex.toml">>
    BY <1>3 DEF McpConfig!Candidates
  <2>2. McpConfig!resolveTarget(explicit, McpConfig!Candidates(client), e) = "codex.toml"
    <3>1. TargetOfOne("codex.toml", e)
      BY FirstCandidate
    <3> QED
      BY <1>3, <2>1, <3>1 DEF TargetOfOne
  <2> QED
    BY <1>3, <2>2 DEF EditedFile, McpConfig!Target
<1>4. CASE client = "claude-code" /\ explicit = ""
  <2>1. McpConfig!Candidates(client) = <<"desktop.json", "code.json", "home.json">>
    BY <1>4 DEF McpConfig!Candidates
  <2>2. McpConfig!resolveTarget(explicit, McpConfig!Candidates(client), e) =
            IF "desktop.json" \in e THEN "desktop.json" ELSE IF "code.json" \in e THEN "code.json"
            ELSE IF "home.json" \in e THEN "home.json" ELSE "desktop.json"
    <3>1. TargetOfThree("desktop.json", "code.json", "home.json", e)
      BY FirstCandidate
    <3> QED
      BY <1>4, <2>1, <3>1 DEF TargetOfThree, FirstThere
  <2> QED
    BY <1>4, <2>2 DEF EditedFile, McpConfig!Target
<1> QED
  BY <1>1, <1>2, <1>3, <1>4

\* Installing twice is installing once, and loses nothing of the client's file,
\* whatever servers and other members that file has.
THEOREM EveryInstallKeepsTheRest ==
    ASSUME NEW s, ClientFile(s.file), s.at \in {"code.json", "home.json", "codex.toml"},
           s.client \in {"claude-code", "codex", "devin"}, s.explicit \in {"", "home.json"},
           s.force \in BOOLEAN
    PROVE  McpConfig!InstallKeepsTheRest(s)
<1> DEFINE P == {"desktop.json", "code.json", "home.json", "codex.toml"}
           disk == [p \in P |-> IF p = s.at THEN s.file ELSE McpConfig!Absent]
           e == {p \in P : disk[p].text # "absent"}
           target == McpConfig!Target(s.client, s.explicit, e)
           disk2 == [p \in P |-> IF p = target THEN McpConfig!installJSON(disk[p], s.client, s.force) ELSE disk[p]]
           e2 == {p \in P : disk2[p].text # "absent"}
           target2 == McpConfig!Target(s.client, s.explicit, e2)
<1>1. DOMAIN disk = P /\ s.at \in P /\ disk[s.at] = s.file
  OBVIOUS
<1>2. McpConfig!InstallCommand(disk, s.client, s.explicit, s.force) = disk2
  BY DEF McpConfig!InstallCommand
<1>3. McpConfig!InstallCommand(disk2, s.client, s.explicit, s.force) =
          [p \in P |-> IF p = target2 THEN McpConfig!installJSON(disk2[p], s.client, s.force) ELSE disk2[p]]
  BY DEF McpConfig!InstallCommand
<1>4. \A p \in P : ClientFile(disk[p]) /\ (p # s.at => disk[p].text = "absent")
  BY DEF ClientFile, McpConfig!Absent
<1>5. e = IF s.file.text = "absent" THEN {} ELSE {s.at}
  BY <1>1, <1>4
<1> DEFINE g(p) == McpConfig!installJSON(disk[p], s.client, s.force)
<1>6. \A p \in P : disk2[p] = IF p = target THEN g(p) ELSE disk[p]
  OBVIOUS
<1>7. disk2 = [p \in P |-> disk2[p]]
  OBVIOUS
<1> HIDE DEF disk, disk2, P, e, e2, target, target2
<1>8. \A p \in P : InstalledAs(disk[p], g(p), s.client, s.force)
  BY <1>4, Installed
<1> HIDE DEF g
<1>9. target = EditedFile(s.client, s.explicit, e) /\ target2 = EditedFile(s.client, s.explicit, e2)
  BY TargetIs DEF target, target2
<1>10. target2 = target
  <2>2. CASE ~(s.client = "claude-code" /\ s.explicit = "")
    BY <1>9, <2>2 DEF EditedFile
  <2>3. CASE s.client = "claude-code" /\ s.explicit = ""
    <3> DEFINE pick(x) == IF "desktop.json" \in x THEN "desktop.json"
                          ELSE IF "code.json" \in x THEN "code.json"
                          ELSE IF "home.json" \in x THEN "home.json" ELSE "desktop.json"
    <3>1. target = pick(e) /\ target2 = pick(e2)
      BY <1>9, <2>3 DEF EditedFile
    <3>2. target \in P
      BY <3>1 DEF P
    <3>3. e2 = e \cup {target}
      <4>1. \A p \in P : p \in e2 <=> p \in e \/ p = target
        BY <1>6, <1>8 DEF e, e2, InstalledAs
      <4> QED
        BY <3>2, <4>1 DEF e, e2
    <3> QED
      BY <3>1, <3>3
  <2> QED
    BY <2>2, <2>3
<1>11. McpConfig!InstallCommand(disk2, s.client, s.explicit, s.force) = disk2
  <2>1. \A p \in P : (IF p = target2 THEN McpConfig!installJSON(disk2[p], s.client, s.force) ELSE disk2[p]) = disk2[p]
    BY <1>6, <1>8, <1>10 DEF InstalledAs
  <2> QED
    BY <1>3, <1>7, <2>1
<1>12. target # "codex.toml"
  BY <1>9 DEF EditedFile
<1> DEFINE after == disk2[s.at]
<1>13. after = IF s.at = target THEN g(s.at) ELSE s.file
  BY <1>1, <1>6
<1>14. McpConfig!Target(s.client, s.explicit, IF s.file.text = "absent" THEN {} ELSE {s.at}) = target
  BY <1>5 DEF target
<1> HIDE DEF after
<1>15. /\ s.file.text = "json" => after.other = s.file.other
       /\ s.file.text = "json" /\ s.file.servers = "object" =>
             \A n \in DOMAIN s.file.members \ {"gbounce"} :
                n \in DOMAIN after.members /\ after.members[n] = s.file.members[n]
       /\ s.file.text = "json" /\ s.file.servers = "object" /\ target = s.at =>
             after.members["gbounce"] = McpConfig!Entry(s.client)
       /\ s.at = "codex.toml" => after = s.file
       /\ s.file.text \in {"bad", "null"} /\ ~s.force => after = s.file
  <2>1. InstalledAs(s.file, g(s.at), s.client, s.force)
    BY <1>1, <1>8
  <2>2. CASE s.at = target
    <3>1. after = g(s.at)
      BY <1>13, <2>2
    <3> QED
      BY <1>12, <2>1, <2>2, <3>1 DEF InstalledAs
  <2>3. CASE s.at # target
    BY <1>13, <2>3
  <2> QED
    BY <2>2, <2>3
<1> QED
  BY <1>2, <1>11, <1>14, <1>15 DEF McpConfig!InstallKeepsTheRest, after, disk, P

-----------------------------------------------------------------------------
\* What is exported and imported, and the presets.

\* What a sample of a configuration file is made of.
LEMMA ConfigSampleHas ==
    ASSUME NEW s \in McpConfig!ConfigSamples
    PROVE  /\ ClientFile(s.file) /\ s.at \in {"code.json", "home.json", "codex.toml"}
           /\ s.client \in {"claude-code", "codex", "devin"} /\ s.explicit \in {"", "home.json"}
           /\ s.force \in BOOLEAN
<1>1. /\ s.file \in McpConfig!Files /\ s.at \in {"code.json", "home.json", "codex.toml"}
      /\ s.client \in {"claude-code", "codex", "devin"} /\ s.explicit \in {"", "home.json"}
      /\ s.force \in BOOLEAN
  BY DEF McpConfig!ConfigSamples
<1>2. ASSUME NEW f \in McpConfig!Files PROVE ClientFile(f)
  <2> DEFINE M == {[n \in ns |-> McpConfig!Theirs] : ns \in SUBSET {"gbounce", "github"}}
             N == {McpConfig!NoServers}
             O == {{}, {"theme"}}
  <2>1. \/ f \in [text : {"absent", "empty", "bad", "null"}, servers : {"none"}, members : N, other : {{}}]
        \/ f \in [text : {"json"}, servers : {"none", "other"}, members : N, other : O]
        \/ f \in [text : {"json"}, servers : {"object"}, other : O, members : M]
    BY DEF McpConfig!Files
  <2> HIDE DEF M, N, O
  <2>2. CASE f \in [text : {"absent", "empty", "bad", "null"}, servers : {"none"}, members : N, other : {{}}]
    BY <2>2 DEF ClientFile
  <2>3. CASE f \in [text : {"json"}, servers : {"none", "other"}, members : N, other : O]
    BY <2>3 DEF ClientFile
  <2>4. CASE f \in [text : {"json"}, servers : {"object"}, other : O, members : M]
    BY <2>4 DEF ClientFile
  <2> QED
    BY <2>1, <2>2, <2>3, <2>4
<1> QED
  BY <1>1, <1>2

\* The members every bundle has.
Always == {"schema_version", "product", "profiles_supported", "runtime_config", "audit_webhook"}

\* What the command exports.
ExportOf(o, b) ==
    /\ b.type = "object"
    /\ Always \subseteq DOMAIN b.value /\ DOMAIN b.value \subseteq Always \cup {"audit_tail"}
    /\ b.value["schema_version"].type = "string" /\ b.value["schema_version"].value = "1.0"
    /\ b.value["product"].type = "string" /\ b.value["product"].value = "gbounce"
    /\ b.value["profiles_supported"].type = "boolean"
    /\ b.value["runtime_config"].type = "object" /\ b.value["audit_webhook"].type = "object"
    /\ "audit_tail" \in DOMAIN b.value => b.value["audit_tail"].type = "array"
    /\ "mode" \in DOMAIN b.value["runtime_config"].value
    /\ "port" \in DOMAIN b.value["runtime_config"].value <=> o.port # ""
    /\ o.port # "" => b.value["runtime_config"].value["port"].value = o.port
    /\ "redacted" \in DOMAIN b.value["audit_webhook"].value
    /\ DOMAIN b.value["audit_webhook"].value \subseteq {"redacted", "url", "token"}
    /\ o.redact => \A f \in DOMAIN b.value["audit_webhook"].value \ {"redacted"} :
                      b.value["audit_webhook"].value[f].value = Bundle!Masked

\* The members of a JSON value.
LEMMA ValueHas ==
    ASSUME NEW v
    PROVE  /\ Bundle!Str(v).type = "string" /\ Bundle!Str(v).value = v
           /\ Bundle!Bool(v).type = "boolean" /\ Bundle!Bool(v).value = v
           /\ Bundle!Arr(v).type = "array"
           /\ Bundle!Obj(v).type = "object" /\ Bundle!Obj(v).value = v
BY DEF Bundle!Str, Bundle!Bool, Bundle!Arr, Bundle!Obj

\* That is what it exports.
LEMMA ExportHas ==
    ASSUME NEW o, o.redact \in BOOLEAN
    PROVE  ExportOf(o, Bundle!BuildExport(o))
<1> DEFINE mask(v) == Bundle!Str(IF o.redact /\ v # "" THEN Bundle!Masked ELSE v)
           W == {"redacted"} \cup (IF o.url = "" THEN {} ELSE {"url"})
                             \cup (IF o.token = "" THEN {} ELSE {"token"})
           webhook == [f \in W |-> CASE f = "redacted" -> Bundle!Bool(o.redact)
                                     [] f = "url"      -> mask(o.url)
                                     [] f = "token"    -> mask(o.token)]
           R == {"mode"} \cup (IF o.port = "" THEN {} ELSE {"port"})
           runtime == [f \in R |-> IF f = "mode" THEN Bundle!Str("discovery")
                                   ELSE [type |-> "number", value |-> o.port]]
           D == Always \cup (IF o.rows > 0 THEN {"audit_tail"} ELSE {})
           members == [f \in D |->
              CASE f = "schema_version"     -> Bundle!Str("1.0")
                [] f = "product"            -> Bundle!Str("gbounce")
                [] f = "profiles_supported" -> Bundle!Bool(FALSE)
                [] f = "runtime_config"     -> Bundle!Obj(runtime)
                [] f = "audit_webhook"      -> Bundle!Obj(webhook)
                [] f = "audit_tail"         -> Bundle!Arr(o.rows)]
           b == Bundle!BuildExport(o)
<1>1. b = Bundle!Obj(members)
  BY DEF Bundle!BuildExport, Always
<1>2. /\ DOMAIN webhook = W
      /\ \A f \in W \ {"redacted"} : o.redact => webhook[f].value = Bundle!Masked
  BY DEF Bundle!Str
<1>3. /\ DOMAIN runtime = R /\ (o.port # "" => runtime["port"].value = o.port)
  OBVIOUS
<1> HIDE DEF webhook, runtime
<1>5. DOMAIN members = D
  OBVIOUS
<1>6. /\ members["schema_version"] = Bundle!Str("1.0")
      /\ members["product"] = Bundle!Str("gbounce")
      /\ members["profiles_supported"] = Bundle!Bool(FALSE)
      /\ members["runtime_config"] = Bundle!Obj(runtime)
      /\ members["audit_webhook"] = Bundle!Obj(webhook)
      /\ "audit_tail" \in D => members["audit_tail"] = Bundle!Arr(o.rows)
  BY DEF Always
<1> HIDE DEF members, b
<1>4. b.type = "object" /\ b.value = members
  BY <1>1, ValueHas, Zenon
<1>7. /\ members["schema_version"].type = "string" /\ members["schema_version"].value = "1.0"
      /\ members["product"].type = "string" /\ members["product"].value = "gbounce"
      /\ members["profiles_supported"].type = "boolean"
      /\ members["runtime_config"].type = "object" /\ members["runtime_config"].value = runtime
      /\ members["audit_webhook"].type = "object" /\ members["audit_webhook"].value = webhook
      /\ "audit_tail" \in D => members["audit_tail"].type = "array"
  <2> HIDE DEF D
  <2>1. members["schema_version"].type = "string" /\ members["schema_version"].value = "1.0"
    BY <1>6 DEF Bundle!Str
  <2>2. members["product"].type = "string" /\ members["product"].value = "gbounce"
    BY <1>6 DEF Bundle!Str
  <2>3. members["profiles_supported"].type = "boolean"
    BY <1>6 DEF Bundle!Bool
  <2>4. members["runtime_config"].type = "object" /\ members["runtime_config"].value = runtime
    BY <1>6 DEF Bundle!Obj
  <2>5. members["audit_webhook"].type = "object" /\ members["audit_webhook"].value = webhook
    BY <1>6 DEF Bundle!Obj
  <2>6. "audit_tail" \in D => members["audit_tail"].type = "array"
    BY <1>6 DEF Bundle!Arr
  <2> QED
    BY <2>1, <2>2, <2>3, <2>4, <2>5, <2>6
<1>8. /\ "mode" \in R /\ ("port" \in R <=> o.port # "")
      /\ "redacted" \in W /\ W \subseteq {"redacted", "url", "token"}
      /\ Always \subseteq D /\ D \subseteq Always \cup {"audit_tail"}
  OBVIOUS
<1> HIDE DEF W, R, D
<1>9. ExportOf(o, b)
  BY <1>2, <1>3, <1>4, <1>5, <1>7, <1>8 DEF ExportOf
<1> QED
  BY <1>9 DEF b

\* What the command exports is a bundle it takes.
LEMMA ExportIsValid ==
    ASSUME NEW o, o.redact \in BOOLEAN
    PROVE  Bundle!LoadAndValidate(Bundle!BuildExport(o))
<1> DEFINE b == Bundle!BuildExport(o)
<1>1. ExportOf(o, b)
  BY ExportHas
<1> HIDE DEF b
<1>2. DOMAIN Bundle!Schema = Always \cup {"audit_tail"}
  BY DEF Bundle!Schema, Always
<1> DEFINE v(f) == b.value[f]
           k(f) == Bundle!Schema[f]
<1>3. /\ k("schema_version").type = "string" /\ k("schema_version").enum = {"1.0"}
      /\ k("product").type = "string" /\ k("product").enum = {"gbounce"}
      /\ k("profiles_supported").type = "boolean" /\ k("profiles_supported").enum = {}
      /\ k("runtime_config").type = "object" /\ k("runtime_config").enum = {}
      /\ k("runtime_config").required = {"mode"}
      /\ k("audit_webhook").type = "object" /\ k("audit_webhook").enum = {}
      /\ k("audit_webhook").required = {"redacted"}
      /\ k("audit_tail").type = "array" /\ k("audit_tail").enum = {}
  BY DEF Bundle!Schema, Bundle!Any
<1>4. /\ v("schema_version").type = "string" /\ v("schema_version").value = "1.0"
      /\ v("product").type = "string" /\ v("product").value = "gbounce"
      /\ v("profiles_supported").type = "boolean"
      /\ v("runtime_config").type = "object" /\ "mode" \in DOMAIN v("runtime_config").value
      /\ v("audit_webhook").type = "object" /\ "redacted" \in DOMAIN v("audit_webhook").value
      /\ "audit_tail" \in DOMAIN b.value => v("audit_tail").type = "array"
  BY <1>1 DEF ExportOf
<1> HIDE DEF v, k
<1>5. /\ Bundle!validateMember(v("schema_version"), k("schema_version"))
      /\ Bundle!validateMember(v("product"), k("product"))
  BY <1>3, <1>4 DEF Bundle!validateMember
<1>6. Bundle!validateMember(v("profiles_supported"), k("profiles_supported"))
  BY <1>3, <1>4 DEF Bundle!validateMember, Bundle!Any
<1>7. /\ Bundle!validateMember(v("runtime_config"), k("runtime_config"))
      /\ Bundle!validateMember(v("audit_webhook"), k("audit_webhook"))
  BY <1>3, <1>4 DEF Bundle!validateMember, Bundle!Any
<1>8. "audit_tail" \in DOMAIN b.value => Bundle!validateMember(v("audit_tail"), k("audit_tail"))
  BY <1>3, <1>4 DEF Bundle!validateMember, Bundle!Any
<1>9. \A f \in DOMAIN Bundle!Schema \cap DOMAIN b.value : Bundle!validateMember(b.value[f], Bundle!Schema[f])
  <2>1. \A f \in Always \cup {"audit_tail"} :
            f \in DOMAIN b.value => Bundle!validateMember(v(f), k(f))
    BY <1>5, <1>6, <1>7, <1>8 DEF Always
  <2> QED
    BY <1>2, <2>1 DEF v, k
<1>10. Bundle!validateConfigJSON(b)
  BY <1>1, <1>2, <1>9 DEF ExportOf, Bundle!validateConfigJSON, Bundle!Required, Always
<1>11. Bundle!LoadAndValidate(b)
  BY <1>4, <1>10 DEF v, Bundle!LoadAndValidate
<1> QED
  BY <1>11 DEF b

\* The ports of an exported bundle.
PortsOf(o) == {IF o.port = "" THEN "8080" ELSE o.port, "8769"}

\* The ports that are probed are where the bundle says the proxy runs, and the
\* management port.
LEMMA ProbesWhereItRuns ==
    ASSUME NEW o, o.redact \in BOOLEAN
    PROVE  Bundle!ProbePorts(Bundle!BuildExport(o)) = PortsOf(o)
<1> DEFINE b == Bundle!BuildExport(o)
<1>1. ExportOf(o, b)
  BY ExportHas
<1> HIDE DEF b
<1>2. Bundle!ProbePorts(b) = PortsOf(o)
  BY <1>1 DEF ExportOf, Bundle!ProbePorts, PortsOf
<1> QED
  BY <1>2 DEF b

\* Whatever is exported, and whichever bundle is imported: what export writes
\* import reads, no secret is in a redacted bundle, and no import happens over a
\* proxy that runs.
THEOREM EveryBundleTravels ==
    ASSUME NEW s, s.options.redact \in BOOLEAN, s.dry \in BOOLEAN
    PROVE  Bundle!BundlesTravel(s)
<1> DEFINE b == Bundle!BuildExport(s.options)
           result == Bundle!applyImport(s.bundle, s.dry, s.listening)
<1>1. ExportOf(s.options, b) /\ Bundle!LoadAndValidate(b)
  BY ExportHas, ExportIsValid
<1>2. Bundle!ProbePorts(b) = PortsOf(s.options)
  BY ProbesWhereItRuns
<1>3. result = "imported" => /\ ~s.dry /\ s.bundle.value["product"].value = "gbounce"
                             /\ Bundle!ProbePorts(s.bundle) \cap s.listening = {}
  BY DEF Bundle!applyImport, Bundle!LoadAndValidate
<1> HIDE DEF b, result
<1>4. s.options.redact => \A f \in DOMAIN b.value["audit_webhook"].value \ {"redacted"} :
                             b.value["audit_webhook"].value[f].value # Bundle!Secret
  BY <1>1 DEF ExportOf, Bundle!Masked, Bundle!Secret
<1>5. result = "imported" /\ s.bundle = b =>
          s.listening \cap {"8769", IF s.options.port = "" THEN "8080" ELSE s.options.port} = {}
  BY <1>2, <1>3 DEF PortsOf
<1> QED
  BY <1>1, <1>3, <1>4, <1>5 DEF Bundle!BundlesTravel, b, result

\* Whatever a command is given, its row is there exactly when it did what it says.
THEOREM EveryCommandIsOnRecord ==
    ASSUME NEW s, s.writes \in BOOLEAN, s.log \in BOOLEAN, s.dry \in BOOLEAN
    PROVE  Bundle!CommandsOnRecord(s)
<1> DEFINE e == Bundle!ExportCommand(s.options, s.out, s.writes, s.log, Bundle!Before)
           b == Bundle!BuildExport(s.options)
           i == Bundle!ImportCommand(b, s.modes, s.dry, s.log, s.listening)
<1>1. e.file \in {Bundle!Before, b} /\ (e.rows = 1 => s.out = "" \/ (s.writes /\ e.file = b))
  <2> DEFINE done == s.out = "" \/ s.writes
             f == IF s.out # "" /\ s.writes THEN b ELSE Bundle!Before
             n == IF done /\ s.log THEN 1 ELSE 0
  <2>1. e = [done |-> done, file |-> f, rows |-> n]
    BY DEF Bundle!ExportCommand
  <2> HIDE DEF e, b
  <2>2. e.file = f /\ e.rows = n
    <3> HIDE DEF done, f, n
    <3> QED
      BY <2>1
  <2>3. CASE s.writes
    BY <2>2, <2>3
  <2>4. CASE ~s.writes
    <3>1. f = Bundle!Before
      BY <2>4
    <3>2. s.out # "" => n = 0
      BY <2>4
    <3> HIDE DEF f, n, done
    <3>3. e.file = Bundle!Before
      BY <2>2, <3>1
    <3>4. 0 # 1
      OBVIOUS
    <3>5. e.rows = 1 => s.out = ""
      BY <2>2, <3>2, <3>4, Zenon
    <3> QED
      BY <3>3, <3>5
  <2> QED
    BY <2>3, <2>4
<1>2. i.rows = 1 => i.result = "imported" /\ ~s.dry /\ s.modes # {"merge", "replace"}
  BY DEF Bundle!ImportCommand, Bundle!applyImport
<1>3. b # Bundle!Before
  BY DEF Bundle!BuildExport, Bundle!Before, Bundle!Obj, Bundle!Str
<1> HIDE DEF e, i, b
<1> QED
  BY <1>1, <1>2, <1>3 DEF Bundle!CommandsOnRecord, e, i, b

\* Whatever flags the operator gives and the product lacks.
THEOREM EveryPresetHolds ==
    ASSUME NEW s, s.given = [f \in DOMAIN s.given |-> s.given[f]]
    PROVE  Bundle!PresetsHold(s)
BY DEF Bundle!PresetsHold, Bundle!ApplyPreset, Bundle!SecurityObserve

-----------------------------------------------------------------------------
\* The denials that are listed.

\* The decisions of a database, newest first.
DecisionOf(rows) ==
    /\ \E D : rows \in Seq(D)
    /\ \A i \in DOMAIN rows : rows[i].at \in Nat
    /\ \A i, j \in DOMAIN rows : i < j => rows[i].at >= rows[j].at

\* How many are listed at most, and how many read for that.
MostOf(limit) == IF limit = 0 THEN Denied!DefaultLimit ELSE limit
ReadOf(rows, most) == IF Len(rows) < 4 * most THEN Len(rows) ELSE 4 * most

\* A listing shows the first denials read that are asked for: place tells where
\* each of the hits stands.
Shows(rows, kept, most, listed, hits, place) ==
    /\ hits \in Nat /\ place \in [1..hits -> (1..ReadOf(rows, most)) \cap kept]
    /\ \A j, k \in 1..hits : j < k => place[j] < place[k]
    /\ \A i \in (1..ReadOf(rows, most)) \cap kept : \E k \in 1..hits : place[k] = i
    /\ Len(listed) = (IF hits < most THEN hits ELSE most) /\ DOMAIN listed = 1..Len(listed)
    /\ \A k \in DOMAIN listed : listed[k] = rows[place[k]]

\* What is listed does.
LEMMA ListingShows ==
    ASSUME NEW D, NEW rows \in Seq(D), NEW after, NEW session, NEW limit \in 0..Denied!MostLimit
    PROVE  \E hits, place : Shows(rows, Denied!Wanted(rows, after, session), MostOf(limit),
                                  Denied!RecentDenies(rows, after, session, limit), hits, place)
<1> DEFINE most == CASE limit <= 0 -> Denied!DefaultLimit
                     [] limit > Denied!MostLimit -> Denied!MostLimit
                     [] OTHER -> limit
           n == IF Len(rows) < 4 * most THEN Len(rows) ELSE 4 * most
           read == SubSeq(rows, 1, n)
           W == Denied!Wanted(rows, after, session)
           K == Denied!Wanted(read, after, session)
           found == Denied!Selected(read, K)
           m == IF Len(found) < most THEN Len(found) ELSE most
           listed == SubSeq(found, 1, m)
<1>1. most \in {1, 2}
  BY DEF Denied!MostLimit, Denied!DefaultLimit
<1>2. most = MostOf(limit)
  BY DEF MostOf, Denied!MostLimit, Denied!DefaultLimit
<1>3. Denied!RecentDenies(rows, after, session, limit) = listed
  BY DEF Denied!RecentDenies
<1> HIDE DEF most
<1>4. n \in Nat /\ n <= Len(rows) /\ n = ReadOf(rows, most)
  BY <1>1 DEF ReadOf
<1> HIDE DEF n
<1>5. read \in Seq(D) /\ Len(read) = n /\ DOMAIN read = 1..n /\ \A i \in 1..n : read[i] = rows[i]
  BY <1>4
<1>6. DOMAIN rows = 1..Len(rows) /\ Len(rows) \in Nat
  OBVIOUS
<1> HIDE DEF read
<1>7. K = (1..n) \cap W
  <2>1. K = {i \in DOMAIN read : /\ read[i].verdict = "deny" /\ read[i].at >= after
                                 /\ session \in {"", read[i].session}}
    BY DEF Denied!Wanted
  <2>2. W = {i \in DOMAIN rows : /\ rows[i].verdict = "deny" /\ rows[i].at >= after
                                 /\ session \in {"", rows[i].session}}
    BY DEF Denied!Wanted
  <2>3. \A i \in 1..n : i \in DOMAIN rows
    BY <1>4, <1>6
  <2>4. \A i \in 1..n : i \in K <=> i \in W
    BY <1>5, <2>1, <2>2, <2>3
  <2>5. \A i \in K : i \in 1..n
    BY <1>5, <2>1
  <2> HIDE DEF K, W
  <2> QED
    BY <2>4, <2>5
<1> HIDE DEF K, W
<1>8. PICK place : Places(read, K, n, found, place)
  BY <1>5, SelectedHas
<1>9. found \in Seq(D)
  BY <1>5, SelectedHas
<1> HIDE DEF found
<1>10. Len(found) \in Nat /\ m \in Nat /\ m <= Len(found) /\ m <= most
  BY <1>1, <1>9
<1>11. Len(listed) = m /\ DOMAIN listed = 1..m /\ \A k \in 1..m : listed[k] = found[k]
  BY <1>9, <1>10
<1>12. Shows(rows, W, most, listed, Len(found), place)
  <2>1. place \in [1..Len(found) -> (1..n) \cap W]
    <3>1. (1..n) \cap K = (1..n) \cap W
      BY <1>7
    <3> QED
      BY <1>8, <3>1 DEF Places
  <2>2. \A i \in (1..n) \cap W : \E k \in 1..Len(found) : place[k] = i
    <3>1. (1..n) \cap W = (1..n) \cap K
      BY <1>7
    <3> QED
      BY <1>8, <3>1 DEF Places
  <2>3. \A j, k \in 1..Len(found) : j < k => place[j] < place[k]
    BY <1>8 DEF Places
  <2>4. \A k \in 1..m : listed[k] = rows[place[k]]
    <3>1. ASSUME NEW k \in 1..m PROVE listed[k] = rows[place[k]]
      <4>1. k \in 1..Len(found)
        BY <1>10
      <4>2. listed[k] = found[k] /\ found[k] = read[place[k]] /\ place[k] \in 1..n
        BY <1>8, <1>11, <2>1, <4>1 DEF Places
      <4> QED
        BY <1>5, <4>2
    <3> QED
      BY <3>1
  <2> HIDE DEF listed
  <2> QED
    BY <1>4, <1>10, <1>11, <2>1, <2>2, <2>3, <2>4 DEF Shows, m
<1> QED
  BY <1>2, <1>3, <1>12 DEF W

\* Whatever the rows: the listing is within its limit, the newest of the denials
\* asked for, and complete when the rows read are all there are.
THEOREM EveryListingIsTheNewest ==
    ASSUME NEW rows, DecisionOf(rows), NEW after, NEW session, NEW limit \in 0..Denied!MostLimit
    PROVE  LET listed == Denied!RecentDenies(rows, after, session, limit)
               wanted == Denied!Wanted(rows, after, session)
               most   == MostOf(limit)
           IN /\ Len(listed) <= most
              /\ \A i \in wanted : \A n \in DOMAIN listed :
                    rows[i].at > listed[n].at => rows[i] \in Denied!ToSet(listed)
              /\ Len(rows) <= 4 * most =>
                    Len(listed) = IF Cardinality(wanted) < most THEN Cardinality(wanted) ELSE most
<1> DEFINE listed == Denied!RecentDenies(rows, after, session, limit)
           wanted == Denied!Wanted(rows, after, session)
           most   == MostOf(limit)
           read   == ReadOf(rows, most)
<1>1. PICK D : rows \in Seq(D)
  BY DEF DecisionOf
<1>2. PICK hits, place : Shows(rows, wanted, most, listed, hits, place)
  BY <1>1, ListingShows
<1>3. most \in {1, 2}
  BY DEF MostOf, Denied!MostLimit, Denied!DefaultLimit
<1>4. DOMAIN rows = 1..Len(rows) /\ Len(rows) \in Nat
  BY <1>1
<1>5. wanted \subseteq DOMAIN rows
  BY DEF Denied!Wanted
<1> HIDE DEF listed, wanted, most
<1>6. read \in Nat /\ read <= Len(rows)
  BY <1>3, <1>4 DEF ReadOf
<1>7. Len(listed) <= most
  BY <1>2, <1>3 DEF Shows
<1>8. ASSUME NEW i \in wanted, NEW n \in DOMAIN listed, rows[i].at > listed[n].at
      PROVE  rows[i] \in Denied!ToSet(listed)
  <2>1. n \in 1..hits /\ place[n] \in (1..read) \cap wanted /\ listed[n] = rows[place[n]]
    BY <1>2, <1>3 DEF Shows
  <2>2. i \in 1..Len(rows) /\ place[n] \in 1..Len(rows)
    BY <1>4, <1>5, <2>1
  <2>3. i < place[n]
    <3>1. rows[i].at \in Nat /\ rows[place[n]].at \in Nat
      BY <1>4, <2>2 DEF DecisionOf
    <3>2. place[n] < i => rows[place[n]].at >= rows[i].at
      BY <1>4, <2>2 DEF DecisionOf
    <3>3. rows[i].at > rows[place[n]].at
      BY <1>8, <2>1
    <3>4. i # place[n]
      BY <3>1, <3>3
    <3>5. ~(place[n] < i)
      BY <3>1, <3>2, <3>3
    <3> QED
      BY <2>2, <3>4, <3>5
  <2>4. i \in 1..read
    BY <1>6, <2>1, <2>2, <2>3
  <2>5. PICK k \in 1..hits : place[k] = i
    BY <1>2, <2>4 DEF Shows
  <2>6. k < n
    <3>1. n < k => place[n] < place[k]
      BY <1>2, <2>1 DEF Shows
    <3>2. n # k
      BY <2>2, <2>3, <2>5
    <3>3. hits \in Nat
      BY <1>2 DEF Shows
    <3> QED
      BY <2>1, <2>2, <2>3, <2>5, <3>1, <3>2, <3>3
  <2>7. k \in DOMAIN listed
    <3>1. DOMAIN listed = 1..Len(listed) /\ Len(listed) \in Nat
      BY <1>2, <1>3 DEF Shows
    <3> QED
      BY <2>6, <3>1
  <2>8. listed[k] = rows[i]
    BY <1>2, <2>5, <2>7 DEF Shows
  <2> QED
    BY <2>7, <2>8 DEF Denied!ToSet
<1>9. ASSUME Len(rows) <= 4 * most
      PROVE  Len(listed) = IF Cardinality(wanted) < most THEN Cardinality(wanted) ELSE most
  <2>1. read = Len(rows)
    <3> DEFINE l == Len(rows)
               q == 4 * most
    <3>1. l \in Nat /\ q \in Nat /\ l <= q
      BY <1>3, <1>4, <1>9
    <3>2. read = IF l < q THEN l ELSE q
      BY DEF ReadOf
    <3> HIDE DEF l, q, read
    <3>3. read = l
      BY <3>1, <3>2
    <3> QED
      BY <3>3 DEF l
  <2>2. (1..read) \cap wanted = wanted
    BY <1>4, <1>5, <2>1
  <2>3. hits \in Nat /\ Len(listed) = (IF hits < most THEN hits ELSE most)
    BY <1>2 DEF Shows
  <2>4. Cardinality(wanted) = hits
    <3>1. place \in [1..hits -> wanted]
      BY <1>2, <2>2 DEF Shows
    <3>2. \A i \in wanted : \E k \in 1..hits : place[k] = i
      BY <1>2, <2>2 DEF Shows
    <3>3. \A j, k \in 1..hits : place[j] = place[k] => j = k
      <4>1. \A k \in 1..hits : place[k] \in Nat
        BY <1>4, <1>5, <3>1
      <4>2. \A j, k \in 1..hits : j < k => place[j] < place[k]
        BY <1>2 DEF Shows
      <4> QED
        BY <2>3, <4>1, <4>2
    <3>4. place \in Bijection(1..hits, wanted)
      BY <3>1, <3>2, <3>3 DEF Bijection, Injection, Surjection, IsInjective
    <3>5. ExistsBijection(1..hits, wanted)
      BY <3>4 DEF ExistsBijection
    <3> QED
      BY <2>3, <3>5, FS_CountingElements
  <2> QED
    BY <2>3, <2>4
<1> QED
  BY <1>7, <1>8, <1>9 DEF listed, wanted, most

\* With an earlier bound the same listing has at least what it had.
LEMMA EarlierBoundListsIt ==
    ASSUME NEW rows, DecisionOf(rows), NEW a \in Nat, NEW b \in Nat, a <= b, NEW session
    PROVE  Denied!ToSet(Denied!RecentDenies(rows, b, session, 0))
              \subseteq Denied!ToSet(Denied!RecentDenies(rows, a, session, 0))
<1> DEFINE A == Denied!Wanted(rows, a, session)
           B == Denied!Wanted(rows, b, session)
           earlier == Denied!RecentDenies(rows, a, session, 0)
           later == Denied!RecentDenies(rows, b, session, 0)
           most == MostOf(0)
           read == ReadOf(rows, most)
<1>1. PICK D : rows \in Seq(D)
  BY DEF DecisionOf
<1>2. 0 \in 0..Denied!MostLimit /\ most = 1
  BY DEF Denied!MostLimit, MostOf, Denied!DefaultLimit
<1>3. PICK hitsA, placeA : Shows(rows, A, most, earlier, hitsA, placeA)
  BY <1>1, <1>2, ListingShows
<1>4. PICK hitsB, placeB : Shows(rows, B, most, later, hitsB, placeB)
  BY <1>1, <1>2, ListingShows
<1>5. DOMAIN rows = 1..Len(rows) /\ Len(rows) \in Nat
  BY <1>1
<1>6. /\ \A i \in DOMAIN rows : i \in B => i \in A
      /\ \A i, j \in DOMAIN rows : i \in A /\ j \in B /\ i <= j => i \in B
  <2>1. ASSUME NEW i \in DOMAIN rows, i \in B PROVE i \in A
    <3>1. rows[i].at \in Nat /\ rows[i].at >= b
      BY <2>1 DEF DecisionOf, Denied!Wanted
    <3>2. rows[i].at >= a
      BY <3>1
    <3> QED
      BY <2>1, <3>2 DEF Denied!Wanted
  <2>2. ASSUME NEW i \in DOMAIN rows, NEW j \in DOMAIN rows, i \in A, j \in B, i <= j PROVE i \in B
    <3>1. rows[i].at \in Nat /\ rows[j].at \in Nat /\ rows[j].at >= b
      BY <2>2 DEF DecisionOf, Denied!Wanted
    <3>2. i < j \/ i = j
      BY <1>5, <2>2
    <3>3. rows[i].at >= rows[j].at
      BY <3>1, <3>2 DEF DecisionOf
    <3>4. rows[i].at >= b
      BY <3>1, <3>3
    <3> QED
      BY <2>2, <3>4 DEF Denied!Wanted
  <2> QED
    BY <2>1, <2>2
<1>7. A \subseteq DOMAIN rows /\ B \subseteq DOMAIN rows
  BY DEF Denied!Wanted
<1> SUFFICES ASSUME NEW x \in Denied!ToSet(later) PROVE x \in Denied!ToSet(earlier)
  OBVIOUS
<1> HIDE DEF A, B, earlier, later, most, read
<1>8. PICK n \in DOMAIN later : later[n] = x
  BY DEF Denied!ToSet
<1>9. n = 1 /\ hitsB >= 1 /\ hitsB \in Nat
  BY <1>2, <1>4 DEF Shows
<1> DEFINE p == placeB[1]
           q == placeA[1]
<1>10. p \in (1..read) /\ p \in B /\ x = rows[p]
  BY <1>4, <1>8, <1>9 DEF Shows, read
<1>11. p \in A
  BY <1>6, <1>7, <1>10
<1>12. PICK k \in 1..hitsA : placeA[k] = p
  BY <1>3, <1>10, <1>11 DEF Shows, read
<1>13. hitsA \in Nat /\ hitsA >= 1 /\ 1 \in 1..hitsA
  BY <1>3, <1>12 DEF Shows
<1>14. q \in (1..read) /\ q \in A
  BY <1>3, <1>13 DEF Shows, read
<1>15. p \in Nat /\ q \in Nat
  BY <1>5, <1>7, <1>10, <1>14
<1>16. q <= p
  <2>1. 1 < k => q < p
    BY <1>3, <1>12, <1>13 DEF Shows
  <2> QED
    BY <1>12, <1>15, <2>1
<1>17. q \in B
  BY <1>6, <1>7, <1>10, <1>14, <1>16
<1>18. PICK l \in 1..hitsB : placeB[l] = q
  BY <1>4, <1>14, <1>17 DEF Shows, read
<1>19. p <= q
  <2>1. 1 < l => p < q
    BY <1>4, <1>9, <1>18 DEF Shows
  <2> QED
    BY <1>15, <1>18, <2>1
<1>20. 1 \in DOMAIN earlier /\ earlier[1] = rows[q]
  BY <1>2, <1>3, <1>13 DEF Shows
<1> QED
  BY <1>10, <1>15, <1>16, <1>19, <1>20 DEF Denied!ToSet

\* The text of a --since, whatever it is.
SinceText(t) ==
    /\ t.form \in {"none", "short", "date", "age"}
    /\ t.good \in BOOLEAN /\ t.sign \in BOOLEAN /\ t.space \in BOOLEAN /\ t.value \in Nat

\* Whatever the rows and the text: of a plain text the tool lists what the command
\* lists, and of any text never what the command does not.
THEOREM ToolListsNoMore ==
    ASSUME NEW rows, DecisionOf(rows), NEW t, SinceText(t)
    PROVE  LET command == Denied!DeniesRecentCommand(rows, t, "", 0)
               tool    == Denied!DeniesRecentTool(rows, t, "", 0)
           IN /\ ~t.space /\ ~t.sign /\ t.form # "none" => command = tool
              /\ tool.ok => command.ok /\ Denied!ToSet(tool.rows) \subseteq Denied!ToSet(command.rows)
<1> DEFINE a == Denied!parseSinceFlag(t)
           b == IF t.form = "none" /\ ~t.space THEN Denied!FiveMinutes ELSE Denied!parseMCPSince(t)
           command == Denied!Listing(rows, a, "", 0)
           tool == Denied!Listing(rows, b, "", 0)
<1>1. command = Denied!DeniesRecentCommand(rows, t, "", 0) /\ tool = Denied!DeniesRecentTool(rows, t, "", 0)
  BY DEF Denied!DeniesRecentCommand, Denied!DeniesRecentTool
<1>2. ~t.space /\ ~t.sign /\ t.form # "none" => a = b
  BY DEF SinceText, Denied!parseSinceFlag, Denied!parseMCPSince
<1>3. b # Denied!Refused => a \in Nat /\ b \in Nat /\ a <= b
  <2>1. t.form = "none" => a = 0 /\ (b # Denied!Refused => b = 2)
    BY DEF SinceText, Denied!parseSinceFlag, Denied!parseMCPSince, Denied!FiveMinutes
  <2>2. t.form = "short" => b = Denied!Refused
    BY DEF SinceText, Denied!parseMCPSince
  <2>3. t.form \in {"date", "age"} /\ b # Denied!Refused => a = t.value /\ b = t.value
    BY DEF SinceText, Denied!parseSinceFlag, Denied!parseMCPSince
  <2> QED
    BY <2>1, <2>2, <2>3 DEF SinceText
<1> HIDE DEF a, b
<1>4. tool.ok => b # Denied!Refused
  BY DEF Denied!Listing
<1>5. ASSUME b # Denied!Refused
      PROVE  command.ok /\ Denied!ToSet(tool.rows) \subseteq Denied!ToSet(command.rows)
  <2>1. a \in Nat /\ b \in Nat /\ a <= b /\ a # Denied!Refused
    BY <1>3, <1>5 DEF Denied!Refused
  <2>2. command.ok /\ command.rows = Denied!RecentDenies(rows, a, "", 0)
        /\ tool.rows = Denied!RecentDenies(rows, b, "", 0)
    BY <1>5, <2>1 DEF Denied!Listing
  <2> HIDE DEF command, tool
  <2> QED
    BY <2>1, <2>2, EarlierBoundListsIt
<1> HIDE DEF command, tool
<1>6. /\ ~t.space /\ ~t.sign /\ t.form # "none" => command = tool
      /\ tool.ok => command.ok /\ Denied!ToSet(tool.rows) \subseteq Denied!ToSet(command.rows)
  BY <1>2, <1>4, <1>5 DEF command, tool
<1> QED
  BY <1>1, <1>6

\* The decisions of the samples are newest first.
LEMMA SampleDecisions ==
    ASSUME NEW n \in Nat, NEW rows \in Denied!Decisions(n)
    PROVE  DecisionOf(rows)
<1> DEFINE V == [1..n -> {"deny", "allow"}]
           S == [1..n -> {"s1", "s2"}]
           F(v, s) == [i \in 1..n |-> [verdict |-> v[i], at |-> n + 1 - i, session |-> s[i],
                                       host |-> "h", port |-> 443]]
<1>a. Denied!Decisions(n) = {F(v, s) : v \in V, s \in S}
  BY DEF Denied!Decisions
<1>b. \A v, s : DOMAIN F(v, s) = 1..n /\ \A i \in 1..n : F(v, s)[i].at = n + 1 - i
  OBVIOUS
<1>c. \A v, s : F(v, s) \in [1..n -> {F(v, s)[i] : i \in 1..n}]
  OBVIOUS
<1> HIDE DEF F, V, S
<1>1. PICK v, s : rows = F(v, s)
  BY <1>a
<1>2. DOMAIN rows = 1..n /\ \A i \in 1..n : rows[i].at = n + 1 - i
  BY <1>b, <1>1
<1>3. rows \in [1..n -> {rows[i] : i \in 1..n}]
  BY <1>c, <1>1
<1>4. rows \in Seq({rows[i] : i \in 1..n})
  <2> DEFINE D == {rows[i] : i \in 1..n}
  <2>1. rows \in [1..n -> D]
    BY <1>3
  <2> HIDE DEF D
  <2>2. rows \in Seq(D)
    BY <2>1
  <2> QED
    BY <2>2 DEF D
<1>5. \E D : rows \in Seq(D)
  BY <1>4
<1> HIDE DEF DecisionOf
<1>6. \A i \in DOMAIN rows : rows[i].at \in Nat
  BY <1>2
<1>7. \A i, j \in DOMAIN rows : i < j => rows[i].at >= rows[j].at
  BY <1>2
<1> QED
  BY <1>5, <1>6, <1>7 DEF DecisionOf

\* The samples of the listings.
LEMMA DenialSampleHas ==
    ASSUME NEW s \in Denied!DenialSamples
    PROVE  \/ s.kind = "since" /\ SinceText(s.text) /\ DecisionOf(s.rows)
           \/ s.kind = "denials" /\ DecisionOf(s.rows) /\ s.limit \in {0, 1, 2}
<1> DEFINE R == UNION {Denied!Decisions(n) : n \in {0, 1, 4, 5}}
           D == Denied!Decisions(2)
<1>1. \A r \in D : DecisionOf(r)
  BY SampleDecisions
<1>2. \A r \in R : DecisionOf(r)
  BY SampleDecisions
<1>3. \A t \in Denied!Texts : SinceText(t)
  BY DEF Denied!Texts, SinceText
<1>4. \/ s \in [kind : {"since"}, text : Denied!Texts, rows : D]
      \/ s \in [kind : {"denials"}, rows : R, session : {"", "s1"}, since : {0, 2}, limit : {0, 1, 2}]
  BY DEF Denied!DenialSamples
<1> HIDE DEF R, D
<1>5. CASE s \in [kind : {"since"}, text : Denied!Texts, rows : D]
  BY <1>1, <1>3, <1>5
<1>6. CASE s \in [kind : {"denials"}, rows : R, session : {"", "s1"}, since : {0, 2}, limit : {0, 1, 2}]
  BY <1>2, <1>6
<1> QED
  BY <1>4, <1>5, <1>6

\* The instances count alike.
LEMMA SameCardinality ==
    ASSUME NEW S
    PROVE  Denied!Cardinality(S) = Cardinality(S) /\ Scan!Cardinality(S) = Cardinality(S)
BY DEF Denied!Cardinality, Scan!Cardinality, Cardinality

\* Of a sample the denials are listed.
LEMMA SampledDenials ==
    ASSUME NEW s \in Denied!DenialSamples
    PROVE  Denied!DenialsAreListed(s)
<1>1. CASE s.kind = "since" /\ SinceText(s.text) /\ DecisionOf(s.rows)
  <2> DEFINE rows == s.rows
             t == s.text
  <2>1. DecisionOf(rows) /\ SinceText(t)
    BY <1>1
  <2> HIDE DEF rows, t
  <2>2. LET command == Denied!DeniesRecentCommand(rows, t, "", 0)
            tool    == Denied!DeniesRecentTool(rows, t, "", 0)
        IN /\ ~t.space /\ ~t.sign /\ t.form # "none" => command = tool
           /\ tool.ok => command.ok /\ Denied!ToSet(tool.rows) \subseteq Denied!ToSet(command.rows)
    BY <2>1, ToolListsNoMore
  <2> QED
    BY <1>1, <2>2 DEF Denied!DenialsAreListed, rows, t
<1>2. CASE s.kind = "denials" /\ DecisionOf(s.rows) /\ s.limit \in {0, 1, 2}
  <2> DEFINE rows == s.rows
             limit == s.limit
  <2>1. DecisionOf(rows) /\ limit \in 0..Denied!MostLimit
    BY <1>2 DEF Denied!MostLimit
  <2> HIDE DEF rows, limit
  <2> DEFINE listed == Denied!RecentDenies(rows, s.since, s.session, limit)
             wanted == Denied!Wanted(rows, s.since, s.session)
             most   == MostOf(limit)
  <2>2. /\ Len(listed) <= most
        /\ \A i \in wanted : \A n \in DOMAIN listed :
              rows[i].at > listed[n].at => rows[i] \in Denied!ToSet(listed)
        /\ Len(rows) <= 4 * most =>
              Len(listed) = IF Cardinality(wanted) < most THEN Cardinality(wanted) ELSE most
    BY <2>1, EveryListingIsTheNewest
  <2> HIDE DEF listed, wanted, most
  <2>3. /\ listed = Denied!RecentDenies(s.rows, s.since, s.session, s.limit)
        /\ wanted = Denied!Wanted(s.rows, s.since, s.session)
        /\ most = IF s.limit = 0 THEN Denied!DefaultLimit ELSE s.limit
        /\ rows = s.rows
    BY DEF listed, wanted, most, rows, limit, MostOf
  <2>4. s.kind = "denials" /\ s.kind # "since"
    BY <1>2
  <2> QED
    <3>1. Denied!Cardinality(wanted) = Cardinality(wanted)
      BY SameCardinality
    <3> QED
      BY <2>2, <2>3, <2>4, <3>1 DEF Denied!DenialsAreListed
<1> QED
  BY <1>1, <1>2, DenialSampleHas

\* The samples of the bundles, the commands and the presets.
LEMMA BundleSampleHas ==
    ASSUME NEW s \in Bundle!BundleSamples
    PROVE  \/ s.kind = "bundle" /\ s.options.redact \in BOOLEAN /\ s.dry \in BOOLEAN
           \/ s.kind = "commands" /\ s.writes \in BOOLEAN /\ s.log \in BOOLEAN /\ s.dry \in BOOLEAN
           \/ s.kind = "preset" /\ s.given = [f \in DOMAIN s.given |-> s.given[f]]
<1> DEFINE A(o) == [kind : {"bundle"}, options : {o}, bundle : Bundle!Tampered(Bundle!BuildExport(o)),
                    dry : BOOLEAN, listening : {{}, {"8080"}, {"8769"}, {"9000"}}]
           B == [kind : {"commands"}, options : Bundle!Options, out : {"", "f"}, writes : BOOLEAN, log : BOOLEAN,
                 modes : SUBSET {"merge", "replace"}, dry : BOOLEAN, listening : {{}, {"8080"}}]
           C == [kind : {"preset"}, given : Bundle!Given, skip : SUBSET {"mode", "log"}]
<1>1. \A o \in Bundle!Options : o.redact \in BOOLEAN
  BY DEF Bundle!Options
<1>2. ASSUME NEW o \in Bundle!Options, s \in A(o)
      PROVE  s.kind = "bundle" /\ s.options.redact \in BOOLEAN /\ s.dry \in BOOLEAN
  <2>1. s.kind = "bundle" /\ s.options = o /\ s.dry \in BOOLEAN
    BY <1>2
  <2> QED
    BY <1>1, <2>1
<1>3. s \in B => s.kind = "commands" /\ s.writes \in BOOLEAN /\ s.log \in BOOLEAN /\ s.dry \in BOOLEAN
  OBVIOUS
<1>4. s \in C => s.kind = "preset" /\ s.given = [f \in DOMAIN s.given |-> s.given[f]]
  <2>1. s \in C => s.kind = "preset" /\ s.given \in Bundle!Given
    OBVIOUS
  <2>2. \A g \in Bundle!Given : g = [f \in DOMAIN g |-> g[f]]
    BY DEF Bundle!Given
  <2> HIDE DEF C
  <2> QED
    BY <2>1, <2>2
<1>5. s \in B \/ s \in C \/ \E o \in Bundle!Options : s \in A(o)
  <2> DEFINE U == UNION {A(o) : o \in Bundle!Options}
  <2>1. Bundle!BundleSamples = U \cup B \cup C
    BY Zenon DEF Bundle!BundleSamples
  <2> HIDE DEF A, B, C
  <2>2. s \in U => \E o \in Bundle!Options : s \in A(o)
    OBVIOUS
  <2> HIDE DEF U
  <2> QED
    BY <2>1, <2>2
<1> HIDE DEF A, B, C
<1> QED
  BY <1>2, <1>3, <1>4, <1>5, Zenon

\* The four kinds of files and listings, of a sample.
LEMMA SampledConfigs ==
    ASSUME sample \in AllSamples
    PROVE  ConfigsAreSound
<1>1. sample.kind = "mcp config" => McpConfig!InstallKeepsTheRest(sample)
  <2> SUFFICES ASSUME sample.kind = "mcp config" PROVE McpConfig!InstallKeepsTheRest(sample)
    OBVIOUS
  <2>1. sample \in McpConfig!ConfigSamples
    BY SampleOf
  <2> QED
    BY <2>1, ConfigSampleHas, EveryInstallKeepsTheRest
<1>2. sample.kind \in {"bundle", "commands", "preset"} => Bundle!BundlesAreSound(sample)
  <2> SUFFICES ASSUME sample.kind \in {"bundle", "commands", "preset"} PROVE Bundle!BundlesAreSound(sample)
    OBVIOUS
  <2>1. sample \in Bundle!BundleSamples
    BY SampleOf
  <2>2. CASE sample.kind = "bundle" /\ sample.options.redact \in BOOLEAN /\ sample.dry \in BOOLEAN
    BY <2>2, EveryBundleTravels DEF Bundle!BundlesAreSound
  <2>3. CASE sample.kind = "commands" /\ sample.writes \in BOOLEAN /\ sample.log \in BOOLEAN
             /\ sample.dry \in BOOLEAN
    BY <2>3, EveryCommandIsOnRecord DEF Bundle!BundlesAreSound
  <2>4. CASE sample.kind = "preset" /\ sample.given = [f \in DOMAIN sample.given |-> sample.given[f]]
    BY <2>4, EveryPresetHolds DEF Bundle!BundlesAreSound
  <2> QED
    BY <2>1, <2>2, <2>3, <2>4, BundleSampleHas
<1>3. sample.kind \in {"since", "denials"} => Denied!DenialsAreListed(sample)
  BY SampleOf, SampledDenials
<1> QED
  BY <1>1, <1>2, <1>3 DEF ConfigsAreSound

\* In every behaviour what the commands write and list is what they promise.
THEOREM ConfigsHold == ControlSpec => []ConfigsAreSound
<1>1. sample \in AllSamples => ConfigsAreSound
  BY SampledConfigs
<1> QED
  BY <1>1, SampleStays, PTL

-----------------------------------------------------------------------------
\* The verdicts of the scanners.

\* What a scanner's configuration may be.
ConfigOf(cfg) ==
    /\ cfg.action \in {"warn", "allow", "strip", "deny"}
    /\ cfg.max \in Nat /\ cfg.floor \in Nat

\* More signals give no less confidence, and 70 takes a high one.
LEMMA ConfidenceGrows ==
    ASSUME NEW h \in Nat, NEW m \in Nat
    PROVE  /\ Scan!computeConfidence(h, m) \in Nat
           /\ Scan!computeConfidence(h, m) >= 70 => h > 0
           /\ \A g, n \in Nat : g <= h /\ n <= m =>
                 Scan!computeConfidence(g, n) <= Scan!computeConfidence(h, m)
<1> DEFINE C(a, b) == IF a >= 2 THEN 95 ELSE IF a = 1 THEN (IF b >= 1 THEN 85 ELSE 80)
                      ELSE IF b >= 2 THEN 55 ELSE IF b = 1 THEN 35 ELSE 0
<1>1. \A a, b \in Nat : Scan!computeConfidence(a, b) = C(a, b)
  BY DEF Scan!computeConfidence
<1>2. C(h, m) \in Nat /\ (C(h, m) >= 70 => h > 0)
  OBVIOUS
<1>3. \A g, n \in Nat : g <= h /\ n <= m => C(g, n) <= C(h, m)
  OBVIOUS
<1> HIDE DEF C
<1> QED
  BY <1>1, <1>2, <1>3

\* A result with whatever is found.
LEMMA ResultHas ==
    ASSUME NEW found, NEW h, NEW m
    PROVE  LET r == Scan!Result(found, h, m)
           IN  /\ r.detected = (found # {}) /\ r.detected \in BOOLEAN
               /\ r.found = found /\ r.high = h /\ r.confidence = Scan!computeConfidence(h, m)
BY DEF Scan!Result

\* A result without anything.
LEMMA CleanHas ==
    /\ Scan!Clean.detected = FALSE /\ Scan!Clean.found = {}
    /\ Scan!Clean.high = 0 /\ Scan!Clean.confidence = 0
BY DEF Scan!Clean

\* A result a scanner may have.
ResultOf(r) ==
    /\ r.detected \in BOOLEAN /\ r.high \in Nat /\ r.confidence \in Nat
    /\ r.confidence >= 70 => r.high > 0

\* What a scanner answers is one.
LEMMA ResultIs ==
    /\ ResultOf(Scan!Clean)
    /\ \A found : \A h, m \in Nat : ResultOf(Scan!Result(found, h, m))
<1>1. ResultOf(Scan!Clean)
  BY DEF ResultOf, Scan!Clean
<1>2. ASSUME NEW found, NEW h \in Nat, NEW m \in Nat PROVE ResultOf(Scan!Result(found, h, m))
  <2> DEFINE r == Scan!Result(found, h, m)
             c == Scan!computeConfidence(h, m)
  <2>1. r.detected \in BOOLEAN /\ r.high = h /\ r.confidence = c
    BY ResultHas
  <2>2. c \in Nat /\ (c >= 70 => h > 0)
    BY ConfidenceGrows
  <2> HIDE DEF r, c
  <2>3. ResultOf(r)
    BY <2>1, <2>2 DEF ResultOf
  <2> QED
    BY <2>3 DEF r
<1> QED
  BY <1>1, <1>2

\* What is done with a result.
ActionOf(r, cfg, action) ==
    /\ action \in {"allow", "warn", "strip", "deny"}
    /\ ~r.detected => action = "allow"
    /\ action = "deny" => r.confidence >= cfg.floor
    /\ action = "strip" => r.high # 0
    /\ r.detected /\ cfg.action # "allow" => action # "allow"

\* It is one of the four, and has the evidence for it.
LEMMA ActionIs ==
    ASSUME NEW r, ResultOf(r), NEW cfg, ConfigOf(cfg)
    PROVE  ActionOf(r, cfg, Scan!DecideAction(r, cfg))
<1> DEFINE a == Scan!DecideAction(r, cfg)
<1>1. CASE ~r.detected
  <2>1. a = "allow"
    BY <1>1 DEF Scan!DecideAction, ResultOf
  <2> HIDE DEF a
  <2>2. ActionOf(r, cfg, a)
    BY <1>1, <2>1 DEF ActionOf
  <2> QED
    BY <2>2 DEF a
<1>2. CASE r.detected /\ cfg.action = "deny"
  <2>1. a = IF r.confidence < cfg.floor THEN "warn" ELSE "deny"
    BY <1>2 DEF Scan!DecideAction
  <2> HIDE DEF a
  <2>2. ActionOf(r, cfg, a)
    BY <1>2, <2>1 DEF ActionOf, ResultOf, ConfigOf
  <2> QED
    BY <2>2 DEF a
<1>3. CASE r.detected /\ cfg.action = "strip"
  <2>1. a = IF r.high = 0 THEN "warn" ELSE "strip"
    BY <1>3 DEF Scan!DecideAction
  <2> HIDE DEF a
  <2>2. ActionOf(r, cfg, a)
    BY <1>3, <2>1 DEF ActionOf
  <2> QED
    BY <2>2 DEF a
<1>4. CASE r.detected /\ cfg.action = "allow"
  <2>1. a = "allow"
    BY <1>4 DEF Scan!DecideAction
  <2> HIDE DEF a
  <2>2. ActionOf(r, cfg, a)
    BY <1>4, <2>1 DEF ActionOf
  <2> QED
    BY <2>2 DEF a
<1>5. CASE r.detected /\ cfg.action = "warn"
  <2>1. a = "warn"
    BY <1>5 DEF Scan!DecideAction
  <2> HIDE DEF a
  <2>2. ActionOf(r, cfg, a)
    BY <1>5, <2>1 DEF ActionOf
  <2> QED
    BY <2>2 DEF a
<1> QED
  BY <1>1, <1>2, <1>3, <1>4, <1>5 DEF ConfigOf, ResultOf

\* No verdict goes beyond its evidence, whatever was found and configured.
THEOREM EveryVerdictHolds ==
    ASSUME NEW r, ResultOf(r), NEW cfg, ConfigOf(cfg)
    PROVE  Scan!VerdictHolds(r, cfg)
<1> DEFINE a == Scan!DecideAction(r, cfg)
<1>1. ActionOf(r, cfg, a)
  BY ActionIs
<1> HIDE DEF a
<1>2. a = "deny" /\ cfg.floor >= 70 => r.high > 0
  <2>1. a = "deny" /\ cfg.floor >= 70 => r.confidence >= 70
    BY <1>1 DEF ActionOf, ResultOf, ConfigOf
  <2> QED
    BY <2>1 DEF ResultOf
<1>3. a = "strip" => r.high > 0
  BY <1>1 DEF ActionOf, ResultOf
<1> QED
  BY <1>1, <1>2, <1>3 DEF Scan!VerdictHolds, ActionOf, a

-----------------------------------------------------------------------------
\* The scan of a response.

\* The lines that are looked at, the rules told in them, and whether none is.
Looked(body, cfg) == 1..(IF Len(body) < cfg.max THEN Len(body) ELSE cfg.max)
Told(body, cfg, rules) == {r \in rules : \E i \in Looked(body, cfg) : \E m \in body[i] : m.rule = r}
Skipped(body, binary) == binary \/ \E i \in DOMAIN body : \E m \in body[i] : m.rule = "allowlist"

\* Sets of the same size.
LEMMA SameSize ==
    ASSUME NEW S, NEW T, IsFiniteSet(S), NEW f \in [S -> T],
           \A x, y \in S : f[x] = f[y] => x = y, \A z \in T : \E x \in S : f[x] = z
    PROVE  IsFiniteSet(T) /\ Cardinality(T) = Cardinality(S)
<1>1. f \in Bijection(S, T)
  BY DEF Bijection, Injection, Surjection, IsInjective
<1>2. ExistsBijection(S, T)
  BY <1>1 DEF ExistsBijection
<1> QED
  BY <1>2, FS_Bijection

\* Two make a finite set.
LEMMA PairIsFinite ==
    ASSUME NEW x, NEW y
    PROVE  IsFiniteSet({x, y})
<1>1. IsFiniteSet({x} \cup {y})
  BY FS_Singleton, FS_AddElement
<1>2. {x, y} = {x} \cup {y}
  OBVIOUS
<1> QED
  BY <1>1, <1>2

\* The rules of a list are few.
LEMMA ToldIsFinite ==
    ASSUME NEW body, NEW cfg, NEW rules \in {Scan!High, Scan!Medium}
    PROVE  IsFiniteSet(Told(body, cfg, rules)) /\ Cardinality(Told(body, cfg, rules)) \in Nat
<1>2. IsFiniteSet(rules)
  <2>1. IsFiniteSet({"role", "exfil"}) /\ IsFiniteSet({"delimiter", "base64"})
    BY PairIsFinite
  <2> QED
    BY <2>1 DEF Scan!High, Scan!Medium
<1>3. Told(body, cfg, rules) \in SUBSET rules
  BY DEF Told
<1>4. IsFiniteSet(Told(body, cfg, rules))
  BY <1>2, <1>3, FS_Subset
<1> QED
  BY <1>4, FS_CardinalityType

\* What a scan finds.
ScanIs(body, binary, cfg, found, scan) ==
    /\ IF Skipped(body, binary) THEN scan = Scan!Clean
       ELSE scan = Scan!Result(found, Cardinality(Told(body, cfg, Scan!High)),
                               Cardinality(Told(body, cfg, Scan!Medium)))
    /\ \A m \in found : \E i \in Looked(body, cfg) : m \in body[i]

\* The scan has as many signals of a kind as rules of that kind are told.
LEMMA ScanHas ==
    ASSUME NEW L, NEW body \in Seq(L), NEW binary, NEW cfg, ConfigOf(cfg)
    PROVE  \E found : ScanIs(body, binary, cfg, found, Scan!ScanResponseBody(body, binary, cfg))
<1> DEFINE k == IF Len(body) < cfg.max THEN Len(body) ELSE cfg.max
           scanned == SubSeq(body, 1, k)
           at(rule) == {i \in DOMAIN scanned : \E m \in scanned[i] : m.rule = rule}
           first(rule) == scanned[CHOOSE i \in at(rule) : \A j \in at(rule) : i <= j]
           pick(rule) == CHOOSE m \in first(rule) : m.rule = rule
           found == {pick(rule) : rule \in {r \in Scan!High \cup Scan!Medium : at(r) # {}}}
           count(rules) == Scan!Cardinality({m \in found : m.rule \in rules})
           scan == Scan!ScanResponseBody(body, binary, cfg)
<1>1. scan = IF Skipped(body, binary) THEN Scan!Clean
             ELSE Scan!Result(found, count(Scan!High), count(Scan!Medium))
  BY DEF Scan!ScanResponseBody, Skipped
<1> HIDE DEF scan
<1>2. k \in Nat /\ k <= Len(body) /\ Looked(body, cfg) = 1..k
  BY DEF ConfigOf, Looked
<1> HIDE DEF k
<1>3. DOMAIN scanned = 1..k /\ \A i \in 1..k : scanned[i] = body[i]
  BY <1>2
<1> HIDE DEF scanned
<1>4. \A r, i : i \in at(r) <=> i \in 1..k /\ \E m \in body[i] : m.rule = r
  BY <1>3
<1> HIDE DEF at
<1>5. ASSUME NEW r, at(r) # {}
      PROVE  pick(r).rule = r /\ \E i \in 1..k : pick(r) \in body[i]
  <2> DEFINE least == CHOOSE i \in at(r) : \A j \in at(r) : i <= j
  <2>1. at(r) \subseteq Nat
    BY <1>4
  <2>2. least \in at(r)
    BY <1>5, <2>1, LeastIn
  <2>3. least \in 1..k /\ \E m \in body[least] : m.rule = r
    BY <1>4, <2>2
  <2>4. first(r) = body[least]
    BY <1>3, <2>3
  <2> HIDE DEF least, first
  <2>5. pick(r) \in body[least] /\ pick(r).rule = r
    BY <2>3, <2>4
  <2> QED
    BY <2>3, <2>5
<1>6. \A r : at(r) # {} <=> \E i \in Looked(body, cfg) : \E m \in body[i] : m.rule = r
  BY <1>2, <1>4
<1> HIDE DEF pick
<1>7. ASSUME NEW R \in {Scan!High, Scan!Medium}
      PROVE  count(R) = Cardinality(Told(body, cfg, R))
  <2> DEFINE T == Told(body, cfg, R)
             F == {m \in found : m.rule \in R}
             f == [r \in T |-> pick(r)]
  <2>1. \A r \in T : at(r) # {} /\ r \in R /\ r \in Scan!High \cup Scan!Medium
    BY <1>6 DEF Told
  <2>2. \A r \in T : pick(r).rule = r
    BY <1>5, <2>1
  <2>3. f \in [T -> F]
    BY <2>1, <2>2
  <2>4. \A z \in F : \E r \in T : f[r] = z
    <3> SUFFICES ASSUME NEW z \in F PROVE \E r \in T : f[r] = z
      OBVIOUS
    <3>1. PICK r \in Scan!High \cup Scan!Medium : at(r) # {} /\ z = pick(r)
      OBVIOUS
    <3>2. z.rule = r /\ z.rule \in R
      BY <1>5, <3>1
    <3>3. r \in T
      BY <1>6, <3>1, <3>2 DEF Told
    <3> QED
      BY <3>1, <3>3
  <2>5. \A x, y \in T : f[x] = f[y] => x = y
    BY <2>2
  <2>6. IsFiniteSet(T)
    BY ToldIsFinite
  <2> HIDE DEF T, F, f
  <2>7. Cardinality(F) = Cardinality(T)
    BY <2>3, <2>4, <2>5, <2>6, SameSize
  <2> QED
    BY <2>7, SameCardinality DEF T, F
<1>8. \A m \in found : \E i \in Looked(body, cfg) : m \in body[i]
  BY <1>2, <1>5
<1> HIDE DEF found, count
<1>9. ScanIs(body, binary, cfg, found, scan)
  BY <1>1, <1>7, <1>8 DEF ScanIs
<1> QED
  BY <1>9 DEF scan

\* What a scan finds is a result with the numbers of the rules that are told.
LEMMA ScanResult ==
    ASSUME NEW body, NEW binary, NEW cfg, NEW found, NEW scan, ScanIs(body, binary, cfg, found, scan)
    PROVE  /\ ResultOf(scan) /\ scan.found \in {{}, found}
           /\ Skipped(body, binary) => scan.confidence = 0
           /\ ~Skipped(body, binary) =>
                 scan.confidence = Scan!computeConfidence(Cardinality(Told(body, cfg, Scan!High)),
                                                          Cardinality(Told(body, cfg, Scan!Medium)))
<1> DEFINE h == Cardinality(Told(body, cfg, Scan!High))
           m == Cardinality(Told(body, cfg, Scan!Medium))
<1>1. h \in Nat /\ m \in Nat
  BY ToldIsFinite
<1>2. IF Skipped(body, binary) THEN scan = Scan!Clean ELSE scan = Scan!Result(found, h, m)
  BY DEF ScanIs
<1> HIDE DEF h, m
<1>3. CASE Skipped(body, binary)
  <2>1. scan = Scan!Clean
    BY <1>2, <1>3
  <2> QED
    BY <1>3, <2>1, CleanHas, ResultIs
<1>4. CASE ~Skipped(body, binary)
  <2>1. scan = Scan!Result(found, h, m)
    BY <1>2, <1>4
  <2>2. scan.found = found /\ scan.confidence = Scan!computeConfidence(h, m)
    BY <2>1, ResultHas
  <2>3. ResultOf(scan)
    BY <1>1, <2>1, ResultIs
  <2> QED
    BY <1>4, <2>2, <2>3 DEF h, m
<1> QED
  BY <1>3, <1>4

\* Of every body, whatever is in its lines: the verdict has its evidence, more text
\* does not lower the confidence, and a strip takes out what was found.
THEOREM EveryResponseHolds ==
    ASSUME NEW s, NEW L, s.body \in Seq(L), NEW cfg, ConfigOf(cfg)
    PROVE  Scan!ResponseHolds(s, cfg)
<1> DEFINE body == s.body
           binary == s.binary
           scan == Scan!ScanResponseBody(body, binary, cfg)
           stripped == Scan!ApplyStrip(body, scan.found)
           again == Scan!ScanResponseBody(stripped, binary, cfg)
<1>1. body \in Seq(L) /\ body = s.body /\ binary = s.binary
  OBVIOUS
<1> HIDE DEF body, binary
<1>2. PICK found : ScanIs(body, binary, cfg, found, scan)
  BY <1>1, ScanHas
<1>3. DOMAIN body = 1..Len(body) /\ Len(body) \in Nat
  BY <1>1
<1> HIDE DEF scan
<1>4. ResultOf(scan) /\ Scan!VerdictHolds(scan, cfg)
  BY <1>2, ScanResult, EveryVerdictHolds
<1>5. ASSUME NEW n \in 0..Len(body),
             \A i \in DOMAIN body : i > n => \A m \in body[i] : m.rule # "allowlist"
      PROVE  Scan!ScanResponseBody(SubSeq(body, 1, n), binary, cfg).confidence <= scan.confidence
  <2> DEFINE prefix == SubSeq(body, 1, n)
             half == Scan!ScanResponseBody(prefix, binary, cfg)
  <2>1. /\ prefix \in Seq(L) /\ Len(prefix) = n /\ DOMAIN prefix = 1..n
        /\ \A i \in 1..n : prefix[i] = body[i]
    BY <1>1, <1>3
  <2> HIDE DEF prefix
  <2>2. PICK less : ScanIs(prefix, binary, cfg, less, half)
    BY <2>1, ScanHas
  <2> HIDE DEF half
  <2>3. scan.confidence \in Nat
    BY <1>4 DEF ResultOf
  <2>4. CASE Skipped(prefix, binary)
    <3>1. half.confidence = 0
      BY <2>2, <2>4, ScanResult
    <3> QED
      BY <2>3, <3>1 DEF half, prefix
  <2>5. CASE ~Skipped(prefix, binary)
    <3>1. ~Skipped(body, binary)
      <4>1. \A i \in DOMAIN body : \A m \in body[i] : m.rule # "allowlist"
        <5>1. \A i \in 1..n : \A m \in body[i] : m.rule # "allowlist"
          BY <2>1, <2>5 DEF Skipped
        <5>2. \A i \in DOMAIN body : i \in 1..n \/ i > n
          BY <1>3
        <5> QED
          BY <1>5, <5>1, <5>2
      <4> QED
        BY <2>5, <4>1 DEF Skipped
    <3>2. Looked(prefix, cfg) \subseteq Looked(body, cfg) /\ Looked(prefix, cfg) \subseteq 1..n
      BY <1>3, <2>1 DEF Looked, ConfigOf
    <3>3. \A R : Told(prefix, cfg, R) \subseteq Told(body, cfg, R)
      BY <2>1, <3>2 DEF Told
    <3>4. \A R \in {Scan!High, Scan!Medium} :
              /\ Cardinality(Told(prefix, cfg, R)) \in Nat /\ Cardinality(Told(body, cfg, R)) \in Nat
              /\ Cardinality(Told(prefix, cfg, R)) <= Cardinality(Told(body, cfg, R))
      BY <3>3, ToldIsFinite, FS_Subset
    <3> DEFINE g == Cardinality(Told(prefix, cfg, Scan!High))
               h == Cardinality(Told(body, cfg, Scan!High))
               l == Cardinality(Told(prefix, cfg, Scan!Medium))
               m == Cardinality(Told(body, cfg, Scan!Medium))
    <3>5. half.confidence = Scan!computeConfidence(g, l) /\ scan.confidence = Scan!computeConfidence(h, m)
      BY <1>2, <2>2, <2>5, <3>1, ScanResult
    <3>6. g \in Nat /\ h \in Nat /\ l \in Nat /\ m \in Nat /\ g <= h /\ l <= m
      BY <3>4
    <3> HIDE DEF g, h, l, m
    <3>7. half.confidence <= scan.confidence
      BY <3>5, <3>6, ConfidenceGrows
    <3> QED
      BY <3>7 DEF half, prefix
  <2> QED
    BY <2>4, <2>5
<1>6. /\ DOMAIN stripped = DOMAIN body
      /\ \A i \in DOMAIN body : stripped[i] = IF \E m \in body[i] : ~m.open /\ m \in scan.found
                                              THEN {} ELSE body[i]
  BY DEF Scan!ApplyStrip
<1>7. stripped \in Seq(L \cup {{}}) /\ Len(stripped) = Len(body)
  <2>1. \A i \in 1..Len(body) : body[i] \in L
    BY <1>1
  <2>2. stripped = [i \in 1..Len(body) |-> IF \E m \in body[i] : ~m.open /\ m \in scan.found THEN {} ELSE body[i]]
    BY <1>3 DEF Scan!ApplyStrip
  <2> DEFINE K == L \cup {{}}
  <2>3. \A i \in 1..Len(body) : stripped[i] \in K
    BY <1>3, <1>6, <2>1
  <2> HIDE DEF K
  <2>4. stripped \in [1..Len(body) -> K]
    <3>1. stripped = [i \in 1..Len(body) |-> stripped[i]]
      BY <2>2
    <3> HIDE DEF stripped
    <3> QED
      BY <2>3, <3>1
  <2> HIDE DEF stripped
  <2>5. stripped \in Seq(K) /\ Len(stripped) = Len(body)
    BY <1>3, <2>4
  <2> QED
    BY <2>5 DEF K
<1> HIDE DEF stripped
<1>8. \A i \in DOMAIN stripped : stripped[i] # body[i] => body[i] \cap scan.found # {}
  BY <1>6
<1>9. ASSUME NEW m \in again.found PROVE m \notin scan.found \/ m.open
  <2> DEFINE K == L \cup {{}}
  <2>0. stripped \in Seq(K)
    BY <1>7
  <2> HIDE DEF K
  <2>1. PICK more : ScanIs(stripped, binary, cfg, more, again)
    BY <2>0, ScanHas
  <2> HIDE DEF again
  <2>2. again.found \in {{}, more}
    BY <2>1, ScanResult
  <2>3. m \in more
    BY <2>2
  <2>4. PICK i \in Looked(stripped, cfg) : m \in stripped[i]
    BY <2>1, <2>3 DEF ScanIs
  <2>5. i \in DOMAIN body
    BY <1>3, <1>7, <2>4 DEF Looked, ConfigOf
  <2>6. m \in body[i] /\ ~(~m.open /\ m \in scan.found)
    BY <1>6, <2>4, <2>5
  <2> QED
    BY <2>6
<1> QED
  BY <1>1, <1>4, <1>5, <1>7, <1>8, <1>9 DEF Scan!ResponseHolds, scan, stripped, again

-----------------------------------------------------------------------------
\* The tool calls of a request.

\* Where a call may stand: only at the root is it a method, and m1 and m2 are
\* the two messages.
PlaceOf(p) ==
    /\ p.in \in {"root", "m1", "m2"}
    /\ p.slot \in {"method", "tool_use", "function_call", "wrapped", "bare"}
    /\ p.slot = "method" => p.in = "root"

\* The rules a call may break.
CallRules == {"missing-required-arg", "unexpected-arg", "hallucinated-tool-name", "naming-style-mix",
              "placeholder-credential"}

\* The image of a finite set is finite.
LEMMA ImageIsFinite ==
    ASSUME NEW S, IsFiniteSet(S), NEW f, DOMAIN f = S, f = [x \in S |-> f[x]]
    PROVE  IsFiniteSet({f[x] : x \in S})
<1> DEFINE T == {f[x] : x \in S}
<1>1. f \in [S -> T]
  OBVIOUS
<1>2. \A t \in T : \E x \in S : f[x] = t
  OBVIOUS
<1> HIDE DEF T
<1>3. f \in Surjection(S, T)
  BY <1>1, <1>2 DEF Surjection
<1>4. IsFiniteSet(T)
  BY <1>3, FS_Surjection
<1> QED
  BY <1>4 DEF T

\* The rules are few.
LEMMA RulesAreFinite == IsFiniteSet(CallRules)
<1>1. IsFiniteSet({"missing-required-arg"})
  BY FS_Singleton
<1>2. IsFiniteSet({"missing-required-arg"} \cup {"unexpected-arg"})
  BY <1>1, FS_AddElement
<1>3. IsFiniteSet({"missing-required-arg"} \cup {"unexpected-arg"} \cup {"hallucinated-tool-name"})
  BY <1>2, FS_AddElement
<1>4. IsFiniteSet({"missing-required-arg"} \cup {"unexpected-arg"} \cup {"hallucinated-tool-name"}
                  \cup {"naming-style-mix"})
  BY <1>3, FS_AddElement
<1>5. IsFiniteSet({"missing-required-arg"} \cup {"unexpected-arg"} \cup {"hallucinated-tool-name"}
                  \cup {"naming-style-mix"} \cup {"placeholder-credential"})
  BY <1>4, FS_AddElement
<1>6. CallRules = {"missing-required-arg"} \cup {"unexpected-arg"} \cup {"hallucinated-tool-name"}
                  \cup {"naming-style-mix"} \cup {"placeholder-credential"}
  BY DEF CallRules
<1> QED
  BY <1>5, <1>6

\* What a call is found to break, and that a call that breaks nothing is as the
\* corpus says.
BreaksOnly(c, rules) ==
    /\ rules \subseteq CallRules
    /\ Scan!CheckCall(c) = {<<rule, Scan!Shape(c.place), c.name>> : rule \in rules}
    /\ rules = {} => /\ c.name \in DOMAIN Scan!Corpus
                     /\ Scan!Corpus[c.name].required \subseteq DOMAIN Scan!Arguments(c)

\* So it is with every call.
LEMMA CallBreaks ==
    ASSUME NEW c
    PROVE  \E rules : BreaksOnly(c, rules)
<1> DEFINE args == Scan!Arguments(c)
           known == c.name \in DOMAIN Scan!Corpus
           schema == Scan!Corpus[c.name]
           missing == IF schema.required \subseteq DOMAIN args THEN {} ELSE {"missing-required-arg"}
           more == IF schema.required \cup schema.optional = {}
                      \/ DOMAIN args \subseteq schema.required \cup schema.optional
                   THEN {} ELSE {"unexpected-arg"}
           invented == {"hallucinated-tool-name"}
                       \cup (IF c.name \in Scan!Mixed THEN {"naming-style-mix"} ELSE {})
           secret == IF \E a \in DOMAIN args : args[a] = "placeholder"
                     THEN {"placeholder-credential"} ELSE {}
           rules == (IF known THEN missing \cup more ELSE invented) \cup secret
<1>1. Scan!CheckCall(c) = {<<rule, Scan!Shape(c.place), c.name>> : rule \in rules}
  BY DEF Scan!CheckCall
<1>2. /\ missing \subseteq {"missing-required-arg"} /\ more \subseteq {"unexpected-arg"}
      /\ invented \subseteq {"hallucinated-tool-name", "naming-style-mix"} /\ invented # {}
      /\ secret \subseteq {"placeholder-credential"}
      /\ missing = {} => schema.required \subseteq DOMAIN args
  OBVIOUS
<1> HIDE DEF missing, more, invented, secret, args, known, schema
<1>3. rules \subseteq CallRules
  BY <1>2 DEF CallRules
<1>4. rules = {} => known /\ schema.required \subseteq DOMAIN args
  BY <1>2
<1> HIDE DEF rules
<1>5. BreaksOnly(c, rules)
  BY <1>1, <1>3, <1>4 DEF BreaksOnly, known, schema, args
<1> QED
  BY <1>5

\* What is found of finitely many calls is finite.
LEMMA FoundIsFinite ==
    ASSUME NEW calls, IsFiniteSet(calls)
    PROVE  IsFiniteSet(UNION {Scan!CheckCall(c) : c \in calls})
<1>1. ASSUME NEW c PROVE IsFiniteSet(Scan!CheckCall(c))
  <2>1. PICK rules : BreaksOnly(c, rules)
    BY CallBreaks
  <2>2. IsFiniteSet(rules)
    BY <2>1, RulesAreFinite, FS_Subset DEF BreaksOnly
  <2> DEFINE F(r) == <<r, Scan!Shape(c.place), c.name>>
  <2>3. Scan!CheckCall(c) = {F(r) : r \in rules}
    BY <2>1 DEF BreaksOnly
  <2> HIDE DEF F
  <2> DEFINE f == [r \in rules |-> F(r)]
  <2>4. DOMAIN f = rules /\ f = [x \in rules |-> f[x]] /\ {f[x] : x \in rules} = {F(r) : r \in rules}
    OBVIOUS
  <2> HIDE DEF f
  <2>5. IsFiniteSet({f[x] : x \in rules})
    BY <2>2, <2>4, ImageIsFinite
  <2> QED
    BY <2>3, <2>4, <2>5
<1> DEFINE f == [c \in calls |-> Scan!CheckCall(c)]
           all == {f[c] : c \in calls}
<1>2. DOMAIN f = calls /\ f = [x \in calls |-> f[x]]
  OBVIOUS
<1>3. all = {Scan!CheckCall(c) : c \in calls} /\ \A x \in all : \E c : x = Scan!CheckCall(c)
  OBVIOUS
<1> HIDE DEF f
<1>4. IsFiniteSet(all)
  BY <1>2, ImageIsFinite
<1> HIDE DEF all
<1>5. \A x \in all : IsFiniteSet(x)
  BY <1>1, <1>3
<1>6. IsFiniteSet(UNION all)
  BY <1>4, <1>5, FS_UNION
<1> QED
  BY <1>3, <1>6

\* What a request is validated to.
LEMMA Validated ==
    ASSUME NEW body, IsFiniteSet(body.calls), body.size \in Nat, NEW cfg, ConfigOf(cfg)
    PROVE  LET result == Scan!Validate(body, cfg)
           IN  /\ ResultOf(result)
               /\ ~result.detected /\ ~body.allowed /\ body.size <= cfg.max =>
                     \A c \in body.calls : Scan!CheckCall(c) = {}
<1> DEFINE found == UNION {Scan!CheckCall(c) : c \in body.calls}
           severe == {f \in found : f[1] \in Scan!HighRules}
           high == Scan!Cardinality(severe)
           all == Scan!Cardinality(found)
           result == Scan!Validate(body, cfg)
<1>1. result = IF body.allowed \/ body.size > cfg.max THEN Scan!Clean
               ELSE Scan!Result(found, high, all - high)
  BY DEF Scan!Validate
<1>2. IsFiniteSet(found)
  BY FoundIsFinite
<1>3. found = {} => \A c \in body.calls : Scan!CheckCall(c) = {}
  OBVIOUS
<1> HIDE DEF found
<1>4. high = Cardinality(severe) /\ all = Cardinality(found)
  BY SameCardinality
<1>5. severe \in SUBSET found
  OBVIOUS
<1> HIDE DEF severe
<1>6. high \in Nat /\ all \in Nat /\ high <= all
  <2>1. IsFiniteSet(severe) /\ Cardinality(severe) <= Cardinality(found)
    BY <1>2, <1>5, FS_Subset
  <2>2. Cardinality(severe) \in Nat /\ Cardinality(found) \in Nat
    BY <1>2, <2>1, FS_CardinalityType
  <2> HIDE DEF high, all
  <2> QED
    BY <1>4, <2>1, <2>2
<1>7. all - high \in Nat
  <2> HIDE DEF high, all
  <2> QED
    BY <1>6
<1> HIDE DEF high, all, result
<1>8. CASE body.allowed \/ body.size > cfg.max
  <2>1. ResultOf(result)
    BY <1>1, <1>8, ResultIs
  <2>2. ~(~body.allowed /\ body.size <= cfg.max)
    BY <1>8 DEF ConfigOf
  <2> QED
    BY <2>1, <2>2 DEF result
<1>9. CASE ~(body.allowed \/ body.size > cfg.max)
  <2>1. result = Scan!Result(found, high, all - high)
    BY <1>1, <1>9
  <2>2. ResultOf(result)
    BY <1>6, <1>7, <2>1, ResultIs
  <2>3. result.detected = (found # {})
    BY <2>1, ResultHas
  <2> QED
    BY <1>3, <2>2, <2>3 DEF result
<1> QED
  BY <1>8, <1>9

\* What the strip leaves.
Left(calls, found, left) ==
    /\ \A c \in left : Scan!IsFlagged(c, found) =>
          \/ c.place.slot = "bare"
          \/ \E d \in calls : /\ d.place.slot = "function_call" /\ Scan!IsFlagged(d, found)
                              /\ d.place.in \in {"root", c.place.in}
    /\ left # {} => \A c \in calls \ left : Scan!IsFlagged(c, found)

\* A strip leaves no flagged call but a bare entry or a neighbour of a flagged
\* function_call, and takes no other with it unless it takes all.
LEMMA StripLeaves ==
    ASSUME NEW calls, \A c \in calls : PlaceOf(c.place), NEW found
    PROVE  Left(calls, found, Scan!visitStrip(calls, found))
<1> DEFINE flagged(c) == Scan!IsFlagged(c, found)
           hit(in, slot) == {c \in calls : c.place.in = in /\ c.place.slot = slot /\ flagged(c)}
           half(m) == IF hit(m, "function_call") # {} THEN hit(m, "function_call")
                      ELSE hit(m, "wrapped") \cup hit(m, "tool_use")
           below == IF hit("root", "function_call") # {} THEN hit("root", "function_call")
                    ELSE hit("root", "wrapped") \cup UNION {half(m) : m \in {"m1", "m2"}}
           left == Scan!visitStrip(calls, found)
           top == hit("root", "method") \cup hit("root", "tool_use")
<1>1. left = IF top # {} THEN {} ELSE calls \ below
  BY DEF Scan!visitStrip
<1>2. \A c, in, slot : c \in hit(in, slot) <=>
          c \in calls /\ c.place.in = in /\ c.place.slot = slot /\ flagged(c)
  OBVIOUS
<1> HIDE DEF left, hit, flagged
<1>3. \A c \in below : c \in calls /\ flagged(c)
  BY <1>2
<1>4. ASSUME top = {}, NEW c \in calls, c \notin below, flagged(c)
      PROVE  \/ c.place.slot = "bare"
             \/ \E d \in calls : /\ d.place.slot = "function_call" /\ flagged(d)
                                 /\ d.place.in \in {"root", c.place.in}
  <2>1. CASE hit("root", "function_call") # {}
    <3>1. PICK d : d \in hit("root", "function_call")
      BY <2>1
    <3> QED
      BY <1>2, <3>1
  <2>2. CASE hit("root", "function_call") = {}
    <3>1. c \notin hit("root", "wrapped") /\ c \notin half("m1") /\ c \notin half("m2")
      <4> HIDE DEF half
      <4> QED
        BY <1>4, <2>2
    <3>2. CASE c.place.in = "root"
      <4>1. c.place.slot \notin {"function_call", "wrapped", "method", "tool_use"}
        BY <1>2, <1>4, <2>2, <3>1, <3>2
      <4> QED
        BY <4>1 DEF PlaceOf
    <3>3. CASE c.place.in \in {"m1", "m2"}
      <4> DEFINE m == c.place.in
      <4>1. c \notin half(m)
        BY <3>1, <3>3
      <4>2. CASE hit(m, "function_call") # {}
        <5>1. PICK d : d \in hit(m, "function_call")
          BY <4>2
        <5> QED
          BY <1>2, <5>1
      <4>3. CASE hit(m, "function_call") = {}
        <5>1. c \notin hit(m, "wrapped") /\ c \notin hit(m, "tool_use") /\ c \notin hit(m, "function_call")
          BY <4>1, <4>3
        <5>2. c.place.slot \notin {"function_call", "wrapped", "tool_use"}
          BY <1>2, <1>4, <5>1
        <5>3. c.place.slot # "method"
          BY <3>3 DEF PlaceOf
        <5> QED
          BY <5>2, <5>3 DEF PlaceOf
      <4> QED
        BY <4>2, <4>3
    <3> QED
      BY <3>2, <3>3 DEF PlaceOf
  <2> QED
    BY <2>1, <2>2
<1> HIDE DEF below, top
<1>5. /\ \A c \in left : flagged(c) =>
            \/ c.place.slot = "bare"
            \/ \E d \in calls : /\ d.place.slot = "function_call" /\ flagged(d)
                                /\ d.place.in \in {"root", c.place.in}
      /\ left # {} => \A c \in calls \ left : flagged(c)
  <2>1. CASE top # {}
    BY <1>1, <2>1
  <2>2. CASE top = {}
    <3>1. left = calls \ below
      BY <1>1, <2>2
    <3> QED
      BY <1>3, <1>4, <2>2, <3>1
  <2> QED
    BY <2>1, <2>2
<1>6. Left(calls, found, left)
  BY <1>5 DEF Left, flagged
<1> QED
  BY <1>6 DEF left

\* What is sent and what the row says, of any two results.
LEMMA HandledAsFound ==
    ASSUME NEW result, ResultOf(result), NEW scan, ResultOf(scan), NEW cfg, ConfigOf(cfg)
    PROVE  LET action == Scan!DecideAction(result, cfg)
               row    == Scan!Handled(action, result, Scan!DecideAction(scan, cfg), scan)
           IN  /\ action = "deny" <=> ~row.sent
               /\ row.finding = "none" => cfg.action = "allow" \/ ~(result.detected \/ scan.detected)
<1> DEFINE a == Scan!DecideAction(result, cfg)
           b == Scan!DecideAction(scan, cfg)
           row == Scan!Handled(a, result, b, scan)
<1>1. ActionOf(result, cfg, a) /\ ActionOf(scan, cfg, b)
  BY ActionIs
<1> HIDE DEF a, b
<1>2. result.detected \in BOOLEAN /\ scan.detected \in BOOLEAN
  BY DEF ResultOf
<1>3. CASE a = "deny"
  <2>1. row = [sent |-> FALSE, finding |-> "tool"]
    BY <1>3 DEF Scan!Handled
  <2>2. ~row.sent /\ row.finding # "none"
    BY <2>1
  <2> QED
    BY <1>3, <2>2 DEF a, b
<1>4. CASE a # "deny" /\ b = "deny"
  <2>0. scan.detected
    BY <1>1, <1>2, <1>4 DEF ActionOf
  <2>1. row = [sent |-> TRUE, finding |-> "injection"]
    BY <1>4, <2>0 DEF Scan!Handled
  <2>2. row.sent /\ row.finding # "none"
    BY <2>1
  <2> QED
    BY <1>4, <2>2 DEF a, b
<1>5. CASE a # "deny" /\ scan.detected /\ b \in {"warn", "strip"}
  <2>1. row = [sent |-> TRUE, finding |-> "injection"]
    BY <1>5 DEF Scan!Handled
  <2>2. row.sent /\ row.finding # "none"
    BY <2>1
  <2> QED
    BY <1>5, <2>2 DEF a, b
<1>6. CASE a # "deny" /\ ~(scan.detected /\ b \in {"warn", "strip", "deny"}) /\ b # "deny"
           /\ result.detected /\ a \in {"warn", "strip"}
  <2>1. row = [sent |-> TRUE, finding |-> "tool"]
    BY <1>6 DEF Scan!Handled
  <2>2. row.sent /\ row.finding # "none"
    BY <2>1
  <2> QED
    BY <1>6, <2>2 DEF a, b
<1>7. CASE /\ a # "deny" /\ b # "deny" /\ ~(scan.detected /\ b \in {"warn", "strip", "deny"})
           /\ ~(result.detected /\ a \in {"warn", "strip"})
  <2>1. row = [sent |-> TRUE, finding |-> "none"]
    BY <1>7 DEF Scan!Handled
  <2>2. row.sent
    BY <2>1
  <2>3. cfg.action = "allow" \/ ~(result.detected \/ scan.detected)
    BY <1>1, <1>7 DEF ActionOf
  <2> QED
    BY <1>7, <2>2, <2>3 DEF a, b
<1> QED
  BY <1>2, <1>3, <1>4, <1>5, <1>6, <1>7

\* Of every request, whatever calls are in it: the verdict has its evidence, what
\* passes is as the corpus says, and a strip takes out what was flagged.
THEOREM EveryRequestHolds ==
    ASSUME NEW s, IsFiniteSet(s.body.calls), \A c \in s.body.calls : PlaceOf(c.place),
           s.body.size \in Nat, NEW cfg, ConfigOf(cfg)
    PROVE  Scan!RequestHolds(s, cfg)
<1> DEFINE body == s.body
           result == Scan!Validate(body, cfg)
           left == Scan!visitStrip(body.calls, result.found)
<1>1. /\ IsFiniteSet(body.calls) /\ \A c \in body.calls : PlaceOf(c.place)
      /\ body.size \in Nat /\ body = s.body
  OBVIOUS
<1> HIDE DEF body
<1>2. /\ ResultOf(result)
      /\ ~result.detected /\ ~body.allowed /\ body.size <= cfg.max =>
            \A c \in body.calls : Scan!CheckCall(c) = {}
  BY <1>1, Validated
<1>3. Left(body.calls, result.found, left)
  BY <1>1, StripLeaves
<1> HIDE DEF result, left
<1>4. Scan!VerdictHolds(result, cfg)
  BY <1>2, EveryVerdictHolds
<1>5. ASSUME NEW c, Scan!CheckCall(c) = {}
      PROVE  /\ c.name \in DOMAIN Scan!Corpus
             /\ Scan!Corpus[c.name].required \subseteq DOMAIN Scan!Arguments(c)
  <2>1. PICK rules : BreaksOnly(c, rules)
    BY CallBreaks
  <2>2. rules = {}
    BY <1>5, <2>1 DEF BreaksOnly
  <2> QED
    BY <2>1, <2>2 DEF BreaksOnly
<1>6. ~result.detected /\ ~body.allowed /\ body.size <= cfg.max =>
          \A c \in body.calls : /\ c.name \in DOMAIN Scan!Corpus
                                /\ Scan!Corpus[c.name].required \subseteq DOMAIN Scan!Arguments(c)
  BY <1>2, <1>5
<1>7. ASSUME NEW scan \in {Scan!Clean, Scan!Result({"role"}, 1, 0)}
      PROVE  LET action == Scan!DecideAction(result, cfg)
                 row    == Scan!Handled(action, result, Scan!DecideAction(scan, cfg), scan)
             IN  /\ action = "deny" <=> ~row.sent
                 /\ row.finding = "none" => cfg.action = "allow" \/ ~(result.detected \/ scan.detected)
  <2>1. ResultOf(scan)
    BY ResultIs
  <2> QED
    BY <1>2, <2>1, HandledAsFound
<1>8. /\ \A c \in left : Scan!IsFlagged(c, result.found) =>
            \/ c.place.slot = "bare"
            \/ \E d \in body.calls : /\ d.place.slot = "function_call" /\ Scan!IsFlagged(d, result.found)
                                     /\ d.place.in \in {"root", c.place.in}
      /\ left # {} => \A c \in body.calls \ left : Scan!IsFlagged(c, result.found)
  BY <1>3 DEF Left
<1> QED
  BY <1>1, <1>4, <1>6, <1>7, <1>8 DEF Scan!RequestHolds, result, left

-----------------------------------------------------------------------------
\* The samples of the scanners.

\* Each is a body of lines or of calls as the general theorems take them.
LEMMA ScanSampleHas ==
    ASSUME NEW s \in Scan!ScanSamples
    PROVE  \/ s.kind = "response" /\ \E L : s.body \in Seq(L)
           \/ /\ s.kind = "request" /\ IsFiniteSet(s.body.calls) /\ s.body.size \in Nat
              /\ \A c \in s.body.calls : PlaceOf(c.place)
<1> DEFINE B == [1..3 -> Scan!Lines]
           E == {e \in Scan!Calls : e.name \in {"known", "unknown"} /\ e.form = "object"
                                    /\ e.args # [a \in {} |-> "fine"]}
           two == {{c, d} : c \in Scan!Calls, d \in E}
           one == {{c} : c \in Scan!Calls}
           C == [calls : two, allowed : {FALSE}, size : {1}]
           D == [calls : one, allowed : BOOLEAN, size : {1, 3}]
<1>1. \A p \in Scan!Places : PlaceOf(p)
  BY DEF Scan!Places, PlaceOf
<1>2. \A c \in Scan!Calls : PlaceOf(c.place)
  <2> DEFINE F == {[a \in {"req"} |-> "fine"]}
  <2>1. \A c \in Scan!Calls : c.place \in Scan!Places
    <3>1. Scan!Calls = [place : Scan!Places, name : {"known", "free", "unknown", "mixed_Up"},
                        args : Scan!Args, form : {"object"}]
                       \cup [place : Scan!Places, name : {"known"}, args : F, form : {"string", "garbled"}]
      BY DEF Scan!Calls
    <3> HIDE DEF F
    <3> QED
      BY <3>1
  <2> QED
    BY <1>1, <2>1
<1>3. \A x \in two \cup one : IsFiniteSet(x) /\ \A c \in x : c \in Scan!Calls
  <2>2. \A d \in E : d \in Scan!Calls
    OBVIOUS
  <2> HIDE DEF E
  <2>3. ASSUME NEW x \in two PROVE IsFiniteSet(x) /\ \A c \in x : c \in Scan!Calls
    <3>1. PICK c \in Scan!Calls, d \in E : x = {c, d}
      BY <2>3
    <3> HIDE DEF two
    <3>2. IsFiniteSet({c} \cup {d})
      BY FS_Singleton, FS_AddElement
    <3>3. d \in Scan!Calls
      BY <2>2
    <3>4. x = {c} \cup {d}
      BY <3>1
    <3> QED
      BY <3>2, <3>3, <3>4
  <2>4. ASSUME NEW x \in one PROVE IsFiniteSet(x) /\ \A c \in x : c \in Scan!Calls
    <3>1. PICK c \in Scan!Calls : x = {c}
      BY <2>4
    <3>2. IsFiniteSet({c})
      BY FS_Singleton
    <3> QED
      BY <3>1, <3>2
  <2> HIDE DEF two, one
  <2> QED
    BY <2>3, <2>4
<1>4. \/ s \in [kind : {"response"}, body : B, binary : BOOLEAN]
      \/ s \in [kind : {"request"}, body : C] \/ s \in [kind : {"request"}, body : D]
  <2> DEFINE A == [kind : {"response"}, body : B, binary : BOOLEAN]
             F == [kind : {"request"}, body : C]
             G == [kind : {"request"}, body : D]
  <2>1. Scan!ScanSamples = A \cup F \cup G
    BY DEF Scan!ScanSamples
  <2> HIDE DEF A, F, G
  <2>2. s \in A \/ s \in F \/ s \in G
    BY <2>1
  <2> HIDE DEF B, C, D
  <2> QED
    BY <2>2 DEF A, F, G
<1>5. B \subseteq Seq(Scan!Lines)
  <2> DEFINE L == Scan!Lines
  <2>1. [1..3 -> L] \subseteq Seq(L)
    OBVIOUS
  <2> QED
    BY <2>1
<1> HIDE DEF B, two, one, E
<1>6. CASE s \in [kind : {"response"}, body : B, binary : BOOLEAN]
  BY <1>5, <1>6
<1>7. CASE s \in [kind : {"request"}, body : C]
  <2>1. s.kind = "request" /\ s.body.calls \in two /\ s.body.size \in Nat
    BY <1>7
  <2> QED
    BY <1>2, <1>3, <2>1
<1>8. CASE s \in [kind : {"request"}, body : D]
  <2>1. s.kind = "request" /\ s.body.calls \in one /\ s.body.size \in Nat
    BY <1>8
  <2> QED
    BY <1>2, <1>3, <2>1
<1> QED
  BY <1>4, <1>6, <1>7, <1>8

\* Every configuration of the samples is one.
LEMMA SampleConfigs ==
    ASSUME NEW given \in Scan!Given
    PROVE  ConfigOf(Scan!Config(given))
<1>1. given.action \in {"", "allow", "strip", "deny"} /\ given.max \in {0, 3} /\ given.floor \in {0, 90}
  BY DEF Scan!Given
<1> DEFINE a == IF given.action = "" THEN "warn" ELSE given.action
           m == IF given.max = 0 THEN 2 ELSE given.max
           f == IF given.floor = 0 THEN 70 ELSE given.floor
<1>2. a \in {"warn", "allow", "strip", "deny"} /\ m \in Nat /\ f \in Nat
  <2>1. a \in {"warn", "allow", "strip", "deny"}
    BY <1>1
  <2>2. m = 2 \/ m = 3
    BY <1>1
  <2>3. f = 70 \/ f = 90
    BY <1>1
  <2> HIDE DEF a, m, f
  <2> QED
    BY <2>1, <2>2, <2>3
<1>3. Scan!Config(given) = [action |-> a, max |-> m, floor |-> f]
  BY DEF Scan!Config
<1> HIDE DEF a, m, f
<1> QED
  BY <1>2, <1>3 DEF ConfigOf

\* The scanners' properties, of a sample.
LEMMA SampledScans ==
    ASSUME sample \in AllSamples
    PROVE  ScansHold
<1> SUFFICES ASSUME NEW given \in Scan!Given
             PROVE  /\ sample.kind = "response" => Scan!ResponseHolds(sample, Scan!Config(given))
                    /\ sample.kind = "request" => Scan!RequestHolds(sample, Scan!Config(given))
  BY DEF ScansHold, Scan!ScansHold
<1> DEFINE cfg == Scan!Config(given)
<1>1. ConfigOf(cfg)
  BY SampleConfigs
<1> HIDE DEF cfg
<1>2. sample.kind = "response" => Scan!ResponseHolds(sample, cfg)
  <2> SUFFICES ASSUME sample.kind = "response" PROVE Scan!ResponseHolds(sample, cfg)
    OBVIOUS
  <2>1. sample \in Scan!ScanSamples
    BY SampleOf
  <2>2. PICK L : sample.body \in Seq(L)
    BY <2>1, ScanSampleHas
  <2> QED
    BY <1>1, <2>2, EveryResponseHolds
<1>3. sample.kind = "request" => Scan!RequestHolds(sample, cfg)
  <2> SUFFICES ASSUME sample.kind = "request" PROVE Scan!RequestHolds(sample, cfg)
    OBVIOUS
  <2>1. sample \in Scan!ScanSamples
    BY SampleOf
  <2>2. /\ IsFiniteSet(sample.body.calls) /\ sample.body.size \in Nat
        /\ \A c \in sample.body.calls : PlaceOf(c.place)
    BY <2>1, ScanSampleHas
  <2> QED
    BY <1>1, <2>2, EveryRequestHolds
<1> QED
  BY <1>2, <1>3 DEF cfg

\* In every behaviour the scanners' verdicts have their evidence.
THEOREM ScansAreSound == ControlSpec => []ScansHold
<1>1. sample \in AllSamples => ScansHold
  BY SampledScans
<1> QED
  BY <1>1, SampleStays, PTL

=============================================================================
