---------------------------- MODULE SinksProofs ----------------------------
(***************************************************************************)
(* Proofs about Sinks: that no row the storage accepted is lost unseen or  *)
(* uploaded twice, that a shutdown leaves nothing in memory, and what the  *)
(* recordings hold, for any number of writers, sessions, events, runs and  *)
(* faults.                                                                 *)
(***************************************************************************)
EXTENDS Sinks, FiniteSetTheorems, TLAPS

-----------------------------------------------------------------------------
\* The inductive invariant of the storage.

StorageTyped ==
    /\ StorageTypeOK
    /\ \A f \in Flushers : job[f].at = "put" => job[f].key # 0
    /\ next \in [Writers -> Events \cup {NoEvent}]
    /\ emitted \in Nat /\ 1..emitted \subseteq Events

\* Where a row may be.
Flies(e, f) == job[f].at = "put" /\ e \in Range(job[f].rows)
Stored(e)   == \E k \in DOMAIN bucket : e \in Range(bucket[k])
Sent(e)     == \E b \in batches : e \in Range(b.rows)
Replaced(e) == \E b, c \in batches : b # c /\ b.key = c.key /\ e \in Range(b.rows)

\* What the storage has ever been given, as opposed to what a writer still holds.
Settled(e) ==
    \/ e \in Range(buffer) \/ Stored(e) \/ e \in accepted \/ Sent(e)
    \/ \E f \in Flushers : Flies(e, f)

Writing(w) == job[w].at = "write"

(***************************************************************************)
(* Events are numbered, so what a writer is about to offer is nowhere yet, *)
(* and no two writers hold the same one.                                   *)
(***************************************************************************)
HeldIsFresh ==
    /\ \A e : Settled(e) => e \in 1..emitted
    /\ \A w \in Writers :
          /\ next[w] # NoEvent => next[w] \in 1..emitted /\ ~Settled(next[w])
          /\ Writing(w) => job[w].row \in 1..emitted /\ ~Settled(job[w].row)
    /\ \A v, w \in Writers :
          /\ v # w /\ next[w] # NoEvent => next[v] # next[w]
          /\ v # w /\ Writing(v) /\ Writing(w) => job[v].row # job[w].row
          /\ next[w] # NoEvent /\ Writing(v) => job[v].row # next[w]

\* A row that has left a writer is in one place at most.
OnePlace ==
    /\ \A e \in Range(buffer) :
          ~Stored(e) /\ e \notin failed /\ \A f \in Flushers : ~Flies(e, f)
    /\ \A f \in Flushers : \A e : Flies(e, f) =>
          ~Stored(e) /\ e \notin failed /\ \A g \in Flushers : Flies(e, g) => g = f
    /\ \A e \in failed : ~Stored(e)

\* An accepted row is somewhere, and what the bucket holds of this run was put
\* by a batch of this run.
SomePlace ==
    \A e \in accepted :
        /\ \/ e \in Range(buffer) \/ Stored(e) \/ e \in failed \/ Replaced(e)
           \/ \E f \in Flushers : Flies(e, f)
        /\ \A k \in DOMAIN bucket :
              e \in Range(bucket[k]) => [key |-> k, rows |-> bucket[k]] \in batches

\* What has been taken from writers in this run was accepted.
TakenIsAccepted ==
    /\ Range(buffer) \subseteq accepted
    /\ \A f \in Flushers : \A e : Flies(e, f) => e \in accepted

\* Once Close waits, no writer that was not there before comes in.
ClosingIsQuiet ==
    /\ closing # "no" => ~accepting
    /\ closing # "no" /\ ~overlapped => \A w \in Writers : job[w] = Rest
    /\ closing # "flush" => job[Closer] = Rest
    /\ closing = "flush" => ~ticking /\ job[Rotator] = Rest
    /\ closing = "flush" /\ ~overlapped => job[Closer].at = "flush" \/ buffer = <<>>
    /\ phase = "down" => closing = "no" /\ ~accepting

StorageInv ==
    StorageTyped /\ HeldIsFresh /\ OnePlace /\ SomePlace /\ TakenIsAccepted /\ ClosingIsQuiet

-----------------------------------------------------------------------------
\* The inductive invariant of the recorder.

Inside == {w \in Writers : recording[w] # NoEvent}

RecorderTyped ==
    /\ RecorderTypeOK
    /\ opens \in [Sessions -> Nat] /\ tears \in [Sessions -> Nat] /\ renames \in [Sessions -> Nat]
    /\ \A w \in Inside : recording[w] = next[w] /\ origin[recording[w]] # NoSession
    /\ \A e \in current : origin[e] \in Sessions /\ origin[e] # NoSession

\* An event makes one file at most, so the file numbers last.
FilesLeft == IsFiniteSet(Inside) /\ files + Cardinality(Inside) <= emitted

\* The files a session has in hand.
Names(s) == {partial[s], final[s], fds[s]} \ {NoFile}

FilesApart ==
    /\ \A s \in Sessions : Names(s) \subseteq 1..files
    /\ \A s, t \in Sessions : s # t => Names(s) \cap Names(t) = {}
    /\ \A s \in Sessions : partial[s] # NoFile => partial[s] # final[s]
    /\ \A f \in Files : f > files => data[f] = <<>>

Line == Events \cup {Header, Torn, Garbled}
TornEnd(lines) == lines # <<>> /\ Last(lines) = Torn
IsTorn(f) == TornEnd(data[f])

Names2(s) == {partial[s], final[s]} \ {NoFile}

Lost(s) == Range(recorded[s]) \ (Range(Lines(partial[s])) \cup Range(Lines(final[s])))
TornEnds(s) == {f \in Names2(s) : IsTorn(f)}

\* The file of a session that was opened once.
OnlyFile(s, f) ==
    /\ Names2(s) = {f} /\ fds[s] \in {NoFile, f}
    /\ \/ data[f] = <<Header>> \o recorded[s]
       \/ data[f] = <<>> /\ recorded[s] = <<>> /\ fds[s] = NoFile

SessionKept(s) ==
    /\ opens[s] = 0 => Names(s) = {} /\ recorded[s] = <<>>
    /\ renames[s] = 0 => final[s] = NoFile
    /\ renames[s] <= 1 => fds[s] \in {NoFile, partial[s], final[s]}
    /\ opens[s] = 1 /\ tears[s] = 0 => \E f \in Files : OnlyFile(s, f)
    /\ \A f \in Names(s) : IsTorn(f) => tears[s] > 0
    /\ renames[s] <= 1 =>
          IsFiniteSet(Lost(s)) /\ Cardinality(Lost(s)) + Cardinality(TornEnds(s)) <= tears[s]

InLines(e, f) == f # NoFile /\ e \in Range(data[f])

\* What is left of a Stop that no handler overlaps.
StopInv ==
    /\ phase = "down" => ~started /\ stop = Idle /\ current = {} /\ Inside = {}
                         /\ \A s \in Sessions : fds[s] = NoFile
    /\ stop.at = "no" => stop = Idle
    /\ stop.at = "done" => ~started /\ stop.todo = {} /\ stop.id = NoSession
    /\ stop.at # "no" /\ ~raced => Inside = {}
    /\ stop.id # NoSession => stop.id \notin stop.todo
    /\ stop.at = "no" => \A s \in Sessions : fds[s] # NoFile => partial[s] = fds[s]
    /\ \A e \in current :
          /\ stop.at = "no" => fds[origin[e]] # NoFile
          /\ (stop.at = "no" \/ ~raced) /\ tears[origin[e]] = 0 =>
                IF stop.at = "no" \/ origin[e] \in stop.todo \cup {stop.id}
                  THEN InLines(e, partial[origin[e]])
                  ELSE origin[e] \in stuck \/ InLines(e, final[origin[e]])

RecorderInv ==
    /\ RecorderTyped /\ FilesLeft /\ FilesApart /\ StopInv
    /\ \A s \in Sessions : SessionKept(s)

-----------------------------------------------------------------------------
\* Rows in sequences.

\* The members of a sequence and one more.
LEMMA RangeAppend ==
    ASSUME NEW S, NEW q \in Seq(S), NEW x
    PROVE  Range(Append(q, x)) = Range(q) \cup {x}
<1>1. /\ DOMAIN q = 1..Len(q) /\ Len(q) \in Nat
      /\ DOMAIN Append(q, x) = 1..(Len(q) + 1)
      /\ \A i \in 1..Len(q) : Append(q, x)[i] = q[i]
      /\ Append(q, x)[Len(q) + 1] = x
  OBVIOUS
<1>2. \A i \in 1..(Len(q) + 1) : i \in 1..Len(q) \/ i = Len(q) + 1
  BY <1>1
<1>3. \A i \in 1..Len(q) : i \in 1..(Len(q) + 1)
  BY <1>1
<1>4. Len(q) + 1 \in 1..(Len(q) + 1)
  BY <1>1
<1>5. ASSUME NEW y \in Range(Append(q, x)) PROVE y \in Range(q) \cup {x}
  BY <1>1, <1>2 DEF Range
<1>6. ASSUME NEW y \in Range(q) PROVE y \in Range(Append(q, x))
  BY <1>1, <1>3 DEF Range
<1>7. x \in Range(Append(q, x))
  BY <1>1, <1>4 DEF Range
<1> QED
  BY <1>5, <1>6, <1>7

\* An empty sequence has no members.
LEMMA RangeEmpty == Range(<<>>) = {}
  BY DEF Range

\* The members of a sequence over a set are in the set.
LEMMA RangeIn ==
    ASSUME NEW S, NEW q \in Seq(S)
    PROVE  Range(q) \subseteq S
  BY DEF Range

-----------------------------------------------------------------------------
\* The storage.

\* Every step keeps the storage's types, and what was taken was accepted.
LEMMA StorageTypedStep ==
    ASSUME StorageInv, [Next]_vars
    PROVE  StorageTyped' /\ TakenIsAccepted'
<1> USE EmissionAssumption, ObjectStorageAssumption
<1> DEFINE Jobs == [at : {"rest", "write", "flush", "put"}, row : Events \cup {NoEvent},
                    rows : Seq(Events), key : 0..MaxNow]
<1>0. StorageTyped /\ TakenIsAccepted
  BY DEF StorageInv
<1>1. Rest \in Jobs /\ Rest.at = "rest" /\ Rest.rows = <<>>
  BY DEF Rest, Zero
<1>2. CASE UNCHANGED <<storageVars, next, emitted>>
  BY <1>0, <1>2 DEF storageVars, StorageTyped, StorageTypeOK, TakenIsAccepted, Flies
<1>3. ASSUME NEW w \in Writers, Record(w) PROVE StorageTyped' /\ TakenIsAccepted'
  <2>1. emitted' = emitted + 1 /\ emitted + 1 \in Events /\ next' = [next EXCEPT ![w] = emitted']
        /\ UNCHANGED storageVars
    BY <1>3 DEF Record
  <2>2. 1..emitted' \subseteq Events /\ emitted' \in Nat
    BY <1>0, <2>1 DEF StorageTyped
  <2> QED
    BY <1>0, <2>1, <2>2 DEF storageVars, StorageTyped, StorageTypeOK, TakenIsAccepted, Flies
<1>4. ASSUME NEW w \in Writers, Store(w) PROVE StorageTyped' /\ TakenIsAccepted'
  <2> DEFINE r == [Rest EXCEPT !.at = "write", !.row = next[w]]
  <2>1. r \in Jobs /\ r.at = "write"
    BY <1>0, <1>1 DEF StorageTyped, Rest, Zero
  <2>2. job' \in [Flushers -> Jobs] /\ \A f \in Flushers : job'[f].at = "put" => job'[f] = job[f]
    BY <1>0, <1>4, <2>1 DEF Store, Offer, StorageTyped, StorageTypeOK
  <2>3. next' \in [Writers -> Events \cup {NoEvent}] /\ overlapped' \in BOOLEAN
    BY <1>0, <1>4 DEF Store, Offer, StorageTyped, StorageTypeOK
  <2> QED
    BY <1>0, <1>4, <2>2, <2>3 DEF Store, Offer, StorageTyped, StorageTypeOK, TakenIsAccepted, Flies
<1>5. ASSUME NEW w \in Writers, AppendRow(w), UNCHANGED <<next, emitted>>
      PROVE  StorageTyped' /\ TakenIsAccepted'
  <2> DEFINE e == job[w].row
             r == [Rest EXCEPT !.at = IF ~Full /\ Len(Append(buffer, e)) >= SizeCap
                                      THEN "flush" ELSE "rest"]
  <2>1. e \in Events /\ Writing(w)
    <3>1. Writing(w)
      BY <1>5 DEF AppendRow, Writing
    <3>2. e \in 1..emitted
      BY <3>1 DEF StorageInv, HeldIsFresh
    <3> QED
      BY <1>0, <3>1, <3>2 DEF StorageTyped
  <2>2. r \in Jobs /\ r.at \in {"flush", "rest"}
    BY <1>1 DEF Rest
  <2>3. job' \in [Flushers -> Jobs] /\ \A f \in Flushers : job'[f].at = "put" => job'[f] = job[f]
    <3>1. job' = [job EXCEPT ![w] = r]
      BY <1>5 DEF AppendRow
    <3> HIDE DEF r
    <3> QED
      BY <1>0, <2>2, <3>1 DEF StorageTyped, StorageTypeOK
  <2>4. buffer \in Seq(Events) /\ Len(buffer) <= MaxPending /\ Len(buffer) \in Nat
    BY <1>0 DEF StorageTyped, StorageTypeOK
  <2>5. /\ buffer' \in Seq(Events) /\ Len(buffer') <= MaxPending
        /\ accepted' \subseteq Events /\ accepted \subseteq accepted'
        /\ Range(buffer') \subseteq accepted'
    <3>1. CASE Full
      BY <1>0, <1>5, <2>4, <3>1 DEF AppendRow, TakenIsAccepted, StorageTyped, StorageTypeOK
    <3>2. CASE ~Full
      <4>1. buffer' = Append(buffer, e) /\ accepted' = accepted \cup {e}
        BY <1>5, <3>2 DEF AppendRow
      <4>2. Len(buffer) < MaxPending
        BY <2>4, <3>2 DEF Full
      <4>3. Range(buffer') = Range(buffer) \cup {e}
        BY <2>4, <4>1, RangeAppend
      <4>4. buffer' \in Seq(Events) /\ Len(buffer') = Len(buffer) + 1
        BY <2>1, <2>4, <4>1
      <4>5. accepted \subseteq Events /\ Range(buffer) \subseteq accepted /\ MaxPending \in Nat
        BY <1>0 DEF TakenIsAccepted, StorageTyped, StorageTypeOK
      <4> HIDE DEF e
      <4>6. Len(buffer') <= MaxPending
        BY <2>4, <4>2, <4>4, <4>5
      <4> QED
        BY <2>1, <4>1, <4>3, <4>4, <4>5, <4>6
    <3> QED
      BY <3>1, <3>2
  <2>6. firstSeen' \in 0..now
    BY <1>0, <1>5 DEF AppendRow, StorageTyped, StorageTypeOK
  <2>7. UNCHANGED <<accepting, closing, ticking, now, bucket, failed, batches, overlapped>>
    BY <1>5 DEF AppendRow
  <2> HIDE DEF r, e
  <2>8. StorageTyped'
    <3>1. failed \subseteq accepted'
      BY <1>0, <2>5 DEF StorageTyped, StorageTypeOK
    <3> QED
      BY <1>0, <1>5, <2>3, <2>5, <2>6, <2>7, <3>1 DEF StorageTyped, StorageTypeOK
  <2>9. TakenIsAccepted'
    BY <1>0, <2>3, <2>5 DEF TakenIsAccepted, Flies
  <2> QED
    BY <2>8, <2>9
<1>6. ASSUME NEW f \in Flushers, Take(f), UNCHANGED <<next, emitted>>
      PROVE  StorageTyped' /\ TakenIsAccepted'
  <2> DEFINE r == IF buffer = <<>> THEN Rest
                  ELSE [Rest EXCEPT !.at = "put", !.rows = buffer,
                                    !.key = IF firstSeen = Zero THEN now ELSE firstSeen]
  <2>1. /\ job' = [job EXCEPT ![f] = r] /\ buffer' = <<>> /\ firstSeen' = 0
        /\ UNCHANGED <<accepting, closing, ticking, now, bucket, accepted, failed, batches, overlapped>>
    BY <1>6 DEF Take, Zero
  <2>2. r \in Jobs /\ (r.at = "put" => r.key # 0 /\ r.rows = buffer)
    <3> DEFINE k == IF firstSeen = Zero THEN now ELSE firstSeen
    <3>1. k \in 0..MaxNow /\ k # 0 /\ buffer \in Seq(Events)
      BY <1>0 DEF StorageTyped, StorageTypeOK, Zero
    <3> HIDE DEF k
    <3>2. CASE buffer = <<>>
      BY <1>1, <3>2
    <3>3. CASE buffer # <<>>
      <4>1. r = [Rest EXCEPT !.at = "put", !.rows = buffer, !.key = k]
        BY <3>3 DEF k
      <4> QED
        BY <1>1, <3>1, <4>1 DEF Rest
    <3> QED
      BY <3>2, <3>3
  <2> HIDE DEF r
  <2>3. /\ job' \in [Flushers -> Jobs]
        /\ \A g \in Flushers : job'[g].at = "put" =>
              \/ job'[g] = job[g]
              \/ job'[g].rows = buffer /\ job'[g].key # 0
    BY <1>0, <2>1, <2>2 DEF StorageTyped, StorageTypeOK
  <2>4. buffer' \in Seq(Events) /\ Len(buffer') <= MaxPending /\ Range(buffer') = {}
    BY <2>1, RangeEmpty
  <2>5. StorageTyped'
    BY <1>0, <1>6, <2>1, <2>3, <2>4 DEF StorageTyped, StorageTypeOK
  <2>6. TakenIsAccepted'
    BY <1>0, <2>1, <2>3, <2>4 DEF TakenIsAccepted, Flies
  <2> QED
    BY <2>5, <2>6
<1>7. ASSUME NEW f \in Flushers, Put(f) \/ PutFails(f), UNCHANGED <<next, emitted>>
      PROVE  StorageTyped' /\ TakenIsAccepted'
  <2>1. /\ job[f].at = "put" /\ job' = [job EXCEPT ![f] = Rest]
        /\ UNCHANGED <<accepting, closing, ticking, now, buffer, firstSeen, accepted, overlapped>>
    BY <1>7 DEF Put, PutFails
  <2>2. /\ job' \in [Flushers -> Jobs]
        /\ \A g \in Flushers : job'[g].at = "put" => job'[g] = job[g]
    BY <1>0, <1>1, <2>1 DEF StorageTyped, StorageTypeOK
  <2>3. job[f].rows \in Seq(Events) /\ Range(job[f].rows) \subseteq accepted
    BY <1>0, <2>1 DEF TakenIsAccepted, Flies, StorageTyped, StorageTypeOK
  <2>4. bucket' \in [1..MaxNow -> Seq(Events)] /\ failed' \subseteq accepted
    BY <1>0, <1>7, <2>3 DEF Put, PutFails, StorageTyped, StorageTypeOK
  <2>5. StorageTyped'
    BY <1>0, <1>7, <2>1, <2>2, <2>4 DEF StorageTyped, StorageTypeOK
  <2>6. TakenIsAccepted'
    BY <1>0, <2>1, <2>2 DEF TakenIsAccepted, Flies
  <2> QED
    BY <2>5, <2>6
<1>8. CASE StorageDown /\ next' = [w \in Writers |-> NoEvent] /\ emitted' = emitted
  <2>1. Range(buffer') = {} /\ buffer' = <<>> /\ Len(buffer') = 0
    BY <1>8, RangeEmpty DEF StorageDown
  <2>2. job' \in [Flushers -> Jobs] /\ \A f \in Flushers : job'[f].at # "put"
    BY <1>1, <1>8 DEF StorageDown
  <2>3. /\ accepting' = FALSE /\ closing' = "no" /\ ticking' = FALSE /\ overlapped' = FALSE
        /\ firstSeen' = 0 /\ accepted' = {} /\ failed' = {} /\ UNCHANGED <<now, bucket>>
    BY <1>8 DEF StorageDown, Zero
  <2>4. StorageTyped'
    <3>1. /\ buffer' \in Seq(Events) /\ Len(buffer') <= MaxPending
          /\ firstSeen' \in 0..now' /\ now' \in 1..MaxNow
      BY <1>0, <2>1, <2>3 DEF StorageTyped, StorageTypeOK
    <3>2. /\ next' \in [Writers -> Events \cup {NoEvent}]
          /\ emitted' \in Nat /\ 1..emitted' \subseteq Events
          /\ bucket' \in [1..MaxNow -> Seq(Events)]
      BY <1>0, <1>8, <2>3 DEF StorageTyped, StorageTypeOK
    <3> QED
      BY <2>2, <2>3, <3>1, <3>2 DEF StorageTyped, StorageTypeOK
  <2>5. TakenIsAccepted'
    BY <2>1, <2>2 DEF TakenIsAccepted, Flies
  <2> QED
    BY <2>4, <2>5
<1>9. ASSUME Tick \/ CloseFlush \/ PassTime \/ StartStorage \/ CloseBegin,
             UNCHANGED <<next, emitted>>
      PROVE  StorageTyped' /\ TakenIsAccepted'
  <2>1. /\ job' \in [Flushers -> Jobs]
        /\ \A g \in Flushers : job'[g].at = "put" => job'[g] = job[g]
    <3>1. job \in [Flushers -> Jobs] /\ Rotator \in Flushers /\ Closer \in Flushers
      BY <1>0 DEF StorageTyped, StorageTypeOK, Flushers
    <3>2. CASE PassTime \/ StartStorage \/ CloseBegin
      BY <3>1, <3>2 DEF PassTime, StartStorage, CloseBegin
    <3>3. ASSUME NEW g \in Flushers, job' = [job EXCEPT ![g].at = "flush"]
          PROVE  /\ job' \in [Flushers -> Jobs]
                 /\ \A h \in Flushers : job'[h].at = "put" => job'[h] = job[h]
      BY <3>1, <3>3
    <3> QED
      BY <1>9, <3>1, <3>2, <3>3 DEF Tick, CloseFlush
  <2>2. /\ UNCHANGED <<buffer, firstSeen, bucket, accepted, failed>>
        /\ accepting' \in BOOLEAN /\ ticking' \in BOOLEAN /\ overlapped' \in BOOLEAN
        /\ closing' \in {"no", "wait", "flush"}
        /\ now' \in 1..MaxNow /\ now <= now'
    <3>1. /\ accepting \in BOOLEAN /\ ticking \in BOOLEAN /\ overlapped \in BOOLEAN
          /\ closing \in {"no", "wait", "flush"}
      BY <1>0 DEF StorageTyped, StorageTypeOK
    <3>2. now \in Int /\ MaxNow \in Int /\ 1 <= now /\ now <= MaxNow
      BY <1>0 DEF StorageTyped, StorageTypeOK
    <3>3. now' = now \/ (now < MaxNow /\ now' = now + 1)
      <4>1. CASE PassTime
        BY <4>1 DEF PassTime
      <4>2. CASE Tick
        BY <4>2 DEF Tick
      <4>3. CASE CloseFlush \/ StartStorage \/ CloseBegin
        BY <4>3 DEF CloseFlush, StartStorage, CloseBegin
      <4> QED
        BY <1>9, <4>1, <4>2, <4>3
    <3>4. now' \in 1..MaxNow /\ now <= now'
      BY <3>2, <3>3
    <3>5. UNCHANGED <<buffer, firstSeen, bucket, accepted, failed>>
      BY <1>9 DEF Tick, CloseFlush, PassTime, StartStorage, CloseBegin
    <3>6. accepting' \in BOOLEAN /\ ticking' \in BOOLEAN /\ closing' \in {"no", "wait", "flush"}
      BY <1>9, <3>1 DEF Tick, CloseFlush, PassTime, StartStorage, CloseBegin
    <3>7. overlapped' \in BOOLEAN
      BY <1>9, <3>1 DEF Tick, CloseFlush, PassTime, StartStorage, CloseBegin
    <3> QED
      BY <3>4, <3>5, <3>6, <3>7
  <2>3. firstSeen' \in 0..now'
    BY <1>0, <2>2 DEF StorageTyped, StorageTypeOK
  <2> QED
    BY <1>0, <1>9, <2>1, <2>2, <2>3 DEF StorageTyped, StorageTypeOK, TakenIsAccepted, Flies
<1> QED
  BY <1>2, <1>3, <1>4, <1>5, <1>6, <1>7, <1>8, <1>9
     DEF Next, vars, sinksVars, StartUp, Signal, ServeReturns, ServeFails, Exit, Crash, Down,
         RecorderStep, StorageStep, Fault
-----------------------------------------------------------------------------
\* A step that moves no row: at most, a writer that is done is told so.
LEMMA NothingMoves ==
    ASSUME StorageInv, emitted \in Nat, emitted' \in Nat, emitted <= emitted',
           UNCHANGED <<buffer, bucket, accepted, failed, batches>>,
           \A f \in Flushers : job'[f].at = "put" => job'[f] = job[f],
           \A f \in Flushers : job[f].at = "put" => job'[f] = job[f]
    PROVE  /\ \A e : Settled(e)' <=> Settled(e)
           /\ \A e : Settled(e)' => e \in 1..emitted'
           /\ OnePlace' /\ SomePlace'
<1>1. \A e : \A f \in Flushers : Flies(e, f)' <=> Flies(e, f)
  BY DEF Flies
<1>2. \A e : Stored(e)' <=> Stored(e)
  BY DEF Stored
<1>3. \A e : (Sent(e)' <=> Sent(e)) /\ (Replaced(e)' <=> Replaced(e))
  BY DEF Sent, Replaced
<1>4. \A e : Settled(e)' <=> Settled(e)
  BY <1>1, <1>2, <1>3 DEF Settled
<1>5. \A e : Settled(e)' => e \in 1..emitted'
  <2>1. \A e \in 1..emitted : e \in 1..emitted'
    OBVIOUS
  <2> QED
    BY <1>4, <2>1 DEF StorageInv, HeldIsFresh
<1>6. OnePlace'
  BY <1>1, <1>2 DEF StorageInv, OnePlace
<1>7. SomePlace'
  BY <1>1, <1>2, <1>3 DEF StorageInv, SomePlace
<1> QED
  BY <1>4, <1>5, <1>6, <1>7

\* Every step leaves an accepted row in one place, and in no more than one.
LEMMA StoragePlaceStep ==
    ASSUME StorageInv, [Next]_vars, StorageTyped', TakenIsAccepted'
    PROVE  HeldIsFresh' /\ OnePlace' /\ SomePlace'
<1> USE EmissionAssumption, ObjectStorageAssumption
<1>0. StorageTyped /\ TakenIsAccepted /\ HeldIsFresh /\ OnePlace /\ SomePlace
  BY DEF StorageInv
<1>1. Rest.at = "rest" /\ Rest.rows = <<>>
  BY DEF Rest
<1>t. /\ emitted \in Nat /\ emitted' \in Nat /\ Writers \subseteq Flushers
      /\ buffer \in Seq(Events) /\ buffer' \in Seq(Events)
      /\ job \in [Flushers -> [at : {"rest", "write", "flush", "put"}, row : Events \cup {NoEvent},
                               rows : Seq(Events), key : 0..MaxNow]]
      /\ next \in [Writers -> Events \cup {NoEvent}]
      /\ bucket \in [1..MaxNow -> Seq(Events)]
      /\ NoEvent \notin 1..emitted
  <2>1. NoEvent = 0 \/ NoEvent \notin 1..emitted
    BY <1>0 DEF StorageTyped
  <2> QED
    BY <1>0, <2>1 DEF StorageTyped, StorageTypeOK, Flushers, NoEvent
<1>2. CASE UNCHANGED <<storageVars, next, emitted>>
  <2>1. OnePlace' /\ SomePlace' /\ \A e : Settled(e)' <=> Settled(e)
    BY <1>t, <1>2, <1>0, NothingMoves DEF storageVars
  <2>2. UNCHANGED <<job, next, emitted>>
    BY <1>2 DEF storageVars
  <2> QED
    BY <1>0, <2>1, <2>2 DEF HeldIsFresh, Writing
<1>3. ASSUME NEW w \in Writers, Record(w) PROVE HeldIsFresh' /\ OnePlace' /\ SomePlace'
  <2>1. emitted' = emitted + 1 /\ next' = [next EXCEPT ![w] = emitted'] /\ job[w] = Rest
        /\ UNCHANGED storageVars
    BY <1>3 DEF Record
  <2>2. OnePlace' /\ SomePlace' /\ (\A e : Settled(e)' <=> Settled(e))
        /\ \A e : Settled(e)' => e \in 1..emitted'
    BY <1>t, <1>0, <2>1, NothingMoves DEF storageVars
  <2>3. emitted' \notin 1..emitted /\ emitted' \in 1..emitted' /\ 1..emitted \subseteq 1..emitted'
    BY <1>t, <2>1
  <2>4. next'[w] = emitted' /\ \A v \in Writers : v # w => next'[v] = next[v]
    BY <1>t, <2>1
  <2>5. job' = job /\ ~Writing(w)
    BY <1>1, <2>1 DEF storageVars, Writing
  <2>6. ~Settled(emitted')
    BY <1>0, <2>3 DEF HeldIsFresh
  <2>7. HeldIsFresh'
    <3>1. \A v \in Writers :
             /\ next'[v] # NoEvent => next'[v] \in 1..emitted' /\ ~Settled(next'[v])
             /\ Writing(v) => job[v].row \in 1..emitted' /\ ~Settled(job[v].row)
      BY <1>0, <2>3, <2>4, <2>6 DEF HeldIsFresh
    <3>2. \A u, v \in Writers :
             /\ u # v /\ next'[v] # NoEvent => next'[u] # next'[v]
             /\ u # v /\ Writing(u) /\ Writing(v) => job[u].row # job[v].row
             /\ next'[v] # NoEvent /\ Writing(u) => job[u].row # next'[v]
      <4>1. \A v \in Writers : v # w /\ next'[v] # NoEvent => next'[v] # emitted'
        BY <1>0, <2>3, <2>4 DEF HeldIsFresh
      <4>2. \A u \in Writers : Writing(u) => job[u].row # emitted'
        BY <1>0, <2>3 DEF HeldIsFresh
      <4>3. emitted' # NoEvent
        BY <1>t, <2>1 DEF NoEvent
      <4> QED
        BY <1>0, <2>4, <4>1, <4>2, <4>3 DEF HeldIsFresh
    <3>3. \A v \in Writers : Writing(v)' <=> Writing(v)
      BY <2>5 DEF Writing
    <3> QED
      BY <2>2, <2>5, <3>1, <3>2, <3>3 DEF HeldIsFresh
  <2> QED
    BY <2>2, <2>7
<1>4. ASSUME NEW w \in Writers, Store(w) PROVE HeldIsFresh' /\ OnePlace' /\ SomePlace'
  <2>1. /\ next[w] # NoEvent /\ next' = [next EXCEPT ![w] = NoEvent] /\ emitted' = emitted
        /\ job[w] = Rest /\ UNCHANGED <<buffer, bucket, accepted, failed, batches>>
        /\ job' = [job EXCEPT ![w] = IF accepting THEN [Rest EXCEPT !.at = "write", !.row = next[w]]
                                     ELSE @]
    BY <1>4 DEF Store, Offer
  <2>2. /\ \A v \in Writers : v # w => job'[v] = job[v] /\ next'[v] = next[v]
        /\ \A f \in Flushers : f # w => job'[f] = job[f]
        /\ next'[w] = NoEvent
        /\ job'[w].at # "put"
        /\ job'[w].at = "write" => job'[w].row = next[w]
    BY <1>1, <1>t, <2>1 DEF Rest
  <2>3. OnePlace' /\ SomePlace' /\ (\A e : Settled(e)' <=> Settled(e))
        /\ \A e : Settled(e)' => e \in 1..emitted'
    BY <1>t, <1>0, <1>1, <2>1, <2>2, NothingMoves
  <2>4. HeldIsFresh'
    <3>1. \A v \in Writers : Writing(v)' =>
             \/ v # w /\ Writing(v) /\ job'[v].row = job[v].row
             \/ v = w /\ job'[v].row = next[w]
      BY <2>2 DEF Writing
    <3>2. \A v \in Writers : next'[v] # NoEvent => v # w /\ next'[v] = next[v]
      BY <2>2
    <3>3. \A v \in Writers :
             /\ next'[v] # NoEvent => next'[v] \in 1..emitted' /\ ~Settled(next'[v])
             /\ Writing(v)' => job'[v].row \in 1..emitted' /\ ~Settled(job'[v].row)
      BY <1>0, <2>1, <3>1, <3>2 DEF HeldIsFresh
    <3>4. \A u, v \in Writers :
             /\ u # v /\ next'[v] # NoEvent => next'[u] # next'[v]
             /\ u # v /\ Writing(u)' /\ Writing(v)' => job'[u].row # job'[v].row
             /\ next'[v] # NoEvent /\ Writing(u)' => job'[u].row # next'[v]
      <4> SUFFICES ASSUME NEW u \in Writers, NEW v \in Writers
                   PROVE  /\ u # v /\ next'[v] # NoEvent => next'[u] # next'[v]
                          /\ u # v /\ Writing(u)' /\ Writing(v)' => job'[u].row # job'[v].row
                          /\ next'[v] # NoEvent /\ Writing(u)' => job'[u].row # next'[v]
        OBVIOUS
      <4>1. u # v /\ next'[v] # NoEvent => next'[u] # next'[v]
        BY <1>0, <2>2, <3>2 DEF HeldIsFresh
      <4>2. u # v /\ Writing(u)' /\ Writing(v)' => job'[u].row # job'[v].row
        BY <1>0, <2>1, <3>1 DEF HeldIsFresh
      <4>3. next'[v] # NoEvent /\ Writing(u)' => job'[u].row # next'[v]
        BY <1>0, <2>1, <3>1, <3>2 DEF HeldIsFresh
      <4> QED
        BY <4>1, <4>2, <4>3
    <3> QED
      BY <2>3, <3>3, <3>4 DEF HeldIsFresh
  <2> QED
    BY <2>3, <2>4
<1>5. ASSUME NEW w \in Writers, AppendRow(w), UNCHANGED <<next, emitted>>
      PROVE  HeldIsFresh' /\ OnePlace' /\ SomePlace'
  <2> DEFINE e == job[w].row
  <2>1. /\ Writing(w) /\ e \in 1..emitted /\ ~Settled(e)
        /\ UNCHANGED <<bucket, failed, batches, next, emitted>>
        /\ \A v \in Flushers : v # w => job'[v] = job[v]
        /\ job'[w].at \in {"flush", "rest"}
    BY <1>0, <1>1, <1>5, <1>t DEF HeldIsFresh, Writing, AppendRow, Rest
  <2>2. \/ Range(buffer') = Range(buffer) /\ accepted' = accepted
        \/ Range(buffer') = Range(buffer) \cup {e} /\ accepted' = accepted \cup {e}
    BY <1>5, <1>t, RangeAppend DEF AppendRow
  <2>3. /\ e \notin Range(buffer) /\ ~Stored(e) /\ e \notin accepted /\ e \notin failed
        /\ \A f \in Flushers : ~Flies(e, f)
    BY <1>0, <2>1 DEF Settled, StorageTyped, StorageTypeOK
  <2>4. \A x : \A f \in Flushers : Flies(x, f)' <=> Flies(x, f)
    BY <2>1 DEF Flies, Writing
  <2>5. \A x : (Stored(x)' <=> Stored(x)) /\ (Sent(x)' <=> Sent(x)) /\ (Replaced(x)' <=> Replaced(x))
    BY <2>1 DEF Stored, Sent, Replaced
  <2>6. \A x : Settled(x)' => Settled(x) \/ x = e
    BY <2>2, <2>4, <2>5 DEF Settled
  <2>7. \A v \in Writers : Writing(v)' => v # w /\ Writing(v) /\ job'[v].row = job[v].row
    BY <1>t, <2>1 DEF Writing
  <2> HIDE DEF e
  <2>8. HeldIsFresh'
    <3>1. \A x : Settled(x)' => x \in 1..emitted'
      BY <1>0, <2>1, <2>6 DEF HeldIsFresh
    <3>2. \A v \in Writers : next[v] # NoEvent => next[v] # e
      BY <1>0, <2>1 DEF HeldIsFresh, e
    <3>3. \A v \in Writers : Writing(v)' => job[v].row # e
      BY <1>0, <2>1, <2>7 DEF HeldIsFresh, e
    <3>5. \A v \in Writers :
             /\ next'[v] # NoEvent => next'[v] \in 1..emitted' /\ ~Settled(next[v])'
             /\ Writing(v)' => job'[v].row \in 1..emitted' /\ ~Settled(job[v].row)'
      <4>1. next' = next /\ emitted' = emitted
        BY <2>1
      <4>2. \A v \in Writers : next[v] # NoEvent => next[v] \in 1..emitted /\ ~Settled(next[v])'
        BY <1>0, <2>6, <3>2, <4>1 DEF HeldIsFresh
      <4>3. \A v \in Writers :
               Writing(v)' => job'[v].row \in 1..emitted /\ ~Settled(job[v].row)'
        BY <1>0, <2>6, <2>7, <3>3 DEF HeldIsFresh
      <4> QED
        BY <4>1, <4>2, <4>3
    <3>6. \A u, v \in Writers :
             /\ u # v /\ next'[v] # NoEvent => next'[u] # next'[v]
             /\ u # v /\ Writing(u)' /\ Writing(v)' => job'[u].row # job'[v].row
             /\ next'[v] # NoEvent /\ Writing(u)' => job'[u].row # next'[v]
      BY <1>0, <2>1, <2>7 DEF HeldIsFresh
    <3> QED
      BY <2>1, <2>7, <3>1, <3>5, <3>6 DEF HeldIsFresh
  <2>9. OnePlace'
    BY <1>0, <2>1, <2>2, <2>3, <2>4, <2>5 DEF OnePlace
  <2>10. SomePlace'
    BY <1>0, <2>1, <2>2, <2>3, <2>4, <2>5 DEF SomePlace, Stored
  <2> QED
    BY <2>8, <2>9, <2>10
<1>6. ASSUME NEW f \in Flushers, Take(f), UNCHANGED <<next, emitted>>
      PROVE  HeldIsFresh' /\ OnePlace' /\ SomePlace'
  <2>1. /\ buffer' = <<>> /\ Range(buffer') = {} /\ job[f].at = "flush"
        /\ UNCHANGED <<bucket, accepted, failed, batches, next, emitted>>
        /\ \A g \in Flushers : g # f => job'[g] = job[g]
        /\ \/ buffer = <<>> /\ job'[f] = Rest
           \/ buffer # <<>> /\ job'[f].at = "put" /\ job'[f].rows = buffer
    BY <1>1, <1>6, <1>t, RangeEmpty DEF Take, Rest
  <2>2. \A x : Flies(x, f)' <=> x \in Range(buffer)
    BY <1>1, <2>1, RangeEmpty DEF Flies
  <2>3. \A x : ~Flies(x, f) /\ \A g \in Flushers : g # f => (Flies(x, g)' <=> Flies(x, g))
    BY <2>1 DEF Flies
  <2>4. \A x : (Stored(x)' <=> Stored(x)) /\ (Sent(x)' <=> Sent(x)) /\ (Replaced(x)' <=> Replaced(x))
    BY <2>1 DEF Stored, Sent, Replaced
  <2>5. \A x : Settled(x)' => Settled(x)
    BY <2>1, <2>2, <2>3, <2>4 DEF Settled
  <2>6. \A v \in Writers : Writing(v)' => Writing(v) /\ job'[v].row = job[v].row
    BY <1>1, <1>t, <2>1 DEF Writing
  <2>7. HeldIsFresh'
    BY <1>0, <2>1, <2>5, <2>6 DEF HeldIsFresh
  <2>8. OnePlace'
    BY <1>0, <2>1, <2>2, <2>3, <2>4 DEF OnePlace
  <2>9. SomePlace'
    BY <1>0, <1>6, <2>1, <2>2, <2>3, <2>4 DEF SomePlace
  <2> QED
    BY <2>7, <2>8, <2>9
<1>7. ASSUME NEW f \in Flushers, PutFails(f), UNCHANGED <<next, emitted>>
      PROVE  HeldIsFresh' /\ OnePlace' /\ SomePlace'
  <2>1. /\ job[f].at = "put" /\ job'[f] = Rest
        /\ UNCHANGED <<buffer, bucket, accepted, batches, next, emitted>>
        /\ \A g \in Flushers : g # f => job'[g] = job[g]
    BY <1>7, <1>t DEF PutFails
  <2>2. \A x : x \in failed' <=> x \in failed \/ Flies(x, f)
    BY <1>7 DEF PutFails, Flies
  <2>3. \A x : ~Flies(x, f)' /\ \A g \in Flushers : g # f => (Flies(x, g)' <=> Flies(x, g))
    BY <1>1, <2>1 DEF Flies
  <2>4. \A x : (Stored(x)' <=> Stored(x)) /\ (Sent(x)' <=> Sent(x)) /\ (Replaced(x)' <=> Replaced(x))
    BY <2>1 DEF Stored, Sent, Replaced
  <2>5. \A x : Settled(x)' => Settled(x)
    BY <2>1, <2>3, <2>4 DEF Settled
  <2>6. \A v \in Writers : Writing(v)' => Writing(v) /\ job'[v].row = job[v].row
    BY <1>1, <1>t, <2>1 DEF Writing
  <2>7. HeldIsFresh'
    BY <1>0, <2>1, <2>5, <2>6 DEF HeldIsFresh
  <2>8. OnePlace'
    <3>1. \A x \in Range(buffer) :
             ~Stored(x)' /\ x \notin failed' /\ \A g \in Flushers : ~Flies(x, g)'
      BY <1>0, <2>2, <2>3, <2>4 DEF OnePlace
    <3>2. \A g \in Flushers : \A x : Flies(x, g)' =>
             ~Stored(x)' /\ x \notin failed' /\ \A h \in Flushers : Flies(x, h)' => h = g
      BY <1>0, <2>2, <2>3, <2>4 DEF OnePlace
    <3>3. \A x \in failed' : ~Stored(x)'
      BY <1>0, <2>2, <2>4 DEF OnePlace
    <3> QED
      BY <2>1, <3>1, <3>2, <3>3 DEF OnePlace
  <2>9. SomePlace'
    BY <1>0, <2>1, <2>2, <2>3, <2>4 DEF SomePlace
  <2> QED
    BY <2>7, <2>8, <2>9
<1>8. ASSUME NEW f \in Flushers, Put(f), UNCHANGED <<next, emitted>>
      PROVE  HeldIsFresh' /\ OnePlace' /\ SomePlace'
  <2> DEFINE k == job[f].key
             b == [key |-> k, rows |-> job[f].rows]
  <2>1. /\ job[f].at = "put" /\ job'[f] = Rest
        /\ UNCHANGED <<buffer, accepted, failed, next, emitted>>
        /\ \A g \in Flushers : g # f => job'[g] = job[g]
        /\ bucket' = [bucket EXCEPT ![k] = job[f].rows] /\ batches' = batches \cup {b}
    BY <1>8, <1>t DEF Put
  <2>2. k \in 1..MaxNow /\ k \in DOMAIN bucket /\ bucket'[k] = job[f].rows
        /\ DOMAIN bucket' = DOMAIN bucket
        /\ \A i \in DOMAIN bucket : i # k => bucket'[i] = bucket[i]
    <3>1. k \in 0..MaxNow /\ k # 0 /\ MaxNow \in Nat
      BY <1>0, <1>t, <2>1 DEF StorageTyped
    <3>2. k \in 1..MaxNow
      BY <3>1
    <3> HIDE DEF k
    <3> QED
      BY <1>t, <2>1, <3>2
  <2> HIDE DEF k
  <2>3. \A x : ~Flies(x, f)' /\ \A g \in Flushers : g # f => (Flies(x, g)' <=> Flies(x, g))
    BY <1>1, <2>1 DEF Flies
  <2>4. \A x : Flies(x, f) <=> x \in Range(job[f].rows)
    BY <2>1 DEF Flies
  <2>5. \A x : Stored(x)' => Stored(x) \/ Flies(x, f)
    BY <2>2, <2>4 DEF Stored
  <2>6. \A x : Flies(x, f) => Stored(x)'
    BY <2>2, <2>4 DEF Stored
  <2>7. \A x : Sent(x)' => Sent(x) \/ Flies(x, f)
    BY <2>1, <2>4 DEF Sent
  <2>8. \A x : Settled(x)' => Settled(x)
    BY <2>1, <2>3, <2>5, <2>7 DEF Settled
  <2>9. \A v \in Writers : Writing(v)' => Writing(v) /\ job'[v].row = job[v].row
    BY <1>1, <1>t, <2>1 DEF Writing
  <2>10. HeldIsFresh'
    BY <1>0, <2>1, <2>8, <2>9 DEF HeldIsFresh
  <2>11. OnePlace'
    <3>1. \A x \in Range(buffer) :
             ~Stored(x)' /\ x \notin failed /\ \A g \in Flushers : ~Flies(x, g)'
      BY <1>0, <2>3, <2>5 DEF OnePlace
    <3>2. \A g \in Flushers : \A x : Flies(x, g)' =>
             ~Stored(x)' /\ x \notin failed /\ \A h \in Flushers : Flies(x, h)' => h = g
      BY <1>0, <2>3, <2>5 DEF OnePlace
    <3>3. \A x \in failed : ~Stored(x)'
      BY <1>0, <2>5 DEF OnePlace
    <3> QED
      BY <2>1, <3>1, <3>2, <3>3 DEF OnePlace
  <2>12. ASSUME NEW x \in accepted, Stored(x) PROVE Stored(x)' \/ Replaced(x)'
    <3>1. PICK i \in DOMAIN bucket : x \in Range(bucket[i])
      BY <2>12 DEF Stored
    <3>2. CASE i # k
      BY <2>2, <3>1, <3>2 DEF Stored
    <3>3. CASE i = k
      <4> DEFINE c == [key |-> i, rows |-> bucket[i]]
      <4>1. c \in batches
        BY <1>0, <3>1 DEF SomePlace
      <4>2. ~Flies(x, f)
        BY <1>0, <2>12 DEF OnePlace
      <4>3. c # b
        BY <2>4, <3>1, <4>2
      <4>4. c \in batches' /\ b \in batches' /\ c.key = b.key /\ x \in Range(c.rows)
        BY <2>1, <3>1, <3>3, <4>1
      <4> QED
        BY <4>3, <4>4 DEF Replaced
    <3> QED
      BY <3>2, <3>3
  <2>13. \A x : Replaced(x) => Replaced(x)'
    BY <2>1 DEF Replaced
  <2>14. SomePlace'
    <3> SUFFICES ASSUME NEW x \in accepted
                 PROVE  /\ \/ x \in Range(buffer) \/ Stored(x)' \/ x \in failed \/ Replaced(x)'
                           \/ \E g \in Flushers : Flies(x, g)'
                        /\ \A i \in DOMAIN bucket' :
                              x \in Range(bucket'[i]) => [key |-> i, rows |-> bucket'[i]] \in batches'
      BY <2>1 DEF SomePlace
    <3>1. \/ x \in Range(buffer) \/ Stored(x)' \/ x \in failed \/ Replaced(x)'
          \/ \E g \in Flushers : Flies(x, g)'
      BY <1>0, <2>3, <2>6, <2>12, <2>13 DEF SomePlace
    <3>2. \A i \in DOMAIN bucket' :
             x \in Range(bucket'[i]) => [key |-> i, rows |-> bucket'[i]] \in batches'
      BY <1>0, <2>1, <2>2 DEF SomePlace
    <3> QED
      BY <3>1, <3>2
  <2> QED
    BY <2>10, <2>11, <2>14
<1>9. CASE StorageDown /\ next' = [w \in Writers |-> NoEvent] /\ emitted' = emitted
  <2>1. /\ buffer' = <<>> /\ Range(buffer') = {} /\ accepted' = {} /\ failed' = {} /\ batches' = {}
        /\ bucket' = bucket /\ \A f \in Flushers : job'[f] = Rest
    BY <1>9, RangeEmpty DEF StorageDown
  <2>2. /\ \A x : \A f \in Flushers : ~Flies(x, f)'
        /\ \A x : (Stored(x)' <=> Stored(x)) /\ ~Sent(x)'
        /\ \A w \in Writers : next'[w] = NoEvent /\ ~Writing(w)'
    BY <1>1, <1>9, <1>t, <2>1 DEF Flies, Stored, Sent, Writing
  <2>3. \A x : Settled(x)' => Settled(x)
    BY <2>1, <2>2 DEF Settled
  <2> QED
    BY <1>0, <1>9, <2>1, <2>2, <2>3 DEF HeldIsFresh, OnePlace, SomePlace
<1>10. ASSUME Tick \/ CloseFlush \/ PassTime \/ StartStorage \/ CloseBegin,
              UNCHANGED <<next, emitted>>
       PROVE  HeldIsFresh' /\ OnePlace' /\ SomePlace'
  <2>1. /\ UNCHANGED <<buffer, bucket, accepted, failed, batches>>
        /\ job' = job \/ job' = [job EXCEPT ![Rotator].at = "flush"]
           \/ job' = [job EXCEPT ![Closer].at = "flush"]
    BY <1>10 DEF Tick, CloseFlush, PassTime, StartStorage, CloseBegin
  <2>2. /\ \A f \in Flushers : job'[f].at = "put" => job'[f] = job[f]
        /\ \A w \in Writers : Writing(w)' <=> Writing(w)
        /\ \A w \in Writers : job'[w].row = job[w].row
    <3>1. Rotator \in Flushers /\ Closer \in Flushers /\ Rotator \notin Writers /\ Closer \notin Writers
      BY DEF Flushers
    <3>2. CASE job' = job
      BY <3>2 DEF Writing
    <3>3. ASSUME NEW g \in Flushers, g \notin Writers, job' = [job EXCEPT ![g].at = "flush"]
          PROVE  /\ \A f \in Flushers : job'[f].at = "put" => job'[f] = job[f]
                 /\ \A w \in Writers : Writing(w)' <=> Writing(w)
                 /\ \A w \in Writers : job'[w].row = job[w].row
      <4>1. job'[g].at = "flush" /\ \A f \in Flushers : f # g => job'[f] = job[f]
        BY <1>t, <3>3
      <4> QED
        BY <1>t, <3>3, <4>1 DEF Writing
    <3> QED
      BY <2>1, <3>1, <3>2, <3>3
  <2>3. \A f \in Flushers : job[f].at = "put" => job'[f] = job[f]
    <3>1. CASE Tick
      BY <1>1, <1>t, <3>1 DEF Tick
    <3>2. CASE CloseFlush
      <4>1. job' = [job EXCEPT ![Closer].at = "flush"] /\ job[Closer].at = "rest"
        BY <1>1, <3>2 DEF CloseFlush, StorageInv, ClosingIsQuiet
      <4> QED
        BY <1>t, <4>1
    <3>3. CASE PassTime \/ StartStorage \/ CloseBegin
      BY <3>3 DEF PassTime, StartStorage, CloseBegin
    <3> QED
      BY <1>10, <3>1, <3>2, <3>3
  <2>4. OnePlace' /\ SomePlace' /\ \A e : Settled(e)' <=> Settled(e)
    BY <1>t, <1>10, <1>0, <2>1, <2>2, <2>3, NothingMoves
  <2> QED
    BY <1>0, <1>10, <2>2, <2>4 DEF HeldIsFresh
<1> QED
  BY <1>2, <1>3, <1>4, <1>5, <1>6, <1>7, <1>8, <1>9, <1>10
     DEF Next, vars, sinksVars, StartUp, Signal, ServeReturns, ServeFails, Exit, Crash, Down,
         RecorderStep, StorageStep, Fault

\* Every step keeps what Close has left behind it empty.
LEMMA ClosingStep ==
    ASSUME StorageInv, [Next]_vars
    PROVE  ClosingIsQuiet'
<1> USE EmissionAssumption, ObjectStorageAssumption
<1>0. StorageTyped /\ ClosingIsQuiet
  BY DEF StorageInv
<1>1. Rest.at = "rest"
  BY DEF Rest
<1>t. /\ Writers \subseteq Flushers /\ Rotator \in Flushers /\ Closer \in Flushers
      /\ Rotator \notin Writers /\ Closer \notin Writers /\ Rotator # Closer
      /\ job \in [Flushers -> [at : {"rest", "write", "flush", "put"}, row : Events \cup {NoEvent},
                               rows : Seq(Events), key : 0..MaxNow]]
      /\ accepting \in BOOLEAN /\ ticking \in BOOLEAN /\ overlapped \in BOOLEAN
  BY <1>0 DEF StorageTyped, StorageTypeOK, Flushers
<1>2. CASE UNCHANGED storageVars /\ (phase' = phase \/ phase' # "down")
  BY <1>0, <1>2 DEF storageVars, ClosingIsQuiet
<1>3. ASSUME NEW w \in Writers, Store(w) PROVE ClosingIsQuiet'
  <2>1. /\ UNCHANGED <<accepting, closing, ticking, buffer, phase>>
        /\ overlapped' = (overlapped \/ (accepting /\ closing # "no"))
        /\ \A f \in Flushers : f # w => job'[f] = job[f]
        /\ ~accepting => job' = job
    BY <1>3, <1>t DEF Store, Offer
  <2> QED
    BY <1>0, <1>t, <2>1 DEF ClosingIsQuiet
<1>4. ASSUME NEW w \in Writers, AppendRow(w), UNCHANGED phase PROVE ClosingIsQuiet'
  <2>1. /\ UNCHANGED <<accepting, closing, ticking, overlapped>> /\ job[w].at = "write"
        /\ \A f \in Flushers : f # w => job'[f] = job[f]
    BY <1>4, <1>t DEF AppendRow
  <2>2. closing # "no" => overlapped
    BY <1>0, <1>1, <2>1 DEF ClosingIsQuiet
  <2>3. job'[Closer] = job[Closer] /\ job'[Rotator] = job[Rotator]
    BY <1>t, <2>1
  <2> QED
    BY <1>0, <1>4, <2>1, <2>2, <2>3 DEF ClosingIsQuiet
<1>5. ASSUME NEW f \in Flushers, Take(f) \/ Put(f) \/ PutFails(f), UNCHANGED phase
      PROVE  ClosingIsQuiet'
  <2>1. /\ UNCHANGED <<accepting, closing, ticking, overlapped>> /\ job[f] # Rest
        /\ \A g \in Flushers : g # f => job'[g] = job[g]
        /\ buffer' = <<>> \/ buffer' = buffer
        /\ job[f].at = "flush" => buffer' = <<>>
    BY <1>1, <1>5, <1>t DEF Take, Put, PutFails
  <2>2. closing # "no" /\ f \in Writers => overlapped
    BY <1>0, <2>1 DEF ClosingIsQuiet
  <2>3. closing = "flush" => f # Rotator
    BY <1>0, <2>1 DEF ClosingIsQuiet
  <2>4. closing # "flush" => f # Closer
    BY <1>0, <2>1 DEF ClosingIsQuiet
  <2>5. \A w \in Writers : closing # "no" /\ ~overlapped => job'[w] = Rest
    BY <1>0, <1>t, <2>1, <2>2 DEF ClosingIsQuiet
  <2>6. closing = "flush" /\ ~overlapped => job'[Closer].at = "flush" \/ buffer' = <<>>
    BY <1>0, <1>t, <2>1 DEF ClosingIsQuiet
  <2> QED
    BY <1>0, <1>5, <1>t, <2>1, <2>3, <2>4, <2>5, <2>6 DEF ClosingIsQuiet
<1>6. CASE StorageDown /\ phase' = "down"
  BY <1>t, <1>6 DEF StorageDown, ClosingIsQuiet
<1>7. CASE Tick /\ UNCHANGED phase
  <2>1. /\ UNCHANGED <<accepting, closing, ticking, overlapped, buffer>> /\ ticking
        /\ \A g \in Flushers : g # Rotator => job'[g] = job[g]
    BY <1>7, <1>t DEF Tick
  <2> QED
    BY <1>0, <1>7, <1>t, <2>1 DEF ClosingIsQuiet
<1>8. CASE CloseFlush /\ UNCHANGED phase
  <2>1. /\ closing = "wait" /\ closing' = "flush" /\ ticking' = FALSE /\ job[Rotator] = Rest
        /\ UNCHANGED <<accepting, overlapped, buffer>>
        /\ \A g \in Flushers : g # Closer => job'[g] = job[g]
        /\ job'[Closer].at = "flush"
    BY <1>8, <1>t DEF CloseFlush
  <2> QED
    BY <1>0, <1>8, <1>t, <2>1 DEF ClosingIsQuiet
<1>9. CASE PassTime /\ UNCHANGED phase
  BY <1>0, <1>9 DEF PassTime, ClosingIsQuiet
<1>10. CASE StartStorage /\ phase' = "up"
  BY <1>0, <1>10 DEF StartStorage, ClosingIsQuiet
<1>11. CASE CloseBegin /\ phase' = "closing"
  <2>1. /\ closing' = "wait" /\ accepting' = FALSE /\ UNCHANGED <<ticking, buffer, job>>
        /\ overlapped' = (\E w \in Writers : job[w] # Rest)
    BY <1>11 DEF CloseBegin
  <2>2. closing = "no"
    BY <1>0, <1>11 DEF CloseBegin, ClosingIsQuiet
  <2> QED
    BY <1>0, <1>11, <2>1, <2>2 DEF ClosingIsQuiet
<1> QED
  BY <1>2, <1>3, <1>4, <1>5, <1>6, <1>7, <1>8, <1>9, <1>10, <1>11
     DEF Next, vars, sinksVars, StartUp, Signal, ServeReturns, ServeFails, Exit, Crash, Down,
         RecorderStep, StorageStep, Fault, Record

\* The storage's invariant holds at the start.
LEMMA StorageStart == Init => StorageInv
<1> USE EmissionAssumption, ObjectStorageAssumption
<1> SUFFICES ASSUME Init PROVE StorageInv
  OBVIOUS
<1>1. Rest \in [at : {"rest", "write", "flush", "put"}, row : Events \cup {NoEvent},
                rows : Seq(Events), key : 0..MaxNow]
      /\ Rest.at = "rest"
  BY DEF Rest, Zero
<1>2. Range(buffer) = {} /\ \A k \in DOMAIN bucket : Range(bucket[k]) = {}
  BY RangeEmpty DEF Init, StorageInit
<1>3. \A f \in Flushers : job[f] = Rest
  BY DEF Init, StorageInit
<1>4. \A e : ~Settled(e) /\ ~Stored(e) /\ \A f \in Flushers : ~Flies(e, f)
  BY <1>1, <1>2, <1>3 DEF Settled, Stored, Flies, Sent, Init, StorageInit
<1>5. Writers \subseteq Flushers /\ Rotator \in Flushers /\ Closer \in Flushers
  BY DEF Flushers
<1>6. \A w \in Writers : ~Writing(w) /\ next[w] = NoEvent
  BY <1>1, <1>3, <1>5 DEF Writing, Init
<1>7. StorageTyped
  <2>1. 1..emitted = {} /\ emitted \in Nat
    BY DEF Init
  <2>2. <<>> \in Seq(Events) /\ Len(<<>>) <= MaxPending
    OBVIOUS
  <2>3. now \in 1..MaxNow /\ firstSeen \in 0..now
    BY DEF Init, StorageInit, Zero
  <2>4. job \in [Flushers -> [at : {"rest", "write", "flush", "put"}, row : Events \cup {NoEvent},
                             rows : Seq(Events), key : 0..MaxNow]]
    BY <1>1 DEF Init, StorageInit
  <2>5. bucket \in [1..MaxNow -> Seq(Events)]
    BY <2>2 DEF Init, StorageInit
  <2>6. next \in [Writers -> Events \cup {NoEvent}]
    BY DEF Init
  <2>7. \A f \in Flushers : job[f].at # "put"
    BY <1>1, <1>3
  <2> QED
    BY <2>1, <2>2, <2>3, <2>4, <2>5, <2>6, <2>7 DEF StorageTyped, StorageTypeOK, Init, StorageInit
<1> QED
  BY <1>2, <1>3, <1>4, <1>5, <1>6, <1>7
     DEF StorageInv, HeldIsFresh, OnePlace, SomePlace, TakenIsAccepted, ClosingIsQuiet, Init, StorageInit

\* The storage's invariant holds of every behaviour.
THEOREM StorageInvHolds == Spec => []StorageInv
<1>1. StorageInv /\ [Next]_vars => StorageInv'
  BY StorageTypedStep, StoragePlaceStep, ClosingStep DEF StorageInv
<1> QED
  BY <1>1, StorageStart, PTL DEF Spec

(***************************************************************************)
(* Whatever writers, rotator and Close do to one another, a row that Write *)
(* took is at any time in one of buffer, upload, bucket and reported       *)
(* failure, and in no two; the one way out is another object of the same   *)
(* name.                                                                   *)
(***************************************************************************)
THEOREM RowsAreAccounted == Spec => []RowsAccounted
<1>1. StorageInv => RowsAccounted
  <2> SUFFICES ASSUME StorageInv PROVE RowsAccounted
    OBVIOUS
  <2> DEFINE flying == {f \in Flushers : job[f].at = "put"}
             places(e) == {p \in {"buffer", "bucket", "failed"} \cup flying :
                             \/ p = "buffer" /\ e \in Range(buffer)
                             \/ p = "bucket" /\ \E k \in DOMAIN bucket : e \in Range(bucket[k])
                             \/ p = "failed" /\ e \in failed
                             \/ p \in flying /\ e \in Range(job[p].rows)}
  <2> SUFFICES ASSUME NEW e \in accepted
               PROVE  \/ Cardinality(places(e)) = 1
                      \/ /\ places(e) = {}
                         /\ \E b, c \in batches : b # c /\ b.key = c.key /\ e \in Range(b.rows)
    BY DEF RowsAccounted
  <2>0. OnePlace /\ SomePlace
    BY DEF StorageInv
  <2>1. \A p : p \in places(e) <=>
           \/ p = "buffer" /\ e \in Range(buffer)
           \/ p = "bucket" /\ Stored(e)
           \/ p = "failed" /\ e \in failed
           \/ p \in Flushers /\ Flies(e, p)
    BY DEF Stored, Flies
  <2> HIDE DEF places, flying
  <2>2. ASSUME NEW p, places(e) = {p} PROVE Cardinality(places(e)) = 1
    BY <2>2, FS_Singleton
  <2>3. CASE e \in Range(buffer)
    <3>1. places(e) = {"buffer"}
      BY <2>0, <2>1, <2>3 DEF OnePlace
    <3> QED
      BY <2>2, <3>1
  <2>4. CASE Stored(e)
    <3>1. places(e) = {"bucket"}
      BY <2>0, <2>1, <2>4 DEF OnePlace
    <3> QED
      BY <2>2, <3>1
  <2>5. CASE e \in failed
    <3>1. places(e) = {"failed"}
      BY <2>0, <2>1, <2>5 DEF OnePlace
    <3> QED
      BY <2>2, <3>1
  <2>6. ASSUME NEW f \in Flushers, Flies(e, f) PROVE Cardinality(places(e)) = 1
    <3>1. places(e) = {f}
      BY <2>0, <2>1, <2>6 DEF OnePlace
    <3> QED
      BY <2>2, <3>1
  <2>7. CASE e \notin Range(buffer) /\ ~Stored(e) /\ e \notin failed
             /\ \A f \in Flushers : ~Flies(e, f)
    <3>1. places(e) = {}
      BY <2>1, <2>7
    <3>2. Replaced(e)
      BY <2>0, <2>7 DEF SomePlace
    <3> QED
      BY <3>1, <3>2 DEF Replaced
  <2> QED
    BY <2>3, <2>4, <2>5, <2>6, <2>7
<1> QED
  BY <1>1, StorageInvHolds, PTL

(***************************************************************************)
(* Once Close has returned no row is left in memory, unless a Write        *)
(* overlapped it: the rotator is gone, the last flush has run.             *)
(***************************************************************************)
THEOREM NothingIsLeft == Spec => []ShutdownFlushes
<1>1. StorageInv => ShutdownFlushes
  <2> SUFFICES ASSUME StorageInv, Closed, ~overlapped
               PROVE  buffer = <<>> /\ \A f \in Flushers : job[f] = Rest
    BY DEF ShutdownFlushes
  <2>1. job[Closer].at = "rest"
    BY DEF Closed, Rest
  <2> QED
    BY <2>1 DEF StorageInv, ClosingIsQuiet, Closed, Flushers
<1> QED
  BY <1>1, StorageInvHolds, PTL

-----------------------------------------------------------------------------
\* The recorder.

\* What a line appended to a file adds, and what a torn end costs it.
LEMMA LineAppended ==
    ASSUME NEW lines \in Seq(Line), NEW x \in Line
    PROVE  /\ AppendLine(lines, x) \in Seq(Line) /\ AppendLine(lines, x) # <<>>
           /\ ~TornEnd(lines) => AppendLine(lines, x) = Append(lines, x)
                                 /\ x \in Range(AppendLine(lines, x))
           /\ Range(lines) \ {Torn} \subseteq Range(AppendLine(lines, x))
           /\ x # Torn => ~TornEnd(AppendLine(lines, x))
<1>1. CASE ~TornEnd(lines)
  <2>1. AppendLine(lines, x) = Append(lines, x)
    BY <1>1 DEF AppendLine, TornEnd
  <2>2. Range(Append(lines, x)) = Range(lines) \cup {x}
    BY RangeAppend
  <2>3. Append(lines, x) \in Seq(Line) /\ Append(lines, x) # <<>> /\ Last(Append(lines, x)) = x
    BY DEF Last
  <2> QED
    BY <1>1, <2>1, <2>2, <2>3 DEF TornEnd
<1>2. CASE TornEnd(lines)
  <2> DEFINE y == IF x = Torn THEN Torn ELSE Garbled
             n == Len(lines)
             q == [lines EXCEPT ![n] = y]
  <2>1. AppendLine(lines, x) = q
    BY <1>2 DEF AppendLine, TornEnd, ReplaceAt
  <2>2. n \in 1..n /\ DOMAIN lines = 1..n /\ lines[n] = Torn /\ n \in Nat /\ n # 0
    BY <1>2 DEF TornEnd, Last
  <2>3. y \in Line /\ (x # Torn => y # Torn)
    BY DEF Line, Torn, Garbled
  <2> HIDE DEF y, n
  <2>4. DOMAIN q = 1..n /\ q[n] = y /\ \A i \in 1..n : i # n => q[i] = lines[i]
    BY <2>2
  <2>5. q \in Seq(Line) /\ Len(q) = n
    BY <2>2, <2>3 DEF n
  <2> HIDE DEF q
  <2>6. q # <<>> /\ Last(q) = y
    BY <2>2, <2>4, <2>5 DEF Last
  <2>7. ASSUME NEW z \in Range(lines), z # Torn PROVE z \in Range(q)
    BY <2>2, <2>4, <2>7 DEF Range
  <2> QED
    BY <1>2, <2>1, <2>3, <2>5, <2>6, <2>7 DEF TornEnd
<1> QED
  BY <1>1, <1>2

\* What the proofs need of the storage: events are numbered.
Counted == emitted \in Nat /\ 1..emitted \subseteq Events

\* The file a writer is about to write is its session's open one, or a new one.
LEMMA TargetMeans ==
    ASSUME RecorderInv, Counted, NEW w \in Inside
    PROVE  LET s == origin[recording[w]]
               f == Target(s)
           IN /\ s \in Sessions /\ s # NoSession /\ recording[w] \in Events
              /\ f \in Files /\ f \in 1..(files + 1) /\ files + 1 <= emitted
              /\ \/ f \in Names(s) /\ f \in 1..files /\ f \in {fds[s], partial[s]}
                 \/ /\ fds[s] = NoFile /\ partial[s] = NoFile /\ f = files + 1
                    /\ data[f] = <<>> /\ \A t \in Sessions : f \notin Names(t)
              /\ \A t \in Sessions : t # s => f \notin Names(t)
<1> USE EmissionAssumption
<1> DEFINE s == origin[recording[w]]
           f == Target(s)
<1>0. RecorderTyped /\ FilesLeft /\ FilesApart
  BY DEF RecorderInv
<1>1. w \in Writers /\ recording[w] # NoEvent
  BY DEF Inside
<1>2. recording[w] \in Events /\ s \in Sessions /\ s # NoSession
  BY <1>0, <1>1 DEF RecorderTyped, RecorderTypeOK
<1>3. files \in Nat /\ emitted \in Nat /\ files + 1 <= emitted
  <2>1. IsFiniteSet(Inside) /\ files + Cardinality(Inside) <= emitted /\ files \in Nat /\ emitted \in Nat
    BY <1>0 DEF FilesLeft, RecorderTyped, RecorderTypeOK, Counted
  <2>2. Cardinality(Inside) \in Nat /\ Cardinality(Inside) # 0
    BY <2>1, FS_CardinalityType, FS_EmptySet
  <2> QED
    BY <2>1, <2>2
<1>4. files + 1 \in Events
  BY <1>3 DEF Counted
<1>5. fds[s] # NoFile \/ partial[s] # NoFile => f \in Names(s) /\ f \in {fds[s], partial[s]}
  BY <1>2 DEF Names, Target, NoFile
<1>6. Names(s) \subseteq 1..files /\ Names(s) \subseteq Files
  BY <1>0, <1>2 DEF FilesApart, RecorderTyped, RecorderTypeOK, Names
<1>7. CASE fds[s] # NoFile \/ partial[s] # NoFile
  <2>1. f \in Names(s) /\ f \in {fds[s], partial[s]}
    BY <1>5, <1>7
  <2>2. \A t \in Sessions : t # s => f \notin Names(t)
    BY <1>0, <1>2, <2>1 DEF FilesApart
  <2>3. f \in 1..files /\ f \in 1..(files + 1) /\ f \in Files
    BY <1>3, <1>6, <2>1
  <2> QED
    BY <1>2, <1>3, <2>1, <2>2, <2>3
<1>8. CASE fds[s] = NoFile /\ partial[s] = NoFile
  <2>1. f = files + 1
    BY <1>8 DEF Target
  <2>2. \A t \in Sessions : f \notin Names(t)
    BY <1>0, <1>3, <2>1 DEF FilesApart
  <2>3. data[f] = <<>>
    BY <1>0, <1>3, <1>4, <2>1 DEF FilesApart, Files
  <2> QED
    BY <1>2, <1>3, <1>4, <1>8, <2>1, <2>2, <2>3 DEF Files
<1> QED
  BY <1>7, <1>8

\* A write of writer w to file f leaves these lines in it.
Wrote(w, f, lines) ==
    LET e == recording[w]
        s == origin[e]
        known == fds[s] # NoFile
    IN
    /\ lines \in Seq(Line)
    /\ data' = [data EXCEPT ![f] = lines]
    /\ files' = IF f > files THEN f ELSE files
    /\ \A t \in Sessions : t # s =>
          /\ fds'[t] = fds[t] /\ partial'[t] = partial[t] /\ opens'[t] = opens[t]
          /\ tears'[t] = tears[t] /\ recorded'[t] = recorded[t]
    /\ partial'[s] = IF known THEN partial[s] ELSE f
    /\ opens'[s] = IF known THEN opens[s] ELSE opens[s] + 1
    /\ Range(data[f]) \ {Torn} \subseteq Range(lines)
    /\ \/ /\ fds'[s] = f /\ tears'[s] = tears[s]
          /\ recorded'[s] = Append(recorded[s], e) /\ current' = current \cup {e}
          /\ ~TornEnd(lines)
          /\ e \in Range(lines) \/ (known /\ TornEnd(data[f]))
          /\ known /\ ~TornEnd(data[f]) => lines = Append(data[f], e)
          /\ ~known /\ data[f] = <<>> => lines = Append(<<Header>>, e)
       \/ /\ recorded'[s] = recorded[s] /\ current' = current
          /\ fds'[s] \in {f, NoFile} /\ (known => fds'[s] = f)
          /\ \/ tears'[s] = tears[s] + 1
             \/ /\ tears'[s] = tears[s] /\ (TornEnd(lines) => TornEnd(data[f]))
                /\ \/ lines = data[f] /\ (known \/ fds'[s] = NoFile)
                   \/ ~known /\ fds'[s] = f /\ (data[f] = <<>> => lines = <<Header>>)

\* A write of an event, or its failure, as an effect on one file.
LEMMA WriteMeans ==
    ASSUME RecorderInv, Counted, NEW w \in Writers, WriteEvent(w) \/ RecordFails(w)
    PROVE  /\ w \in Inside /\ recording' = [recording EXCEPT ![w] = NoEvent]
           /\ UNCHANGED <<origin, started, final, stop, renames, raced, stuck>>
           /\ \/ UNCHANGED <<fds, partial, data, files, opens, tears, recorded, current>>
              \/ \E lines : Wrote(w, Target(origin[recording[w]]), lines)
<1> USE EmissionAssumption
<1> DEFINE e == recording[w]
           s == origin[e]
           f == Target(s)
           known == fds[s] # NoFile
<1>0. RecorderTyped
  BY DEF RecorderInv
<1>1. w \in Inside /\ recording' = [recording EXCEPT ![w] = NoEvent]
      /\ UNCHANGED <<origin, started, final, stop, renames, raced, stuck>>
  BY DEF WriteEvent, RecordFails, Inside
<1>2. s \in Sessions /\ s # NoSession /\ f \in Files /\ e \in Events /\ e \in Line
  BY <1>1, TargetMeans DEF Line
<1>3. /\ data \in [Files -> Seq(Line)] /\ fds \in [Sessions -> Files \cup {NoFile}]
      /\ partial \in [Sessions -> Files \cup {NoFile}] /\ opens \in [Sessions -> Nat]
      /\ tears \in [Sessions -> Nat] /\ recorded \in [Sessions -> Seq(Events)]
  BY <1>0 DEF RecorderTyped, RecorderTypeOK, Line
<1>4. data[f] \in Seq(Line) /\ Header \in Line /\ Torn \in Line /\ e # Torn /\ Header # Torn
  BY <1>2, <1>3 DEF Line, Header, Torn
<1>5. ~TornEnd(<<>>) /\ Append(<<>>, Header) = <<Header>>
  <2>1. \A x : Append(<<>>, x) = <<x>>
    OBVIOUS
  <2> QED
    BY <2>1 DEF TornEnd
<1> DEFINE opened == Written(data[f], Header)
<1>6. /\ opened \in Seq(Line) /\ Range(data[f]) \ {Torn} \subseteq Range(opened) /\ ~TornEnd(opened)
      /\ data[f] = <<>> => opened = <<Header>>
  BY <1>4, <1>5, LineAppended DEF Written
<1> HIDE DEF e, s, f, known, opened
<1>7. CASE WriteEvent(w)
  <2> DEFINE before == IF known THEN data[f] ELSE opened
             lines == Written(before, e)
  <2>1. /\ data' = [data EXCEPT ![f] = lines]
        /\ fds' = [fds EXCEPT ![s] = f]
        /\ partial' = [partial EXCEPT ![s] = IF known THEN @ ELSE f]
        /\ files' = IF f > files THEN f ELSE files
        /\ opens' = [opens EXCEPT ![s] = IF known THEN @ ELSE @ + 1]
        /\ recorded' = [recorded EXCEPT ![s] = Append(@, e)]
        /\ current' = current \cup {e} /\ tears' = tears
    BY <1>7 DEF WriteEvent, e, s, f, known, opened
  <2>2. before \in Seq(Line) /\ Range(data[f]) \ {Torn} \subseteq Range(before)
        /\ (~known => ~TornEnd(before))
    BY <1>4, <1>6
  <2> HIDE DEF before
  <2>3. /\ lines \in Seq(Line) /\ ~TornEnd(lines)
        /\ Range(before) \ {Torn} \subseteq Range(lines)
        /\ ~TornEnd(before) => lines = Append(before, e) /\ e \in Range(lines)
    BY <1>2, <1>4, <2>2, LineAppended DEF Written
  <2>4. /\ e \in Range(lines) \/ (known /\ TornEnd(data[f]))
        /\ known /\ ~TornEnd(data[f]) => lines = Append(data[f], e)
        /\ ~known /\ data[f] = <<>> => lines = Append(<<Header>>, e)
    <3>1. CASE known
      BY <2>3, <3>1 DEF before
    <3>2. CASE ~known
      <4>1. lines = Append(before, e) /\ e \in Range(lines) /\ before = opened
        BY <2>2, <2>3, <3>2 DEF before
      <4> QED
        BY <1>5, <1>6, <3>2, <4>1
    <3> QED
      BY <3>1, <3>2
  <2> HIDE DEF lines
  <2>5. \A t \in Sessions : t # s =>
          /\ fds'[t] = fds[t] /\ partial'[t] = partial[t] /\ opens'[t] = opens[t]
          /\ tears'[t] = tears[t] /\ recorded'[t] = recorded[t]
    BY <1>3, <2>1
  <2>6. /\ partial'[s] = IF known THEN partial[s] ELSE f
        /\ opens'[s] = IF known THEN opens[s] ELSE opens[s] + 1
        /\ fds'[s] = f /\ tears'[s] = tears[s] /\ recorded'[s] = Append(recorded[s], e)
    BY <1>2, <1>3, <2>1
  <2>7. Range(data[f]) \ {Torn} \subseteq Range(lines)
    BY <2>2, <2>3
  <2>8. Wrote(w, f, lines)
    BY <2>1, <2>3, <2>4, <2>5, <2>6, <2>7 DEF Wrote, e, s, known
  <2> QED
    BY <1>1, <2>8 DEF e, s, f
<1>8. CASE RecordFails(w) /\ ~UNCHANGED <<fds, partial, data, files, opens, tears>>
  <2>0. recorded' = recorded /\ current' = current
    BY <1>8 DEF RecordFails
  <2>1. PICK header \in BOOLEAN :
          /\ header => ~known
          /\ LET before == IF known \/ header THEN data[f] ELSE opened IN
               \E lines \in FailedWrites(before) :
                 /\ data' = [data EXCEPT ![f] = lines]
                 /\ tears' = [tears EXCEPT ![s] = IF lines = before THEN @ ELSE @ + 1]
          /\ fds' = [fds EXCEPT ![s] = IF header THEN NoFile ELSE f]
          /\ partial' = [partial EXCEPT ![s] = IF known THEN @ ELSE f]
          /\ files' = IF f > files THEN f ELSE files
          /\ opens' = [opens EXCEPT ![s] = IF known THEN @ ELSE @ + 1]
    BY <1>8 DEF RecordFails, e, s, f, known, opened
  <2> DEFINE before == IF known \/ header THEN data[f] ELSE opened
  <2>2. PICK lines \in FailedWrites(before) :
          /\ data' = [data EXCEPT ![f] = lines]
          /\ tears' = [tears EXCEPT ![s] = IF lines = before THEN @ ELSE @ + 1]
    BY <2>1
  <2>3. before \in Seq(Line) /\ Range(data[f]) \ {Torn} \subseteq Range(before)
        /\ (TornEnd(before) => TornEnd(data[f]))
    BY <1>4, <1>6
  <2>4. lines \in Seq(Line) /\ Range(data[f]) \ {Torn} \subseteq Range(lines)
    <3>1. CASE lines = before
      BY <2>3, <3>1
    <3>2. CASE lines = AppendLine(before, Torn)
      <4> HIDE DEF before
      <4>1. lines \in Seq(Line) /\ Range(before) \ {Torn} \subseteq Range(lines)
        BY <1>4, <2>3, <3>2, LineAppended
      <4> QED
        BY <2>3, <4>1
    <3> QED
      BY <2>2, <3>1, <3>2 DEF FailedWrites
  <2>5. /\ fds'[s] \in {f, NoFile} /\ (known => fds'[s] = f)
        /\ \/ tears'[s] = tears[s] + 1
           \/ /\ tears'[s] = tears[s] /\ (TornEnd(lines) => TornEnd(data[f]))
              /\ \/ lines = data[f] /\ (known \/ fds'[s] = NoFile)
                 \/ ~known /\ fds'[s] = f /\ (data[f] = <<>> => lines = <<Header>>)
    <3>1. fds'[s] = IF header THEN NoFile ELSE f
      BY <1>2, <1>3, <2>1
    <3>2. CASE lines # before
      BY <1>2, <1>3, <2>1, <2>2, <3>1, <3>2
    <3>3. CASE lines = before
      <4>1. tears'[s] = tears[s]
        BY <1>2, <1>3, <2>2, <3>3
      <4> QED
        BY <1>6, <2>1, <2>3, <3>1, <3>3, <4>1
    <3> QED
      BY <3>2, <3>3
  <2> HIDE DEF before
  <2>6. \A t \in Sessions : t # s =>
          /\ fds'[t] = fds[t] /\ partial'[t] = partial[t] /\ opens'[t] = opens[t]
          /\ tears'[t] = tears[t] /\ recorded'[t] = recorded[t]
    BY <1>3, <2>0, <2>1, <2>2
  <2>7. /\ partial'[s] = IF known THEN partial[s] ELSE f
        /\ opens'[s] = IF known THEN opens[s] ELSE opens[s] + 1
    BY <1>2, <1>3, <2>1
  <2>8. Wrote(w, f, lines)
    BY <2>0, <2>1, <2>2, <2>4, <2>5, <2>6, <2>7 DEF Wrote, e, s, known
  <2> QED
    BY <1>1, <2>8 DEF e, s, f
<1>9. CASE RecordFails(w) /\ UNCHANGED <<fds, partial, data, files, opens, tears>>
  BY <1>1, <1>9 DEF RecordFails
<1> QED
  BY <1>7, <1>8, <1>9

(***************************************************************************)
(* How the parts of the recorder's invariant survive a write.              *)
(***************************************************************************)
LEMMA WriteTyped ==
    ASSUME RecorderInv, Counted, Counted', NEW w \in Writers, WriteEvent(w) \/ RecordFails(w),
           UNCHANGED <<next, emitted>>
    PROVE  RecorderTyped' /\ FilesLeft' /\ FilesApart'
<1> USE EmissionAssumption
<1>e. PICK e : e = recording[w]
  OBVIOUS
<1>s. PICK s : s = origin[e]
  OBVIOUS
<1>f. PICK f : f = Target(s)
  OBVIOUS
<1> USE <1>e, <1>s, <1>f
<1>0. RecorderTyped /\ FilesLeft /\ FilesApart
  BY DEF RecorderInv
<1>1. w \in Inside /\ recording' = [recording EXCEPT ![w] = NoEvent]
      /\ UNCHANGED <<origin, started, final, stop, renames, raced, stuck>>
  BY WriteMeans
<1>2. /\ s \in Sessions /\ s # NoSession /\ f \in Files /\ e \in Events
      /\ f \in 1..(files + 1) /\ files + 1 <= emitted
      /\ \/ f \in Names(s) /\ f \in 1..files /\ f \in {fds[s], partial[s]}
         \/ fds[s] = NoFile /\ partial[s] = NoFile /\ f = files + 1 /\ \A t \in Sessions : f \notin Names(t)
      /\ \A t \in Sessions : t # s => f \notin Names(t)
  BY <1>1, TargetMeans
<1>3. Inside' = Inside \ {w}
  BY <1>0, <1>1 DEF Inside, RecorderTyped, RecorderTypeOK
<1>4. IsFiniteSet(Inside') /\ Cardinality(Inside') = Cardinality(Inside) - 1 /\ Cardinality(Inside) \in Nat
  BY <1>0, <1>1, <1>3, FS_RemoveElement, FS_CardinalityType DEF FilesLeft
<1>5. files \in Nat /\ emitted \in Nat /\ files + Cardinality(Inside) <= emitted
  BY <1>0 DEF FilesLeft, RecorderTyped, RecorderTypeOK, Counted
<1>6. recording' \in [Writers -> Events \cup {NoEvent}]
      /\ \A v \in Inside' : recording'[v] = next'[v] /\ origin'[recording'[v]] # NoSession
  <2>1. \A v \in Inside' : v \in Inside /\ v # w
    BY <1>3
  <2> QED
    BY <1>0, <1>1, <2>1 DEF RecorderTyped, RecorderTypeOK, Inside
<1>7. CASE UNCHANGED <<fds, partial, data, files, opens, tears, recorded, current>>
  <2>1. RecorderTyped'
    BY <1>0, <1>1, <1>6, <1>7 DEF RecorderTyped, RecorderTypeOK
  <2>2. FilesLeft'
    BY <1>4, <1>5, <1>7 DEF FilesLeft
  <2>3. FilesApart'
    BY <1>0, <1>1, <1>7 DEF FilesApart, Names
  <2> QED
    BY <2>1, <2>2, <2>3
<1>8. ASSUME NEW lines, Wrote(w, f, lines) PROVE RecorderTyped' /\ FilesLeft' /\ FilesApart'
  <2> USE <1>8
  <2>0. files' = IF f > files THEN f ELSE files
    BY Zenon DEF Wrote
  <2>1. files' \in {files, files + 1} /\ f <= files' /\ files <= files' /\ files' <= files + 1
        /\ (f \in 1..files => files' = files)
    BY <1>2, <1>5, <2>0
  <2>2. files' \in Events \cup {0}
    BY <1>0, <1>2, <1>5, <2>1 DEF Counted, RecorderTyped, RecorderTypeOK
  <2>3. FilesLeft'
    <3>1. emitted' = emitted
      OBVIOUS
    <3> QED
      BY <1>4, <1>5, <2>1, <3>1 DEF FilesLeft
  <2>4. /\ fds'[s] \in {f, NoFile} /\ partial'[s] \in {partial[s], f}
        /\ (fds[s] # NoFile => partial'[s] = partial[s]) /\ (fds[s] = NoFile => partial'[s] = f)
        /\ \A t \in Sessions : t # s =>
              /\ fds'[t] = fds[t] /\ partial'[t] = partial[t] /\ opens'[t] = opens[t]
              /\ tears'[t] = tears[t] /\ recorded'[t] = recorded[t]
    BY DEF Wrote
  <2>5. DOMAIN fds' = Sessions /\ DOMAIN partial' = Sessions /\ DOMAIN opens' = Sessions
        /\ DOMAIN tears' = Sessions /\ DOMAIN recorded' = Sessions
        /\ fds' = [t \in Sessions |-> fds'[t]] /\ partial' = [t \in Sessions |-> partial'[t]]
        /\ opens' = [t \in Sessions |-> opens'[t]] /\ tears' = [t \in Sessions |-> tears'[t]]
        /\ recorded' = [t \in Sessions |-> recorded'[t]]
    BY <1>0 DEF WriteEvent, RecordFails, RecorderTyped, RecorderTypeOK
  <2>6. /\ fds'[s] \in Files \cup {NoFile} /\ partial'[s] \in Files \cup {NoFile}
        /\ opens'[s] \in Nat /\ tears'[s] \in Nat /\ recorded'[s] \in Seq(Events)
        /\ current' \subseteq current \cup {e}
    <3>1. partial[s] \in Files \cup {NoFile} /\ opens[s] \in Nat /\ tears[s] \in Nat
          /\ recorded[s] \in Seq(Events)
      BY <1>0, <1>2 DEF RecorderTyped, RecorderTypeOK
    <3>a. opens'[s] = opens[s] \/ opens'[s] = opens[s] + 1
      BY ZenonT(30) DEF Wrote
    <3>2. opens'[s] \in Nat
      BY <3>1, <3>a
    <3>3. tears'[s] \in {tears[s], tears[s] + 1} /\ recorded'[s] \in {recorded[s], Append(recorded[s], e)}
          /\ current' \subseteq current \cup {e}
      BY DEF Wrote
    <3>4. Append(recorded[s], e) \in Seq(Events)
      BY <1>2, <3>1
    <3>5. tears'[s] \in Nat
      BY <3>1, <3>3
    <3>6. recorded'[s] \in Seq(Events)
      BY <3>1, <3>3, <3>4
    <3>7. fds'[s] \in Files \cup {NoFile} /\ partial'[s] \in Files \cup {NoFile}
      BY <1>2, <2>4, <3>1
    <3> QED
      BY <3>2, <3>3, <3>5, <3>6, <3>7
  <2>7. /\ fds' \in [Sessions -> Files \cup {NoFile}] /\ partial' \in [Sessions -> Files \cup {NoFile}]
        /\ opens' \in [Sessions -> Nat] /\ tears' \in [Sessions -> Nat]
        /\ recorded' \in [Sessions -> Seq(Events)]
    <3>1. \A t \in Sessions :
            /\ fds'[t] \in Files \cup {NoFile} /\ partial'[t] \in Files \cup {NoFile}
            /\ opens'[t] \in Nat /\ tears'[t] \in Nat /\ recorded'[t] \in Seq(Events)
      BY <1>0, <2>4, <2>6 DEF RecorderTyped, RecorderTypeOK
    <3> QED
      BY <2>5, <3>1
  <2>8. data' \in [Files -> Seq(Line)]
    BY <1>0, <1>2 DEF Wrote, RecorderTyped, RecorderTypeOK, Line
  <2>9. RecorderTyped'
    <3>1. /\ origin' \in [Events -> Sessions \cup {NoSession}]
          /\ started' \in BOOLEAN /\ raced' \in BOOLEAN /\ stuck' \subseteq Sessions
          /\ final' \in [Sessions -> Files \cup {NoFile}] /\ renames' \in [Sessions -> Nat]
          /\ stop' \in [at : {"no", "loop", "done"}, todo : SUBSET Sessions, id : Sessions \cup {NoSession}]
      BY <1>0, <1>1 DEF RecorderTyped, RecorderTypeOK
    <3>2. /\ current' \subseteq Events
          /\ \A x \in current' : origin'[x] \in Sessions /\ origin'[x] # NoSession
      BY <1>0, <1>1, <1>2, <2>6 DEF RecorderTyped, RecorderTypeOK
    <3> QED
      BY <1>6, <2>2, <2>7, <2>8, <3>1, <3>2 DEF RecorderTyped, RecorderTypeOK, Line
  <2>10. FilesApart'
    <3>0. \A t \in Sessions : t # s => Names(t)' = Names(t)
      BY <1>1, <2>4 DEF Names
    <3>1. Names(s)' \subseteq Names(s) \cup {f}
      BY <1>1, <1>2, <2>4 DEF Names
    <3>2. \A t \in Sessions : Names(t)' \subseteq 1..files'
      <4>1. \A t \in Sessions : Names(t) \subseteq 1..files'
        BY <1>0, <1>5, <2>1 DEF FilesApart
      <4>2. f \in 1..files'
        BY <1>2, <1>5, <2>1
      <4> QED
        BY <1>2, <3>0, <3>1, <4>1, <4>2
    <3>3. \A t, u \in Sessions : t # u => Names(t)' \cap Names(u)' = {}
      BY <1>0, <1>2, <3>0, <3>1 DEF FilesApart
    <3>4. \A t \in Sessions : partial'[t] # NoFile => partial'[t] # final'[t]
      <4>1. ASSUME fds[s] = NoFile, partial[s] = NoFile PROVE f # final[s]
        <5>1. f \notin Names(s) /\ f # NoFile
          BY <1>2, <1>5, <4>1 DEF Names, NoFile
        <5> QED
          BY <5>1 DEF Names
      <4>2. fds[s] = NoFile /\ partial[s] # NoFile => f = partial[s]
        BY DEF Target
      <4> QED
        BY <1>0, <1>1, <2>4, <4>1, <4>2 DEF FilesApart
    <3>5. \A g \in Files : g > files' => data'[g] = <<>>
      <4>1. \A g \in Files : g > files' => g > files /\ g # f
        BY <1>2, <1>5, <2>1 DEF Files
      <4> QED
        BY <1>0, <1>2, <4>1 DEF FilesApart, Wrote, RecorderTyped, RecorderTypeOK
    <3> QED
      BY <3>2, <3>3, <3>4, <3>5 DEF FilesApart
  <2> QED
    BY <2>3, <2>9, <2>10
<1> QED
  BY <1>7, <1>8, WriteMeans

\* A session none of whose files is written keeps what it has.
LEMMA SessionUntouched ==
    ASSUME NEW t \in Sessions, SessionKept(t),
           UNCHANGED <<partial[t], final[t], fds[t], recorded[t], opens[t], tears[t], renames[t]>>,
           \A g \in Names(t) : data'[g] = data[g]
    PROVE  SessionKept(t)'
<1>1. Names(t)' = Names(t) /\ Names2(t)' = Names2(t) /\ Names2(t) \subseteq Names(t)
  BY DEF Names, Names2
<1>2. Lines(partial[t])' = Lines(partial[t]) /\ Lines(final[t])' = Lines(final[t])
  BY DEF Lines, Names
<1>3. \A g \in Names(t) : IsTorn(g)' <=> IsTorn(g)
  BY DEF IsTorn, TornEnd
<1>4. Lost(t)' = Lost(t) /\ TornEnds(t)' = TornEnds(t)
  BY <1>1, <1>2, <1>3 DEF Lost, TornEnds
<1>5. \A g \in Files : OnlyFile(t, g) => OnlyFile(t, g)'
  BY <1>1 DEF OnlyFile
<1> QED
  BY <1>1, <1>3, <1>4, <1>5 DEF SessionKept

\* One that is renamed keeps it too, as long as nothing is replaced.
LEMMA SessionRenamed ==
    ASSUME NEW t \in Sessions, SessionKept(t), FilesApart, data' = data,
           UNCHANGED <<recorded[t], opens[t], tears[t]>>,
           partial[t] # NoFile, partial'[t] = NoFile, final'[t] = partial[t],
           renames[t] \in Nat, renames'[t] = renames[t] + 1,
           fds'[t] \in {fds[t], NoFile}
    PROVE  SessionKept(t)'
<1>1. renames'[t] # 0 /\ (renames'[t] <= 1 => renames[t] = 0 /\ final[t] = NoFile)
  BY DEF SessionKept
<1>2. Names(t)' \subseteq Names(t)
  BY DEF Names
<1>3. \A g : IsTorn(g)' <=> IsTorn(g)
  BY DEF IsTorn
<1>4. opens[t] = 0 => Names(t)' = {}
  BY <1>2 DEF SessionKept
<1>5. renames'[t] <= 1 => /\ fds'[t] \in {NoFile, partial'[t], final'[t]}
                          /\ Lost(t)' = Lost(t) /\ TornEnds(t)' = TornEnds(t)
  <2> SUFFICES ASSUME renames[t] = 0, final[t] = NoFile
               PROVE  /\ fds'[t] \in {NoFile, partial'[t], final'[t]}
                      /\ Lost(t)' = Lost(t) /\ TornEnds(t)' = TornEnds(t)
    BY <1>1
  <2>1. fds'[t] \in {NoFile, partial'[t], final'[t]}
    BY DEF SessionKept
  <2>2. Names2(t)' = Names2(t)
    BY DEF Names2
  <2>3. Lines(partial[t])' = Lines(final[t]) /\ Lines(final[t])' = Lines(partial[t])
    BY DEF Lines
  <2>4. Lost(t)' = Lost(t)
    BY <2>3 DEF Lost
  <2> QED
    BY <1>3, <2>1, <2>2, <2>4 DEF TornEnds
<1>6. \A g \in Files : OnlyFile(t, g) => OnlyFile(t, g)'
  <2> SUFFICES ASSUME NEW g \in Files, OnlyFile(t, g) PROVE OnlyFile(t, g)'
    OBVIOUS
  <2>1. partial[t] = g /\ final[t] = NoFile
    BY DEF OnlyFile, Names2, FilesApart
  <2>2. Names2(t)' = {g}
    BY <2>1 DEF Names2
  <2> QED
    BY <2>2 DEF OnlyFile
<1> QED
  BY <1>1, <1>2, <1>3, <1>4, <1>5, <1>6 DEF SessionKept

\* At most m elements in the two sets.
Fits(P, T, m) ==
    m \in Nat /\ IsFiniteSet(P) /\ IsFiniteSet(T) /\ Cardinality(P) + Cardinality(T) <= m

\* Less than what fits still fits.
LEMMA FewerFit ==
    ASSUME NEW P, NEW T, NEW m, Fits(P, T, m), NEW Q, Q \subseteq P, NEW U, U \subseteq T
    PROVE  Fits(Q, U, m)
<1>1. /\ IsFiniteSet(Q) /\ Cardinality(Q) \in Nat /\ Cardinality(Q) <= Cardinality(P)
      /\ IsFiniteSet(U) /\ Cardinality(U) \in Nat /\ Cardinality(U) <= Cardinality(T)
  BY FS_Subset, FS_CardinalityType DEF Fits
<1>2. Cardinality(P) \in Nat /\ Cardinality(T) \in Nat
  BY FS_CardinalityType DEF Fits
<1> QED
  BY <1>1, <1>2 DEF Fits

\* One element more fits one more.
LEMMA OneMoreFits ==
    ASSUME NEW P, NEW T, NEW m, Fits(P, T, m), NEW x
    PROVE  Fits(P, T \cup {x}, m + 1)
<1>1. /\ IsFiniteSet(T \cup {x}) /\ Cardinality(T \cup {x}) \in Nat
      /\ Cardinality(T \cup {x}) \in {Cardinality(T), Cardinality(T) + 1}
  BY FS_AddElement, FS_CardinalityType DEF Fits
<1>2. Cardinality(P) \in Nat /\ Cardinality(T) \in Nat
  BY FS_CardinalityType DEF Fits
<1> QED
  BY <1>1, <1>2 DEF Fits

\* One element more in the first and one less in the second fit as before.
LEMMA TradedFit ==
    ASSUME NEW P, NEW T, NEW m, Fits(P, T, m), NEW x, NEW y \in T
    PROVE  Fits(P \cup {x}, T \ {y}, m)
<1>1. /\ IsFiniteSet(P \cup {x}) /\ Cardinality(P \cup {x}) \in Nat
      /\ Cardinality(P \cup {x}) \in {Cardinality(P), Cardinality(P) + 1}
  BY FS_AddElement, FS_CardinalityType DEF Fits
<1>2. IsFiniteSet(T \ {y}) /\ Cardinality(T \ {y}) = Cardinality(T) - 1
  BY FS_RemoveElement DEF Fits
<1>3. Cardinality(P) \in Nat /\ Cardinality(T) \in Nat
  BY FS_CardinalityType DEF Fits
<1> QED
  BY <1>1, <1>2, <1>3 DEF Fits

\* What is lost of a session, before and after a step.
LEMMA LostMeans ==
    ASSUME NEW s
    PROVE  /\ \A x : x \in Lost(s) <=> x \in Range(recorded[s])
                                       /\ \A g \in Names2(s) : x \notin Range(data[g])
           /\ \A x : x \in Lost(s)' <=> x \in Range(recorded[s])'
                                        /\ \A g \in Names2(s)' : x \notin Range(data'[g])
           /\ IsFiniteSet(TornEnds(s))
<1>1. Range(<<>>) = {}
  BY RangeEmpty
<1>2. /\ \A x : x \in Range(Lines(partial[s])) \cup Range(Lines(final[s])) <=>
                  \E g \in Names2(s) : x \in Range(data[g])
      /\ \A x : (x \in Range(Lines(partial[s])) \cup Range(Lines(final[s])))' <=>
                  \E g \in Names2(s)' : x \in Range(data'[g])
  BY <1>1 DEF Lines, Names2
<1>3. TornEnds(s) \subseteq {partial[s], final[s]}
  BY DEF TornEnds, Names2
<1>4. IsFiniteSet({partial[s], final[s]})
  <2>1. IsFiniteSet({partial[s]} \cup {final[s]})
    BY FS_Singleton, FS_AddElement
  <2> QED
    BY <2>1
<1>5. IsFiniteSet(TornEnds(s))
  BY <1>3, <1>4, FS_Subset
<1> QED
  BY <1>2, <1>5 DEF Lost

\* A head before an appended sequence.
LEMMA ConcatAppend ==
    ASSUME NEW S, NEW q \in Seq(S), NEW x \in S, NEW h \in S
    PROVE  <<h>> \o Append(q, x) = Append(<<h>> \o q, x)
  OBVIOUS

\* A write leaves what is known of every session true.
LEMMA WriteKeeps ==
    ASSUME RecorderInv, Counted, NEW w \in Writers, WriteEvent(w) \/ RecordFails(w)
    PROVE  \A t \in Sessions : SessionKept(t)'
<1> USE EmissionAssumption
<1>e. PICK e : e = recording[w]
  OBVIOUS
<1>s. PICK s : s = origin[e]
  OBVIOUS
<1>f. PICK f : f = Target(s)
  OBVIOUS
<1>0. RecorderTyped /\ FilesApart /\ \A t \in Sessions : SessionKept(t)
  BY DEF RecorderInv
<1>1. w \in Inside /\ UNCHANGED <<final, renames>>
  BY WriteMeans
<1>2. /\ s \in Sessions /\ f \in Files /\ e \in Events /\ f # NoFile
      /\ \/ f \in Names(s) /\ f \in {fds[s], partial[s]}
         \/ fds[s] = NoFile /\ partial[s] = NoFile /\ data[f] = <<>>
      /\ \A t \in Sessions : t # s => f \notin Names(t)
  BY <1>1, <1>e, <1>s, <1>f, TargetMeans DEF Files, NoFile, NoEvent
<1>t. /\ opens[s] \in Nat /\ tears[s] \in Nat /\ renames[s] \in Nat
      /\ recorded[s] \in Seq(Events) /\ data[f] \in Seq(Line)
      /\ data \in [Files -> Seq(Line)] /\ Names(s) \subseteq Files
  BY <1>0, <1>2 DEF RecorderTyped, RecorderTypeOK, Line, Names
<1>3. CASE UNCHANGED <<fds, partial, data, files, opens, tears, recorded, current>>
  BY <1>0, <1>1, <1>3, SessionUntouched
<1>4. ASSUME NEW lines, Wrote(w, f, lines) PROVE \A t \in Sessions : SessionKept(t)'
  <2> DEFINE known == fds[s] # NoFile
             done ==
               /\ fds'[s] = f /\ tears'[s] = tears[s] /\ recorded'[s] = Append(recorded[s], e)
               /\ ~TornEnd(lines)
               /\ e \in Range(lines) \/ (known /\ TornEnd(data[f]))
               /\ known /\ ~TornEnd(data[f]) => lines = Append(data[f], e)
               /\ ~known /\ data[f] = <<>> => lines = Append(<<Header>>, e)
             tore == recorded'[s] = recorded[s] /\ tears'[s] = tears[s] + 1
             bare ==
               /\ recorded'[s] = recorded[s] /\ tears'[s] = tears[s]
               /\ TornEnd(lines) => TornEnd(data[f])
               /\ \/ lines = data[f] /\ (known \/ fds'[s] = NoFile)
                  \/ ~known /\ fds'[s] = f /\ (data[f] = <<>> => lines = <<Header>>)
  <2>1. /\ lines \in Seq(Line) /\ data' = [data EXCEPT ![f] = lines]
        /\ \A t \in Sessions : t # s =>
              /\ fds'[t] = fds[t] /\ partial'[t] = partial[t] /\ opens'[t] = opens[t]
              /\ tears'[t] = tears[t] /\ recorded'[t] = recorded[t]
        /\ partial'[s] = IF known THEN partial[s] ELSE f
        /\ opens'[s] = IF known THEN opens[s] ELSE opens[s] + 1
        /\ Range(data[f]) \ {Torn} \subseteq Range(lines)
        /\ fds'[s] \in {f, NoFile} /\ (known => fds'[s] = f)
    BY <1>4, <1>e, <1>s DEF Wrote
  <2>2. done \/ tore \/ bare
    BY <1>4, <1>e, <1>s DEF Wrote
  <2> HIDE DEF done, tore, bare
  <2>3. data'[f] = lines /\ \A g \in Files : g # f => data'[g] = data[g]
    BY <1>2, <1>t, <2>1
  <2>4. ASSUME NEW t \in Sessions, t # s PROVE SessionKept(t)'
    <3>1. \A g \in Names(t) : data'[g] = data[g]
      BY <1>0, <1>2, <2>3, <2>4, SMTT(30) DEF RecorderTyped, RecorderTypeOK, Names
    <3> QED
      BY <1>0, <1>1, <2>1, <2>4, <3>1, SessionUntouched
  <2>5. SessionKept(s)'
    <3>0. SessionKept(s)
      BY <1>0, <1>2
    <3>1. /\ Names2(s) \subseteq Names(s) /\ Names2(s)' \subseteq Names(s)'
          /\ Names(s)' \subseteq Names(s) \cup {f}
          /\ Names2(s)' \subseteq Names2(s) \cup {f}
          /\ Names2(s) \subseteq Names2(s)'
      BY <1>1, <1>2, <1>f, <2>1 DEF Names, Names2, Target
    <3>2. ~TornEnd(data[f]) \/ f \in Names(s)
      BY <1>2 DEF TornEnd
    <3>3. opens'[s] # 0
      <4>1. known => opens[s] # 0
        BY <3>0 DEF SessionKept, Names
      <4> QED
        BY <1>t, <2>1, <4>1
    <3>4. renames'[s] = 0 => final'[s] = NoFile
      BY <1>1, <3>0 DEF SessionKept
    <3>5. renames'[s] <= 1 => fds'[s] \in {NoFile, partial'[s], final'[s]}
      BY <1>1, <1>2, <1>f, <2>1, <3>0 DEF SessionKept, Target
    <3>6. \A g \in Names(s)' : IsTorn(g)' => tears'[s] > 0
      <4> SUFFICES ASSUME NEW g \in Names(s)', TornEnd(data'[g]) PROVE tears'[s] > 0
        BY DEF IsTorn
      <4>0. tears'[s] \in Nat /\ tears[s] <= tears'[s]
        BY <1>t, <2>2 DEF done, tore, bare
      <4>1. CASE g # f
        <5>1. g \in Names(s) /\ TornEnd(data[g])
          BY <1>t, <2>3, <3>1, <4>1
        <5>2. tears[s] > 0
          BY <3>0, <5>1 DEF SessionKept, IsTorn
        <5> QED
          BY <1>t, <4>0, <5>2
      <4>2. CASE g = f
        <5>1. TornEnd(lines)
          BY <2>3, <4>2
        <5>2. CASE tore
          BY <1>t, <5>2 DEF tore
        <5>3. CASE bare
          <6>1. TornEnd(data[f])
            BY <5>1, <5>3 DEF bare
          <6>2. tears[s] > 0
            BY <3>0, <3>2, <6>1 DEF SessionKept, IsTorn
          <6> QED
            BY <1>t, <4>0, <6>2
        <5> QED
          BY <2>2, <5>1, <5>2, <5>3 DEF done
      <4> QED
        BY <4>1, <4>2
    <3>7. opens'[s] = 1 /\ tears'[s] = 0 => \E g \in Files : OnlyFile(s, g)'
      <4> SUFFICES ASSUME opens'[s] = 1, tears'[s] = 0 PROVE OnlyFile(s, f)'
        BY <1>2
      <4>1. tears[s] = 0 /\ (done \/ bare)
        BY <1>t, <2>2 DEF done, tore, bare
      <4>2. ~TornEnd(data[f])
        BY <1>t, <3>0, <3>2, <4>1 DEF SessionKept, IsTorn
      <4>3. Header \in Line /\ e \in Line /\ <<>> \in Seq(Line) /\ recorded[s] \in Seq(Line)
        <5>1. \A q \in Seq(Events) : q \in Seq(Line)
          BY DEF Line
        <5> QED
          BY <1>2, <1>t, <5>1 DEF Line
      <4>4. <<Header>> \o Append(recorded[s], e) = Append(<<Header>> \o recorded[s], e)
        BY <4>3, ConcatAppend
      <4>5. CASE known
        <5>1. opens[s] = 1
          BY <2>1, <4>5
        <5>2. PICK g \in Files : OnlyFile(s, g)
          BY <3>0, <4>1, <5>1 DEF SessionKept
        <5>3. f = fds[s] /\ f = g /\ data[f] = <<Header>> \o recorded[s] /\ Names2(s) = {f}
          BY <1>f, <4>5, <5>2 DEF Target, OnlyFile
        <5>4. Names2(s)' = {f} /\ fds'[s] = f
          BY <2>1, <3>1, <4>5, <5>3
        <5>5. lines = <<Header>> \o recorded'[s]
          <6>1. CASE done
            BY <4>2, <4>4, <4>5, <5>3, <6>1 DEF done
          <6>2. CASE bare
            BY <4>5, <5>3, <6>2 DEF bare
          <6> QED
            BY <4>1, <6>1, <6>2
        <5> QED
          BY <2>3, <5>4, <5>5 DEF OnlyFile
      <4>6. CASE ~known
        <5>1. opens[s] = 0
          BY <1>t, <2>1, <4>6
        <5>2. Names(s) = {} /\ recorded[s] = <<>> /\ data[f] = <<>>
          BY <1>2, <3>0, <5>1 DEF SessionKept
        <5>3. Names2(s)' = {f}
          <6>1. f \in Names2(s)'
            BY <1>2, <2>1, <4>6 DEF Names2
          <6> QED
            BY <3>1, <5>2, <6>1
        <5>4. <<Header>> \o <<>> = <<Header>>
          BY <4>3
        <5>5. CASE done
          BY <2>1, <2>3, <4>4, <4>6, <5>2, <5>3, <5>4, <5>5 DEF OnlyFile, done
        <5>6. CASE bare
          BY <2>1, <2>3, <4>6, <5>2, <5>3, <5>4, <5>6 DEF OnlyFile, bare
        <5> QED
          BY <4>1, <5>5, <5>6
      <4> QED
        BY <4>5, <4>6
    <3>8. ASSUME renames'[s] <= 1
          PROVE  IsFiniteSet(Lost(s)') /\ Cardinality(Lost(s)') + Cardinality(TornEnds(s)') <= tears'[s]
      <4>0. /\ IsFiniteSet(Lost(s)) /\ IsFiniteSet(TornEnds(s))
            /\ Cardinality(Lost(s)) + Cardinality(TornEnds(s)) <= tears[s]
        BY <1>1, <3>0, <3>8, LostMeans DEF SessionKept
      <4>1. f \in Names2(s)' /\ (f \in Names2(s) \/ ~TornEnd(data[f]))
        <5>1. CASE known
          <6>1. f = fds[s] /\ fds[s] \in {partial[s], final[s]}
            BY <1>1, <1>f, <3>0, <3>8, <5>1 DEF SessionKept, Target
          <6> QED
            BY <1>2, <3>1, <6>1 DEF Names2
        <5>2. CASE ~known
          <6>1. f \in Names2(s)'
            BY <1>2, <2>1, <5>2 DEF Names2
          <6>2. f = partial[s] \/ data[f] = <<>>
            BY <1>2, <5>2
          <6> QED
            BY <1>2, <6>1, <6>2 DEF Names2, TornEnd
        <5> QED
          BY <5>1, <5>2
      <4>2. \A x \in Events : \A g \in Names2(s) :
               x \in Range(data[g]) => \E h \in Names2(s)' : x \in Range(data'[h])
        <5>1. \A x \in Events : x # Torn
          BY DEF Torn
        <5> QED
          BY <1>t, <2>1, <2>3, <3>1, <4>1, <5>1
      <4>3. \A x \in Range(recorded[s]) : x \in Events
        BY <1>t, RangeIn
      <4>4. \A x : x \in Lost(s)' => x \in Lost(s) \/ x \notin Range(recorded[s])
        BY <4>2, <4>3, LostMeans
      <4>5. \A g \in TornEnds(s)' : g \in TornEnds(s) \/ g = f
        BY <1>t, <2>3, <3>1 DEF TornEnds, IsTorn
      <4>6. TornEnd(data[f]) => f \in TornEnds(s)
        BY <4>1 DEF TornEnds, IsTorn
      <4>7. f \in TornEnds(s)' => TornEnd(lines)
        BY <2>3 DEF TornEnds, IsTorn
      <4>8. tears'[s] \in Nat
        BY <1>t, <2>2 DEF done, tore, bare
      <4> DEFINE shrinks ==
                   \/ Lost(s)' \subseteq Lost(s) /\ TornEnds(s)' \subseteq TornEnds(s)
                      /\ tears'[s] = tears[s]
                   \/ /\ Lost(s)' \subseteq Lost(s) \cup {e}
                      /\ f \in TornEnds(s) /\ TornEnds(s)' \subseteq TornEnds(s) \ {f}
                      /\ tears'[s] = tears[s]
                   \/ Lost(s)' \subseteq Lost(s) /\ TornEnds(s)' \subseteq TornEnds(s) \cup {f}
                      /\ tears'[s] = tears[s] + 1
      <4>9. ASSUME done PROVE shrinks
        <5>1. Range(recorded'[s]) = Range(recorded[s]) \cup {e} /\ tears'[s] = tears[s]
          BY <1>t, <4>9, RangeAppend DEF done
        <5>2. TornEnds(s)' \subseteq TornEnds(s) \ {f}
          BY <4>5, <4>7, <4>9 DEF done
        <5>3. Lost(s)' \subseteq Lost(s) \cup {e}
          BY <4>4, <5>1, LostMeans
        <5>4. CASE e \in Range(lines)
          <6>1. e \notin Lost(s)'
            BY <2>3, <4>1, <5>4, LostMeans
          <6>2. Lost(s)' \subseteq Lost(s) /\ TornEnds(s)' \subseteq TornEnds(s)
            BY <4>4, <5>1, <5>2, <6>1, LostMeans
          <6> QED
            BY <5>1, <6>2
        <5>5. CASE TornEnd(data[f])
          <6>1. f \in TornEnds(s)
            BY <4>6, <5>5
          <6> QED
            BY <5>1, <5>2, <5>3, <6>1
        <5> QED
          BY <4>9, <5>4, <5>5 DEF done
      <4>10. ASSUME bare PROVE shrinks
        <5>1. Lost(s)' \subseteq Lost(s) /\ tears'[s] = tears[s]
          BY <4>4, <4>10, LostMeans DEF bare
        <5>2. TornEnds(s)' \subseteq TornEnds(s)
          BY <4>5, <4>6, <4>7, <4>10 DEF bare
        <5> QED
          BY <5>1, <5>2
      <4>11. ASSUME tore PROVE shrinks
        <5>1. Lost(s)' \subseteq Lost(s) /\ tears'[s] = tears[s] + 1
          BY <4>4, <4>11, LostMeans DEF tore
        <5>2. TornEnds(s)' \subseteq TornEnds(s) \cup {f}
          BY <4>5
        <5> QED
          BY <5>1, <5>2
      <4>12. shrinks
        BY <2>2, <4>9, <4>10, <4>11
      <4> HIDE DEF shrinks
      <4>p. PICK P, T, Q, U, m, n :
               /\ P = Lost(s) /\ T = TornEnds(s) /\ Q = Lost(s)' /\ U = TornEnds(s)'
               /\ m = tears[s] /\ n = tears'[s]
        OBVIOUS
      <4>13. \/ Q \subseteq P /\ U \subseteq T /\ n = m
             \/ Q \subseteq P \cup {e} /\ f \in T /\ U \subseteq T \ {f} /\ n = m
             \/ Q \subseteq P /\ U \subseteq T \cup {f} /\ n = m + 1
        BY <4>12, <4>p DEF shrinks
      <4>14. Fits(P, T, m)
        BY <1>t, <4>0, <4>p DEF Fits
      <4>15. Fits(Q, U, n)
        <5>1. Fits(P, T \cup {f}, m + 1) /\ (f \in T => Fits(P \cup {e}, T \ {f}, m))
          BY <4>14, OneMoreFits, TradedFit
        <5> QED
          BY <4>13, <4>14, <5>1, FewerFit
      <4> QED
        BY <4>15, <4>p DEF Fits
    <3> QED
      BY <3>3, <3>4, <3>5, <3>6, <3>7, <3>8 DEF SessionKept
  <2> QED
    BY <2>4, <2>5
<1> QED
  BY <1>3, <1>4, <1>e, <1>s, <1>f, WriteMeans

\* A write leaves what is known of Stop true.
LEMMA WriteStop ==
    ASSUME RecorderInv, Counted, NEW w \in Writers, WriteEvent(w) \/ RecordFails(w), phase' = phase
    PROVE  StopInv'
<1> USE EmissionAssumption
<1>e. PICK e : e = recording[w]
  OBVIOUS
<1>s. PICK s : s = origin[e]
  OBVIOUS
<1>f. PICK f : f = Target(s)
  OBVIOUS
<1>0. RecorderTyped /\ FilesApart /\ StopInv /\ \A t \in Sessions : SessionKept(t)
  BY DEF RecorderInv
<1>1. w \in Inside /\ recording' = [recording EXCEPT ![w] = NoEvent]
      /\ UNCHANGED <<origin, started, final, stop, renames, raced, stuck>>
  BY WriteMeans
<1>2. /\ s \in Sessions /\ f \in Files /\ e \in Events /\ f # NoFile
      /\ \/ f \in Names(s) /\ f \in {fds[s], partial[s]}
         \/ fds[s] = NoFile /\ partial[s] = NoFile /\ data[f] = <<>>
      /\ \A t \in Sessions : t # s => f \notin Names(t)
  BY <1>1, <1>e, <1>s, <1>f, TargetMeans DEF Files, NoFile, NoEvent
<1>3. Inside' \subseteq Inside
  BY <1>0, <1>1 DEF Inside, RecorderTyped, RecorderTypeOK
<1>4. phase # "down" /\ (stop.at # "no" => raced)
  BY <1>0, <1>1 DEF StopInv
<1>5. CASE UNCHANGED <<fds, partial, data, files, opens, tears, recorded, current>>
  <2>1. \A x, g : InLines(x, g)' <=> InLines(x, g)
    BY <1>5 DEF InLines
  <2> QED
    BY <1>0, <1>1, <1>3, <1>5, <2>1 DEF StopInv
<1>6. ASSUME NEW lines, Wrote(w, f, lines) PROVE StopInv'
  <2> DEFINE known == fds[s] # NoFile
  <2>1. /\ lines \in Seq(Line) /\ data' = [data EXCEPT ![f] = lines]
        /\ \A t \in Sessions : t # s =>
              fds'[t] = fds[t] /\ partial'[t] = partial[t] /\ tears'[t] = tears[t]
        /\ partial'[s] = IF known THEN partial[s] ELSE f
        /\ Range(data[f]) \ {Torn} \subseteq Range(lines)
        /\ fds'[s] \in {f, NoFile} /\ (known => fds'[s] = f)
        /\ tears'[s] \in {tears[s], tears[s] + 1}
        /\ \/ current' = current
           \/ /\ current' = current \cup {e} /\ fds'[s] = f /\ tears'[s] = tears[s]
              /\ e \in Range(lines) \/ (known /\ TornEnd(data[f]))
    BY <1>6, <1>e, <1>s DEF Wrote
  <2>2. data \in [Files -> Seq(Line)] /\ tears[s] \in Nat
        /\ data'[f] = lines /\ \A g \in Files : g # f => data'[g] = data[g]
    BY <1>0, <1>2, <2>1 DEF RecorderTyped, RecorderTypeOK, Line
  <2>3. tears'[s] = 0 => tears[s] = 0
    BY <2>1, <2>2
  <2>4. tears[s] = 0 => ~TornEnd(data[f])
    <3>1. ~TornEnd(data[f]) \/ f \in Names(s)
      BY <1>2 DEF TornEnd
    <3> QED
      BY <1>0, <1>2, <3>1 DEF SessionKept, IsTorn
  <2>5. stop.at = "no" => \A t \in Sessions : fds'[t] # NoFile => partial'[t] = fds'[t]
    <3>1. known => f = fds[s]
      BY <1>f DEF Target
    <3> QED
      BY <1>0, <2>1, <3>1 DEF StopInv
  <2>6. ASSUME NEW x \in current', stop.at = "no"
        PROVE  fds'[origin[x]] # NoFile /\ (tears'[origin[x]] = 0 => InLines(x, partial[origin[x]])')
    <3>0. x \in current \/ x = e
      BY <2>1
    <3>1. CASE origin[x] # s
      <4>1. PICK u : u = origin[x]
        OBVIOUS
      <4>2. x \in current /\ u \in Sessions /\ u # s
        BY <1>0, <1>s, <3>0, <3>1, <4>1 DEF RecorderTyped
      <4>3. fds[u] # NoFile /\ (tears[u] = 0 => InLines(x, partial[u]))
        BY <1>0, <2>6, <4>1, <4>2 DEF StopInv
      <4>4. partial[u] # NoFile => partial[u] \in Files /\ partial[u] # f
        BY <1>0, <1>2, <4>2 DEF Names, RecorderTyped, RecorderTypeOK
      <4> QED
        BY <1>1, <2>1, <2>2, <4>1, <4>2, <4>3, <4>4 DEF InLines
    <3>2. CASE origin[x] = s /\ x \in current
      <4>1. known /\ (tears[s] = 0 => InLines(x, partial[s])) /\ partial[s] = fds[s]
        BY <1>0, <1>2, <2>6, <3>2 DEF StopInv
      <4>2. f = fds[s]
        BY <1>f, <4>1 DEF Target
      <4>3. x # Torn
        BY <1>0, <3>2 DEF RecorderTyped, RecorderTypeOK, Torn
      <4> QED
        BY <1>1, <1>2, <2>1, <2>2, <2>3, <3>2, <4>1, <4>2, <4>3 DEF InLines
    <3>3. CASE x = e /\ x \notin current
      <4>1. fds'[s] = f /\ tears'[s] = tears[s] /\ (tears[s] = 0 => e \in Range(lines))
        BY <2>1, <2>4, <3>3
      <4>2. partial'[s] = f
        BY <1>2, <2>5, <2>6, <4>1
      <4> QED
        BY <1>1, <1>2, <1>s, <2>2, <3>3, <4>1, <4>2 DEF InLines
    <3> QED
      BY <1>s, <3>0, <3>1, <3>2, <3>3
  <2>7. \A x \in current' :
          /\ stop'.at = "no" => fds'[origin'[x]] # NoFile
          /\ (stop'.at = "no" \/ ~raced') /\ tears'[origin'[x]] = 0 =>
                IF stop'.at = "no" \/ origin'[x] \in stop'.todo \cup {stop'.id}
                  THEN InLines(x, partial[origin[x]])'
                  ELSE origin'[x] \in stuck' \/ InLines(x, final[origin[x]])'
    BY <1>1, <1>4, <2>6
  <2> QED
    BY <1>0, <1>1, <1>3, <1>4, <2>5, <2>7 DEF StopInv
<1> QED
  BY <1>5, <1>6, <1>e, <1>s, <1>f, WriteMeans

(***************************************************************************)
(* The other steps: those that only enter, those of Stop, and the ends of  *)
(* the process.                                                            *)
(***************************************************************************)
LEMMA DirectoryStays ==
    ASSUME RecorderInv, UNCHANGED <<partial, final, data, files, recorded, opens, tears, renames>>,
           \A t \in Sessions : fds'[t] \in {fds[t], NoFile}
    PROVE  FilesApart' /\ \A t \in Sessions : SessionKept(t)'
<1>0. FilesApart /\ \A t \in Sessions : SessionKept(t)
  BY DEF RecorderInv
<1>1. \A t \in Sessions : Names(t)' \subseteq Names(t) /\ Names2(t)' = Names2(t)
  BY DEF Names, Names2
<1>2. FilesApart'
  BY <1>0, <1>1 DEF FilesApart
<1>3. \A g : IsTorn(g)' <=> IsTorn(g)
  BY DEF IsTorn
<1>4. ASSUME NEW t \in Sessions PROVE SessionKept(t)'
  <2>1. Lost(t)' = Lost(t) /\ TornEnds(t)' = TornEnds(t)
    BY <1>1, <1>3 DEF Lost, Lines, TornEnds
  <2>2. \A g \in Files : OnlyFile(t, g) => OnlyFile(t, g)'
    BY <1>1 DEF OnlyFile
  <2> QED
    BY <1>0, <1>1, <1>3, <2>1, <2>2 DEF SessionKept
<1> QED
  BY <1>2, <1>4

\* Every step but a write keeps the recorder's invariant.
LEMMA RecorderElseStep ==
    ASSUME RecorderInv, StorageTyped, Counted', [Next]_vars
    PROVE  \/ RecorderInv'
           \/ \E w \in Writers : (WriteEvent(w) \/ RecordFails(w)) /\ UNCHANGED <<phase, next, emitted>>
<1> USE EmissionAssumption
<1>0. /\ RecorderTyped /\ FilesLeft /\ FilesApart /\ StopInv /\ \A t \in Sessions : SessionKept(t)
  BY DEF RecorderInv
<1>t. /\ files \in Nat /\ emitted \in Nat /\ next \in [Writers -> Events \cup {NoEvent}]
      /\ IsFiniteSet(Inside) /\ Cardinality(Inside) \in Nat
      /\ files + Cardinality(Inside) <= emitted
  BY <1>0, FS_CardinalityType DEF FilesLeft, RecorderTyped, RecorderTypeOK, StorageTyped
<1>1. ASSUME UNCHANGED <<recorderVars, emitted>>,
             \A v \in Writers : next'[v] = next[v] \/ recording[v] = NoEvent,
             phase' = phase \/ phase' # "down"
      PROVE  RecorderInv'
  <2>0. UNCHANGED <<origin, started, fds, partial, final, data, files, recording, stop, recorded,
                    current, opens, tears, renames, raced, stuck>>
    BY <1>1 DEF recorderVars, history
  <2>1. Inside' = Inside
    BY <2>0 DEF Inside
  <2>2. RecorderTyped'
    BY <1>0, <1>1, <2>0, <2>1 DEF RecorderTyped, RecorderTypeOK, Inside
  <2>3. FilesLeft'
    BY <1>0, <1>1, <2>0, <2>1 DEF FilesLeft
  <2>4. FilesApart' /\ \A t \in Sessions : SessionKept(t)'
    BY <2>0, DirectoryStays
  <2>5. StopInv'
    <3>1. \A x, g : InLines(x, g)' <=> InLines(x, g)
      BY <2>0 DEF InLines
    <3> QED
      BY <1>0, <1>1, <2>0, <2>1, <3>1 DEF StopInv
  <2> QED
    BY <2>2, <2>3, <2>4, <2>5 DEF RecorderInv
<1>2. ASSUME NEW w \in Writers, Record(w) PROVE RecorderInv'
  <2>0. /\ UNCHANGED <<origin, started, fds, partial, final, data, files, stop, recorded,
                       current, opens, tears, renames, stuck>>
        /\ phase # "down" /\ phase' = phase
        /\ next[w] = NoEvent /\ emitted' = emitted + 1 /\ emitted' \in Events
        /\ next' = [next EXCEPT ![w] = emitted']
        /\ LET in == started /\ origin[emitted'] # NoSession IN
           /\ recording' = [recording EXCEPT ![w] = IF in THEN emitted' ELSE NoEvent]
           /\ raced' = (raced \/ (in /\ stop.at # "no"))
    BY <1>2 DEF Record, Enter
  <2>1. recording \in [Writers -> Events \cup {NoEvent}] /\ raced \in BOOLEAN
    BY <1>0 DEF RecorderTyped, RecorderTypeOK
  <2>2. w \notin Inside
    BY <1>0, <2>0 DEF RecorderTyped, Inside
  <2>3. \/ Inside' = Inside /\ raced' = raced
        \/ /\ Inside' = Inside \cup {w} /\ started /\ recording'[w] = emitted'
           /\ origin[emitted'] # NoSession
           /\ raced' = (raced \/ stop.at # "no")
    <3>1. \A v \in Writers : v # w => recording'[v] = recording[v]
      BY <2>0, <2>1
    <3>2. CASE started /\ origin[emitted'] # NoSession
      <4>1. recording'[w] = emitted' /\ emitted' # NoEvent /\ raced' = (raced \/ stop.at # "no")
        BY <2>0, <2>1, <3>2
      <4> QED
        BY <3>1, <3>2, <4>1 DEF Inside
    <3>3. CASE ~(started /\ origin[emitted'] # NoSession)
      <4>1. recording'[w] = NoEvent /\ raced' = raced
        BY <2>0, <2>1, <3>3
      <4> QED
        BY <2>2, <3>1, <4>1 DEF Inside
    <3> QED
      BY <3>2, <3>3
  <2>4. RecorderTyped'
    <3>1. recording' \in [Writers -> Events \cup {NoEvent}] /\ raced' \in BOOLEAN
      BY <2>0, <2>1
    <3>2. \A v \in Inside' : recording'[v] = next'[v] /\ origin'[recording'[v]] # NoSession
      <4>1. \A v \in Inside : v # w /\ recording'[v] = recording[v] /\ next'[v] = next[v]
        BY <1>t, <2>0, <2>1, <2>2 DEF Inside
      <4>2. next'[w] = emitted'
        BY <1>t, <2>0
      <4> QED
        BY <1>0, <2>0, <2>3, <4>1, <4>2 DEF RecorderTyped
    <3> QED
      BY <1>0, <2>0, <3>1, <3>2 DEF RecorderTyped, RecorderTypeOK
  <2>5. FilesLeft'
    <3>1. /\ IsFiniteSet(Inside \cup {w}) /\ Cardinality(Inside \cup {w}) = Cardinality(Inside) + 1
      BY <1>t, <2>2, FS_AddElement
    <3>2. IsFiniteSet(Inside') /\ Cardinality(Inside') \in Nat
          /\ Cardinality(Inside') <= Cardinality(Inside) + 1
      <4>1. CASE Inside' = Inside
        BY <1>t, <4>1
      <4>2. CASE Inside' = Inside \cup {w}
        BY <1>t, <3>1, <4>2
      <4> QED
        BY <2>3, <4>1, <4>2
    <3> QED
      BY <1>t, <2>0, <3>2 DEF FilesLeft
  <2>6. FilesApart' /\ \A t \in Sessions : SessionKept(t)'
    BY <2>0, DirectoryStays
  <2>7. StopInv'
    <3>1. \A x, g : InLines(x, g)' <=> InLines(x, g)
      BY <2>0 DEF InLines
    <3> QED
      BY <1>0, <2>0, <2>1, <2>3, <3>1 DEF StopInv
  <2> QED
    BY <2>4, <2>5, <2>6, <2>7 DEF RecorderInv
<1>3. CASE StartUp
  <2>0. /\ ~started /\ started' = TRUE /\ phase = "down" /\ phase' = "up"
        /\ UNCHANGED <<origin, fds, data, files, recording, stop, recorded, current,
                       opens, tears, raced, stuck, emitted, next>>
    BY <1>3 DEF StartUp, StartRecorder
  <2>1. PICK old \in SUBSET {s \in Sessions : partial[s] # NoFile} :
         /\ final' = [s \in Sessions |-> IF s \in old THEN partial[s] ELSE final[s]]
         /\ partial' = [s \in Sessions |-> IF s \in old THEN NoFile ELSE partial[s]]
         /\ renames' = [s \in Sessions |-> IF s \in old THEN renames[s] + 1 ELSE renames[s]]
    BY <1>3 DEF StartUp, StartRecorder
  <2>2. Inside' = Inside
    BY <2>0 DEF Inside
  <2>3. RecorderTyped'
    <3>1. /\ final' \in [Sessions -> Files \cup {NoFile}] /\ partial' \in [Sessions -> Files \cup {NoFile}]
          /\ renames' \in [Sessions -> Nat]
      BY <1>0, <2>1 DEF RecorderTyped, RecorderTypeOK
    <3> QED
      BY <1>0, <2>0, <2>2, <3>1 DEF RecorderTyped, RecorderTypeOK
  <2>4. FilesLeft'
    BY <1>0, <2>0, <2>2 DEF FilesLeft
  <2>5. FilesApart'
    <3>1. \A t \in Sessions : Names(t)' \subseteq Names(t)
      BY <2>0, <2>1 DEF Names
    <3> QED
      BY <1>0, <2>0, <2>1, <3>1 DEF FilesApart
  <2>6. ASSUME NEW t \in Sessions PROVE SessionKept(t)'
    <3>1. CASE t \in old
      <4>1. partial[t] # NoFile /\ partial'[t] = NoFile /\ final'[t] = partial[t]
            /\ renames'[t] = renames[t] + 1 /\ renames[t] \in Nat
        BY <1>0, <2>1, <3>1 DEF RecorderTyped
      <4> QED
        BY <1>0, <2>0, <4>1, SessionRenamed
    <3>2. CASE t \notin old
      BY <1>0, <2>0, <2>1, <3>2, SessionUntouched
    <3> QED
      BY <3>1, <3>2
  <2>7. StopInv'
    BY <1>0, <2>0, <2>2 DEF StopInv, Idle
  <2> QED
    BY <2>3, <2>4, <2>5, <2>6, <2>7 DEF RecorderInv
<1>4. CASE StopBegin /\ phase # "down" /\ phase' # "down" /\ UNCHANGED <<emitted, next>>
  <2>0. /\ stop.at = "no"
        /\ stop' = [at |-> "loop", todo |-> {s \in Sessions : fds[s] # NoFile}, id |-> NoSession]
        /\ raced' = (\E w \in Writers : recording[w] # NoEvent)
        /\ UNCHANGED <<origin, started, fds, partial, final, data, files, recording,
                       recorded, current, opens, tears, renames, stuck>>
    BY <1>4 DEF StopBegin
  <2>1. Inside' = Inside /\ (~raced' => Inside = {})
    BY <2>0 DEF Inside
  <2>2. RecorderTyped'
    BY <1>0, <1>4, <2>0, <2>1 DEF RecorderTyped, RecorderTypeOK
  <2>3. FilesLeft'
    BY <1>0, <1>4, <2>0, <2>1 DEF FilesLeft
  <2>4. FilesApart' /\ \A t \in Sessions : SessionKept(t)'
    BY <2>0, DirectoryStays
  <2>5. StopInv'
    <3>1. \A x, g : InLines(x, g)' <=> InLines(x, g)
      BY <2>0 DEF InLines
    <3>2. stop'.at = "loop" /\ stop'.id = NoSession /\ stop'.todo = {s \in Sessions : fds[s] # NoFile}
      BY <2>0
    <3>3. \A x \in current' : origin[x] \in stop'.todo
                              /\ (tears[origin[x]] = 0 => InLines(x, partial[origin[x]]))
      BY <1>0, <2>0, <3>2 DEF StopInv, RecorderTyped
    <3> QED
      BY <1>0, <1>4, <2>0, <2>1, <3>1, <3>2, <3>3 DEF StopInv
  <2> QED
    BY <2>2, <2>3, <2>4, <2>5 DEF RecorderInv
<1>5. CASE RecorderDown /\ phase' = "down" /\ emitted' = emitted
           /\ next' = [w \in Writers |-> NoEvent]
  <2>0. /\ started' = FALSE /\ fds' = [s \in Sessions |-> NoFile]
        /\ recording' = [w \in Writers |-> NoEvent] /\ stop' = Idle
        /\ current' = {} /\ raced' = FALSE /\ stuck' = {}
        /\ UNCHANGED <<origin, partial, final, data, files, recorded, opens, tears, renames>>
    BY <1>5 DEF RecorderDown
  <2>1. Inside' = {}
    BY <2>0 DEF Inside
  <2>2. RecorderTyped'
    BY <1>0, <2>0, <2>1 DEF RecorderTyped, RecorderTypeOK, Idle
  <2>3. FilesLeft'
    <3>1. IsFiniteSet(Inside') /\ Cardinality(Inside') = 0
      BY <2>1, FS_EmptySet
    <3> QED
      BY <1>t, <1>5, <2>0, <3>1 DEF FilesLeft
  <2>4. FilesApart' /\ \A t \in Sessions : SessionKept(t)'
    BY <2>0, DirectoryStays
  <2>5. StopInv'
    BY <1>0, <2>0, <2>1 DEF StopInv, Idle
  <2> QED
    BY <2>2, <2>3, <2>4, <2>5 DEF RecorderInv
<1>6. CASE Detach /\ UNCHANGED sinksVars
  <2>0. /\ stop.at = "loop" /\ stop.id = NoSession
        /\ UNCHANGED <<origin, started, partial, final, data, files, recording, recorded, current,
                       opens, tears, renames, raced, stuck, phase, emitted, next>>
    BY <1>6 DEF Detach, history, sinksVars
  <2>1. PICK s \in stop.todo :
          /\ stop' = [stop EXCEPT !.todo = @ \ {s}, !.id = s]
          /\ fds' = [fds EXCEPT ![s] = NoFile]
    BY <1>6 DEF Detach
  <2>2. Inside' = Inside
    BY <2>0 DEF Inside
  <2>3. /\ stop \in [at : {"no", "loop", "done"}, todo : SUBSET Sessions, id : Sessions \cup {NoSession}]
        /\ s \in Sessions /\ fds \in [Sessions -> Files \cup {NoFile}]
    BY <1>0, <2>1 DEF RecorderTyped, RecorderTypeOK
  <2>4. stop'.at = "loop" /\ stop'.todo = stop.todo \ {s} /\ stop'.id = s
    BY <2>0, <2>1, <2>3
  <2>5. RecorderTyped'
    <3>1. /\ stop' \in [at : {"no", "loop", "done"}, todo : SUBSET Sessions, id : Sessions \cup {NoSession}]
          /\ fds' \in [Sessions -> Files \cup {NoFile}]
      BY <2>1, <2>3
    <3> QED
      BY <1>0, <2>0, <2>2, <3>1 DEF RecorderTyped, RecorderTypeOK
  <2>6. FilesLeft'
    BY <1>0, <2>0, <2>2 DEF FilesLeft
  <2>7. FilesApart' /\ \A t \in Sessions : SessionKept(t)'
    BY <2>0, <2>1, <2>3, DirectoryStays
  <2>8. StopInv'
    <3>1. \A x, g : InLines(x, g)' <=> InLines(x, g)
      BY <2>0 DEF InLines
    <3>2. \A x \in current : origin[x] # NoSession
      BY <1>0 DEF RecorderTyped
    <3>3. \A x \in current :
            origin[x] \in stop'.todo \cup {stop'.id} <=> origin[x] \in stop.todo \cup {stop.id}
      BY <2>0, <2>1, <2>4, <3>2
    <3>4. \A x \in current : ~raced /\ tears[origin[x]] = 0 =>
            IF origin[x] \in stop'.todo \cup {stop'.id}
              THEN InLines(x, partial[origin[x]])
              ELSE origin[x] \in stuck \/ InLines(x, final[origin[x]])
      BY <1>0, <2>0, <3>3 DEF StopInv
    <3>5. phase # "down"
      BY <1>0, <2>0 DEF StopInv, Idle
    <3> QED
      BY <1>0, <2>0, <2>2, <2>4, <3>1, <3>4, <3>5 DEF StopInv
  <2> QED
    BY <2>5, <2>6, <2>7, <2>8 DEF RecorderInv
<1>7. CASE (Finalise \/ FinaliseFails) /\ UNCHANGED <<phase, emitted, next>>
  <2>s. PICK s : s = stop.id
    OBVIOUS
  <2>0. /\ stop.at = "loop" /\ s # NoSession /\ stop' = [stop EXCEPT !.id = NoSession]
        /\ UNCHANGED <<origin, started, fds, data, files, recording, recorded, current,
                       opens, tears, raced>>
    BY <1>7, <2>s DEF Finalise, FinaliseFails
  <2>1. \/ /\ partial[s] # NoFile /\ final' = [final EXCEPT ![s] = partial[s]]
           /\ partial' = [partial EXCEPT ![s] = NoFile]
           /\ renames' = [renames EXCEPT ![s] = @ + 1] /\ stuck' = stuck
        \/ /\ partial[s] = NoFile /\ UNCHANGED <<partial, final, renames, stuck>>
        \/ UNCHANGED <<partial, final, renames>> /\ stuck' = stuck \cup {s}
    <3>1. /\ partial \in [Sessions -> Files \cup {NoFile}] /\ final \in [Sessions -> Files \cup {NoFile}]
          /\ renames \in [Sessions -> Nat]
      BY <1>0 DEF RecorderTyped, RecorderTypeOK
    <3>2. CASE Finalise /\ partial[s] # NoFile
      BY <2>s, <3>2 DEF Finalise
    <3>3. CASE Finalise /\ partial[s] = NoFile
      <4>1. /\ final' = [final EXCEPT ![s] = final[s]] /\ partial' = [partial EXCEPT ![s] = partial[s]]
            /\ renames' = [renames EXCEPT ![s] = renames[s]] /\ stuck' = stuck
        BY <2>s, <3>3 DEF Finalise
      <4> QED
        BY <3>1, <3>3, <4>1
    <3>4. CASE FinaliseFails
      BY <2>s, <3>4 DEF FinaliseFails
    <3> QED
      BY <1>7, <3>2, <3>3, <3>4
  <2>2. Inside' = Inside
    BY <2>0 DEF Inside
  <2>3. /\ stop \in [at : {"no", "loop", "done"}, todo : SUBSET Sessions, id : Sessions \cup {NoSession}]
        /\ s \in Sessions /\ s \notin stop.todo
        /\ partial \in [Sessions -> Files \cup {NoFile}] /\ final \in [Sessions -> Files \cup {NoFile}]
        /\ renames \in [Sessions -> Nat] /\ stuck \subseteq Sessions
    BY <1>0, <2>0, <2>s DEF RecorderTyped, RecorderTypeOK, StopInv
  <2>4. stop'.at = "loop" /\ stop'.todo = stop.todo /\ stop'.id = NoSession
    BY <2>0, <2>3
  <2>5. RecorderTyped'
    <3>1. stop' \in [at : {"no", "loop", "done"}, todo : SUBSET Sessions, id : Sessions \cup {NoSession}]
      BY <2>0, <2>3
    <3>2. /\ partial' \in [Sessions -> Files \cup {NoFile}] /\ final' \in [Sessions -> Files \cup {NoFile}]
          /\ renames' \in [Sessions -> Nat] /\ stuck' \subseteq Sessions
      BY <2>1, <2>3
    <3> QED
      BY <1>0, <1>7, <2>0, <2>2, <3>1, <3>2 DEF RecorderTyped, RecorderTypeOK
  <2>6. FilesLeft'
    BY <1>0, <1>7, <2>0, <2>2 DEF FilesLeft
  <2>7. FilesApart'
    <3>1. \A t \in Sessions : Names(t)' \subseteq Names(t)
      BY <2>0, <2>1, <2>3 DEF Names
    <3>2. \A t \in Sessions : partial'[t] # NoFile => partial'[t] # final'[t]
      BY <1>0, <2>1, <2>3 DEF FilesApart
    <3> QED
      BY <1>0, <2>0, <3>1, <3>2 DEF FilesApart
  <2>8. ASSUME NEW t \in Sessions PROVE SessionKept(t)'
    <3>1. CASE partial'[t] = partial[t] /\ final'[t] = final[t] /\ renames'[t] = renames[t]
      BY <1>0, <2>0, <3>1, SessionUntouched
    <3>2. CASE t = s /\ partial[s] # NoFile /\ final' = [final EXCEPT ![s] = partial[s]]
               /\ partial' = [partial EXCEPT ![s] = NoFile] /\ renames' = [renames EXCEPT ![s] = @ + 1]
      <4>1. partial'[t] = NoFile /\ final'[t] = partial[t] /\ renames[t] \in Nat
            /\ renames'[t] = renames[t] + 1
        BY <2>3, <3>2
      <4> QED
        BY <1>0, <2>0, <3>2, <4>1, SessionRenamed
    <3> QED
      BY <2>1, <2>3, <3>1, <3>2
  <2>9. StopInv'
    <3>1. \A x, g : InLines(x, g)' <=> InLines(x, g)
      BY <2>0 DEF InLines
    <3>2. \A x \in current : origin[x] # NoSession /\ origin[x] \in Sessions
      BY <1>0 DEF RecorderTyped
    <3>3. ASSUME NEW x \in current, ~raced, tears[origin[x]] = 0
          PROVE  IF origin[x] \in stop'.todo \cup {stop'.id}
                   THEN InLines(x, partial'[origin[x]])
                   ELSE origin[x] \in stuck' \/ InLines(x, final'[origin[x]])
      <4>1. IF origin[x] \in stop.todo \cup {stop.id}
              THEN InLines(x, partial[origin[x]])
              ELSE origin[x] \in stuck \/ InLines(x, final[origin[x]])
        BY <1>0, <2>0, <3>3 DEF StopInv
      <4>2. CASE origin[x] # s
        <5>1. /\ partial'[origin[x]] = partial[origin[x]] /\ final'[origin[x]] = final[origin[x]]
              /\ stuck \subseteq stuck'
          BY <2>1, <2>3, <3>2, <4>2
        <5> QED
          BY <2>4, <2>s, <3>2, <4>1, <4>2, <5>1
      <4>3. CASE origin[x] = s
        <5>1. InLines(x, partial[s]) /\ partial[s] # NoFile
          BY <2>s, <4>1, <4>3 DEF InLines
        <5>2. s \notin stop'.todo \cup {stop'.id}
          BY <2>0, <2>3, <2>4
        <5>3. final'[s] = partial[s] \/ s \in stuck'
          BY <2>1, <2>3, <5>1
        <5> QED
          BY <4>3, <5>1, <5>2, <5>3
      <4> QED
        BY <4>2, <4>3
    <3>4. \A x \in current : ~raced /\ tears[origin[x]] = 0 =>
            IF origin[x] \in stop'.todo \cup {stop'.id}
              THEN InLines(x, partial[origin[x]])'
              ELSE origin[x] \in stuck' \/ InLines(x, final[origin[x]])'
      BY <2>0, <3>1, <3>3 DEF InLines
    <3>5. phase # "down"
      BY <1>0, <2>0 DEF StopInv, Idle
    <3> QED
      BY <1>0, <1>7, <2>0, <2>2, <2>4, <3>4, <3>5 DEF StopInv
  <2> QED
    BY <2>5, <2>6, <2>7, <2>8, <2>9 DEF RecorderInv
<1>8. CASE StopEnd /\ UNCHANGED sinksVars
  <2>0. /\ stop.at = "loop" /\ stop.todo = {} /\ stop.id = NoSession
        /\ stop' = [stop EXCEPT !.at = "done"] /\ started' = FALSE
        /\ UNCHANGED <<origin, fds, partial, final, data, files, recording, recorded, current,
                       opens, tears, renames, raced, stuck, phase, emitted, next>>
    BY <1>8 DEF StopEnd, history, sinksVars
  <2>1. Inside' = Inside
    BY <2>0 DEF Inside
  <2>2. stop \in [at : {"no", "loop", "done"}, todo : SUBSET Sessions, id : Sessions \cup {NoSession}]
    BY <1>0 DEF RecorderTyped, RecorderTypeOK
  <2>3. stop'.at = "done" /\ stop'.todo = {} /\ stop'.id = NoSession
    BY <2>0, <2>2
  <2>4. RecorderTyped'
    <3>1. stop' \in [at : {"no", "loop", "done"}, todo : SUBSET Sessions, id : Sessions \cup {NoSession}]
      BY <2>0, <2>2
    <3> QED
      BY <1>0, <2>0, <2>1, <3>1 DEF RecorderTyped, RecorderTypeOK
  <2>5. FilesLeft'
    BY <1>0, <2>0, <2>1 DEF FilesLeft
  <2>6. FilesApart' /\ \A t \in Sessions : SessionKept(t)'
    BY <2>0, DirectoryStays
  <2>7. StopInv'
    <3>1. \A x, g : InLines(x, g)' <=> InLines(x, g)
      BY <2>0 DEF InLines
    <3>2. \A x \in current : ~raced /\ tears[origin[x]] = 0 =>
            IF origin[x] \in stop'.todo \cup {stop'.id}
              THEN InLines(x, partial[origin[x]])
              ELSE origin[x] \in stuck \/ InLines(x, final[origin[x]])
      BY <1>0, <2>0, <2>3 DEF StopInv
    <3>3. phase # "down"
      BY <1>0, <2>0 DEF StopInv, Idle
    <3> QED
      BY <1>0, <2>0, <2>1, <2>3, <3>1, <3>2, <3>3 DEF StopInv
  <2> QED
    BY <2>4, <2>5, <2>6, <2>7 DEF RecorderInv
<1>9. CASE StorageStep \/ ServeReturns \/ ServeFails \/ UNCHANGED vars
           \/ (Fault /\ UNCHANGED recorderVars)
           \/ \E w \in Writers : Store(w)
  <2>1. UNCHANGED <<recorderVars, emitted>>
    BY <1>9 DEF StorageStep, ServeReturns, ServeFails, vars, Fault, Store, sinksVars
  <2>2. phase' = phase \/ phase' # "down"
    BY <1>9 DEF StorageStep, ServeReturns, ServeFails, vars, Fault, Store, sinksVars
  <2>3. \A v \in Writers : next'[v] = next[v] \/ recording[v] = NoEvent
    BY <1>9, <1>t DEF StorageStep, ServeReturns, ServeFails, vars, Fault, Store, sinksVars
  <2> QED
    BY <1>1, <2>1, <2>2, <2>3
<1>10. CASE Signal
  BY <1>4, <1>10 DEF Signal
<1>11. CASE Exit \/ Crash
  BY <1>5, <1>11 DEF Exit, Crash, Down
<1>12. CASE RecorderStep
  BY <1>6, <1>7, <1>8, <1>12 DEF RecorderStep, sinksVars
<1>13. CASE Fault
  BY <1>7, <1>9, <1>13 DEF Fault
<1> QED
  BY <1>2, <1>3, <1>9, <1>10, <1>11, <1>12, <1>13 DEF Next

\* The recorder's invariant holds at the start.
LEMMA RecorderStart == Init => RecorderInv
<1> USE EmissionAssumption
<1> SUFFICES ASSUME Init PROVE RecorderInv
  OBVIOUS
<1>1. Inside = {} /\ IsFiniteSet(Inside) /\ Cardinality(Inside) = 0
  <2>1. Inside = {}
    BY DEF Inside, Init, RecorderInit
  <2> QED
    BY <2>1, FS_EmptySet
<1>2. RecorderTyped
  <2>1. <<>> \in Seq(Events \cup {Header, Torn, Garbled}) /\ <<>> \in Seq(Events)
    OBVIOUS
  <2>2. /\ origin \in [Events -> Sessions \cup {NoSession}] /\ started \in BOOLEAN /\ raced \in BOOLEAN
        /\ fds \in [Sessions -> Files \cup {NoFile}] /\ partial \in [Sessions -> Files \cup {NoFile}]
        /\ final \in [Sessions -> Files \cup {NoFile}]
        /\ data \in [Files -> Seq(Events \cup {Header, Torn, Garbled})]
    BY <2>1 DEF Init, RecorderInit
  <2>3. /\ files \in Events \cup {0} /\ recording \in [Writers -> Events \cup {NoEvent}]
        /\ stop \in [at : {"no", "loop", "done"}, todo : SUBSET Sessions, id : Sessions \cup {NoSession}]
        /\ recorded \in [Sessions -> Seq(Events)] /\ current = {} /\ stuck = {}
        /\ opens \in [Sessions -> Nat] /\ tears \in [Sessions -> Nat] /\ renames \in [Sessions -> Nat]
    BY <2>1 DEF Init, RecorderInit, Idle
  <2> QED
    BY <1>1, <2>2, <2>3 DEF RecorderTyped, RecorderTypeOK
<1>3. FilesLeft
  BY <1>1 DEF FilesLeft, Init, RecorderInit
<1>4. \A s \in Sessions : Names(s) = {} /\ Names2(s) = {} /\ recorded[s] = <<>> /\ opens[s] = 0
                          /\ final[s] = NoFile /\ fds[s] = NoFile /\ tears[s] = 0
  BY DEF Init, RecorderInit, Names, Names2
<1>5. FilesApart
  BY <1>4 DEF FilesApart, Init, RecorderInit
<1>6. StopInv
  BY <1>1, <1>4 DEF StopInv, Idle, Init, RecorderInit
<1>7. ASSUME NEW s \in Sessions PROVE SessionKept(s)
  <2>1. Lost(s) = {} /\ TornEnds(s) = {}
    BY <1>4, RangeEmpty DEF Lost, TornEnds
  <2>2. IsFiniteSet(Lost(s)) /\ Cardinality(Lost(s)) + Cardinality(TornEnds(s)) <= 0
    BY <2>1, FS_EmptySet
  <2> QED
    BY <1>4, <2>2 DEF SessionKept
<1> QED
  BY <1>2, <1>3, <1>5, <1>6, <1>7 DEF RecorderInv

\* The recorder's invariant holds of every behaviour, given the storage's.
THEOREM RecorderInvHolds == Spec => []RecorderInv
<1>1. StorageTyped => Counted
  BY DEF StorageTyped, Counted
<1>2. RecorderInv /\ Counted /\ Counted' /\ StorageTyped /\ [Next]_vars => RecorderInv'
  <2> SUFFICES ASSUME RecorderInv, Counted, Counted', StorageTyped, [Next]_vars PROVE RecorderInv'
    OBVIOUS
  <2>1. ASSUME NEW w \in Writers, WriteEvent(w) \/ RecordFails(w), UNCHANGED <<phase, next, emitted>>
        PROVE  RecorderInv'
    BY <2>1, WriteTyped, WriteKeeps, WriteStop DEF RecorderInv
  <2> QED
    BY <2>1, RecorderElseStep
<1>3. StorageInv => StorageTyped
  BY DEF StorageInv
<1> QED
  BY <1>1, <1>2, <1>3, RecorderStart, StorageInvHolds, PTL DEF Spec

(***************************************************************************)
(* When Stop has returned and no handler overlapped it, what this run      *)
(* recorded is under the final names, whatever order the sessions were     *)
(* detached and renamed in.                                                *)
(***************************************************************************)
THEOREM StopFinalises == Spec => []FinalisedAtExit
<1>1. RecorderInv => FinalisedAtExit
  <2> SUFFICES ASSUME RecorderInv, stop.at = "done", ~raced, NEW e \in current
               PROVE  LET s == origin[e] IN
                      s \in stuck \/ tears[s] > 0 \/ e \in Range(Lines(final[s]))
    BY DEF FinalisedAtExit
  <2>1. origin[e] \in Sessions /\ origin[e] # NoSession /\ tears[origin[e]] \in Nat
    BY DEF RecorderInv, RecorderTyped
  <2>2. CASE tears[origin[e]] # 0
    BY <2>1, <2>2
  <2>3. CASE tears[origin[e]] = 0
    <3>1. origin[e] \notin stop.todo \cup {stop.id}
      BY <2>1 DEF RecorderInv, StopInv
    <3>2. origin[e] \in stuck \/ InLines(e, final[origin[e]])
      BY <2>3, <3>1 DEF RecorderInv, StopInv
    <3> QED
      BY <3>2 DEF InLines, Lines
  <2> QED
    BY <2>2, <2>3
<1> QED
  BY <1>1, RecorderInvHolds, PTL

(***************************************************************************)
(* What was counted as recorded stays readable across stops, crashes,      *)
(* restarts and short writes, and an undisturbed recording reads back      *)
(* exactly.                                                                *)
(***************************************************************************)
THEOREM RecordingsAreKept == Spec => []RecordingsHold
<1> USE EmissionAssumption
<1>1. RecorderInv => RecordedKept
  <2> SUFFICES ASSUME RecorderInv, NEW s \in Sessions, renames[s] <= 1
               PROVE  Cardinality(Lost(s)) <= tears[s]
    BY DEF RecordedKept, Lost
  <2>1. Fits(Lost(s), TornEnds(s), tears[s])
    BY LostMeans DEF RecorderInv, SessionKept, RecorderTyped, Fits
  <2>2. Cardinality(Lost(s)) \in Nat /\ Cardinality(TornEnds(s)) \in Nat
    BY <2>1, FS_CardinalityType DEF Fits
  <2> QED
    BY <2>1, <2>2 DEF Fits
<1>2. RecorderInv => ReadsBack
  <2> SUFFICES ASSUME RecorderInv, NEW s \in Sessions, opens[s] = 1, tears[s] = 0
               PROVE  ReadSession(s).ok /\ ReadSession(s).events = recorded[s]
    BY DEF ReadsBack
  <2>1. PICK f \in Files : OnlyFile(s, f)
    BY DEF RecorderInv, SessionKept
  <2>2. f # NoFile /\ f = IF final[s] # NoFile THEN final[s] ELSE partial[s]
    BY <2>1 DEF OnlyFile, Names2, Files, NoFile, NoEvent
  <2>3. ReadSession(s) = ReadSessionFile(data[f])
    BY <2>2 DEF ReadSession, Lines
  <2>4. recorded[s] \in Seq(Events)
    BY DEF RecorderInv, RecorderTyped, RecorderTypeOK
  <2>5. CASE data[f] = <<Header>> \o recorded[s]
    <3> DEFINE q == recorded[s]
    <3>1. <<Header>> \o q # <<>> /\ Head(<<Header>> \o q) = Header
      BY <2>4
    <3>2. Tail(<<Header>> \o q) = q
      BY <2>4
    <3>3. \A i \in DOMAIN (<<Header>> \o q) : (<<Header>> \o q)[i] \notin {Torn, Garbled}
      <4>1. Header \notin {Torn, Garbled} /\ \A e \in Events : e \notin {Torn, Garbled}
        BY DEF Header, Torn, Garbled
      <4>2. \A i \in DOMAIN (<<Header>> \o q) : (<<Header>> \o q)[i] \in Events \cup {Header}
        BY <2>4
      <4> QED
        BY <4>1, <4>2
    <3> QED
      BY <2>3, <2>5, <3>1, <3>2, <3>3 DEF ReadSessionFile
  <2>6. CASE data[f] = <<>> /\ recorded[s] = <<>>
    BY <2>3, <2>6 DEF ReadSessionFile
  <2> QED
    BY <2>1, <2>5, <2>6 DEF OnlyFile
<1>3. RecorderInv => RecordingsHold
  BY <1>1, <1>2 DEF RecordingsHold
<1> QED
  BY <1>3, RecorderInvHolds, PTL

\* The variables keep their types, in particular the file numbers never run out.
THEOREM SinksTyped == Spec => []TypeOK
<1> DEFINE Bounds == /\ phase \in {"down", "up", "stopping", "closing"}
                     /\ runs \in 0..MaxRuns /\ faults \in 0..MaxFaults
<1>1. Init => Bounds
  BY SinksAssumption DEF Init
<1>2. Bounds /\ [Next]_vars => Bounds'
  <2> SUFFICES ASSUME Bounds, [Next]_vars PROVE Bounds'
    OBVIOUS
  <2> USE SinksAssumption
  <2>1. CASE StartUp
    BY <2>1 DEF StartUp
  <2>2. CASE Signal \/ ServeReturns \/ ServeFails \/ Exit \/ Crash
    BY <2>2 DEF Signal, ServeReturns, ServeFails, Exit, Crash, Down
  <2>3. CASE \E w \in Writers : Record(w) \/ Store(w)
    BY <2>3 DEF Record, Store
  <2>4. CASE RecorderStep \/ StorageStep
    BY <2>4 DEF RecorderStep, StorageStep, sinksVars
  <2>5. CASE Fault
    BY <2>5 DEF Fault
  <2>6. CASE UNCHANGED vars
    BY <2>6 DEF vars, sinksVars
  <2> QED
    BY <2>1, <2>2, <2>3, <2>4, <2>5, <2>6 DEF Next
<1>3. Bounds /\ StorageInv /\ RecorderInv => TypeOK
  <2> SUFFICES ASSUME Bounds, StorageInv, RecorderInv PROVE TypeOK
    OBVIOUS
  <2>1. emitted \in Events \cup {0}
    BY DEF StorageInv, StorageTyped
  <2> QED
    BY <2>1 DEF TypeOK, StorageInv, StorageTyped, RecorderInv, RecorderTyped
<1> QED
  BY <1>1, <1>2, <1>3, StorageInvHolds, RecorderInvHolds, PTL DEF Spec
=============================================================================
