-------------------------- MODULE AuditLogProofs --------------------------
(***************************************************************************)
(* Proofs about AuditLog for every value of its constants.                 *)
(***************************************************************************)
EXTENDS MCAuditLog, TLAPS

\* The digest of a row is a digest.
LEMMA HashEventType ==
    ASSUME NEW p \in Digest, NEW s \in Nat, NEW e \in Event
    PROVE  HashEvent(p, s, e) \in Digest
  BY DEF HashEvent, Digest, Event

\* The nil digest is a digest.
LEMMA NoDigestType == NoDigest \in Digest
  BY DEF NoDigest, Digest

\* A stamped row, and a line without chain fields, are lines.
LEMMA LineTypes ==
    ASSUME NEW p \in Digest, NEW s \in Nat, NEW e \in Event
    PROVE  /\ StampedRow(p, s, e) \in Line
           /\ BareRow(e) \in Line
           /\ Torn(e) \in Line
           /\ Garbled(e) \in Line
<1>1. StampedRow(p, s, e) \in Line
  BY HashEventType DEF StampedRow, Line
<1>2. PlainLine("bare", e) \in Line /\ PlainLine("torn", e) \in Line /\ PlainLine("garbled", e) \in Line
  BY NoDigestType DEF PlainLine, Line
<1> QED
  BY <1>1, <1>2 DEF BareRow, Torn, Garbled

\* Appending a line to a file gives a file.
LEMMA AppendLineType ==
    ASSUME NEW f \in Seq(Line), NEW line \in Line
    PROVE  AppendLine(f, line) \in Seq(Line)
<1>1. CASE EndsTorn(f)
  <2>1. Len(f) \in 1..Len(f)
    BY <1>1 DEF EndsTorn
  <2>2. Garbled(line.ev) \in Line
    BY LineTypes DEF Line, Digest
  <2>3. f[Len(f)] \in Line
    BY <2>1
  <2> QED
    BY <1>1, <2>1, <2>2, <2>3 DEF AppendLine
<1>2. CASE ~EndsTorn(f)
  BY <1>2 DEF AppendLine
<1> QED
  BY <1>1, <1>2

\* Saving the chain head keeps the state file well-formed.
LEMMA SaveType ==
    ASSUME TypeOK, NEW seq \in Nat, NEW digest \in Digest, Save(seq, digest)
    PROVE  state' \in StateFile /\ faults' \subseteq FaultKinds
  BY DEF Save, TypeOK, StateFile, MayFail, Record

\* Stamping keeps the chain state and the line in hand well-formed.
LEMMA StampType ==
    ASSUME TypeOK, NEW ev \in Event, Stamp(ev)
    PROVE  /\ hand' \in Line /\ lastHash' \in Digest
           /\ nextSeq' \in Nat /\ nextSeq' > 0 /\ unsaved' \in Nat
           /\ state' \in StateFile /\ faults' \subseteq FaultKinds
<1>1. hand' \in Line
  BY LineTypes DEF Stamp, TypeOK
<1>2. lastHash' \in Digest
  BY HashEventType DEF Stamp, TypeOK, StampedRow
<1>3. nextSeq' \in Nat /\ nextSeq' > 0 /\ unsaved' \in Nat
  BY DEF Stamp, TypeOK, SaveDue
<1>4. state' \in StateFile /\ faults' \subseteq FaultKinds
  <2>1. CASE SaveDue
    BY <1>2, <1>3, <2>1, SaveType DEF Stamp
  <2>2. CASE ~SaveDue
    BY <2>2 DEF Stamp, TypeOK
  <2> QED
    BY <2>1, <2>2
<1> QED
  BY <1>1, <1>2, <1>3, <1>4

\* The empty queue, the empty file and the idle hand are well-formed.
LEMMA EmptyTypes ==
    /\ <<>> \in Seq(Event) /\ Len(<<>>) <= QueueDepth
    /\ <<>> \in Seq(Line)
    /\ NoState \in StateFile
    /\ Idle \in Line
<1>1. <<>> \in Seq(Event) /\ Len(<<>>) = 0 /\ <<>> \in Seq(Line)
  OBVIOUS
<1>2. 0 <= QueueDepth
  BY ParamsAssumption
<1>3. NoState \in StateFile
  BY NoDigestType DEF NoState, StateFile
<1>4. Idle \in Line
  BY NoDigestType DEF Idle, PlainLine, Line, Event
<1> QED
  BY <1>1, <1>2, <1>3, <1>4

\* An event the queue has room for keeps it within its capacity.
LEMMA AppendQueue ==
    ASSUME NEW q \in Seq(Event), NEW e \in Event, Len(q) < QueueDepth
    PROVE  Append(q, e) \in Seq(Event) /\ Len(Append(q, e)) <= QueueDepth
<1>1. Len(Append(q, e)) = Len(q) + 1 /\ Len(q) \in Nat /\ Append(q, e) \in Seq(Event)
  OBVIOUS
<1> QED
  BY <1>1, ParamsAssumption

\* A row is in the worker's hands only after the chain has advanced, and a
\* manifest is due only on a chained log.
WorkerOK ==
    /\ Chained /\ pc \in {"write", "sync", "emit"} => nextSeq > 0
    /\ pc = "emit" => Chained

TypeInv == TypeOK /\ WorkerOK

\* The type invariant is inductive.
LEMMA TypeInvInductive ==
    /\ Init => TypeInv
    /\ TypeInv /\ [Next]_vars => TypeInv'
<1>1. Init => TypeInv
  <2> SUFFICES ASSUME Init PROVE TypeInv
    OBVIOUS
  <2>1. queue \in Seq(Event) /\ Len(queue) <= QueueDepth /\ hand \in Line
    BY EmptyTypes DEF Init
  <2>2. lastHash \in Digest /\ file \in Seq(Line) /\ state \in StateFile
    BY EmptyTypes, NoDigestType DEF Init
  <2> QED
    BY <2>1, <2>2 DEF Init, TypeInv, TypeOK, WorkerOK
<1>2. TypeInv /\ [Next]_vars => TypeInv'
  <2> SUFFICES ASSUME TypeInv, [Next]_vars PROVE TypeInv'
    OBVIOUS
  <2> USE DEF TypeInv, TypeOK, WorkerOK, procVars, queueVars, chainVars, diskVars
  <2>1. CASE Start
    <3>1. queue' \in Seq(Event) /\ Len(queue') <= QueueDepth /\ hand' \in Line
      BY <2>1, EmptyTypes DEF Start
    <3>2. nextSeq' \in Nat /\ lastHash' \in Digest
      BY <2>1 DEF Start, StateFile
    <3>3. /\ phase' = "up" /\ ctxDone' = FALSE /\ draining' = FALSE
          /\ dropped' = 0 /\ total' = 0 /\ unsaved' = 0
          /\ pc' = "select" /\ lastEmitted' = -1 /\ owed' = {}
      BY <2>1 DEF Start
    <3>5. runs' \in Nat
      BY <2>1 DEF Start
    <3>4. UNCHANGED <<file, state, manifests, issued, faults>>
      BY <2>1 DEF Start
    <3> QED
      BY <3>1, <3>2, <3>3, <3>4, <3>5
  <2>2. CASE Signal
    BY <2>2 DEF Signal
  <2>3. CASE CloseCall
    BY <2>3 DEF CloseCall
  <2>4. CASE CloseReturn
    <3>1. state' \in StateFile /\ faults' \subseteq FaultKinds
      BY <2>4, SaveType DEF CloseReturn
    <3> QED
      BY <2>4, <3>1 DEF CloseReturn
  <2>5. CASE Exit
    BY <2>5, EmptyTypes DEF Exit, Lose
  <2>6. CASE Crash
    BY <2>6, EmptyTypes DEF Crash, Lose, MayFail, Record
  <2>7. CASE Write
    <3>1. issued + 1 \in Event
      BY DEF Event
    <3>2. queue' \in Seq(Event) /\ Len(queue') <= QueueDepth
      BY <2>7, <3>1, AppendQueue, ParamsAssumption DEF Write, Full
    <3> QED
      BY <2>7, <3>2 DEF Write
  <2>8. CASE OneShotAppend
    <3>1. file' \in Seq(Line)
      BY <2>8, AppendLineType, LineTypes, NoDigestType DEF OneShotAppend, Event
    <3> QED
      BY <2>8, <3>1 DEF OneShotAppend, MayFail, Record
  <2>9. CASE Take
    <3>1. /\ Head(queue) \in Event
          /\ Tail(queue) \in Seq(Event)
          /\ Len(Tail(queue)) <= QueueDepth
      BY <2>9, ParamsAssumption DEF Take
    <3>2. /\ hand' \in Line /\ lastHash' \in Digest
          /\ nextSeq' \in Nat /\ unsaved' \in Nat
          /\ Chained => nextSeq' > 0
          /\ state' \in StateFile /\ faults' \subseteq FaultKinds
      <4>1. CASE Chained
        BY <2>9, <3>1, <4>1, StampType DEF Take
      <4>2. CASE ~Chained
        BY <2>9, <3>1, <4>2, LineTypes, NoDigestType DEF Take
      <4> QED
        BY <4>1, <4>2
    <3> QED
      BY <2>9, <3>1, <3>2 DEF Take
  <2>10. CASE StartDrain
    BY <2>10 DEF StartDrain
  <2>11. CASE WorkerExit
    BY <2>11 DEF WorkerExit
  <2>12. CASE WriteRow
    <3>1. file' \in Seq(Line)
      BY <2>12, AppendLineType DEF WriteRow
    <3> QED
      BY <2>12, <3>1 DEF WriteRow, Finish
  <2>13. CASE WriteFails
    <3>1. file' \in Seq(Line)
      <4>1. Torn(hand.ev) \in Line
        BY LineTypes, NoDigestType DEF Line
      <4> QED
        BY <2>13, <4>1, AppendLineType DEF WriteFails
    <3> QED
      BY <2>13, <3>1 DEF WriteFails, MayFail, Record
  <2>14. CASE Sync
    BY <2>14 DEF Sync, Finish, MayFail, Record
  <2>15. CASE Emit
    BY <2>15 DEF Emit, MayFail, Record, Manifest, SeqStart, HeadSeq
  <2>16. CASE UNCHANGED vars
    BY <2>16 DEF vars
  <2> QED
    BY <2>1, <2>2, <2>3, <2>4, <2>5, <2>6, <2>7, <2>8, <2>9, <2>10, <2>11,
       <2>12, <2>13, <2>14, <2>15, <2>16 DEF Next, Worker
<1> QED
  BY <1>1, <1>2

\* Type correctness, with the bound on the queue.
THEOREM TypeCorrect == Spec => []TypeOK
<1>1. TypeInv => TypeOK
  BY DEF TypeInv
<1> QED
  BY <1>1, TypeInvInductive, PTL DEF Spec

-----------------------------------------------------------------------------
\* The chain.

\* Appending to a linked file the row stamped from its tail leaves it linked,
\* with that row's digest as its tail.
LEMMA LinkedAppend ==
    ASSUME NEW f \in Seq(Line), Linked(f), NEW ev \in Event
    PROVE  LET row == StampedRow(TailDigest(f), Len(f), ev)
           IN  /\ AppendLine(f, row) = Append(f, row)
               /\ Linked(Append(f, row))
               /\ TailDigest(Append(f, row)) = row.hash
<1> DEFINE row == StampedRow(TailDigest(f), Len(f), ev)
           g   == Append(f, row)
<1>1. ~EndsTorn(f)
  <2> SUFFICES ASSUME f # <<>> PROVE f[Len(f)].kind # "torn"
    BY DEF EndsTorn
  <2>1. Len(f) \in 1..Len(f)
    OBVIOUS
  <2> QED
    BY <2>1 DEF Linked
<1>2. /\ Len(g) = Len(f) + 1 /\ Len(f) \in Nat
      /\ g[Len(f) + 1] = row
      /\ \A i \in 1..Len(f) : g[i] = f[i]
  OBVIOUS
<1>3. /\ row.kind = "row" /\ row.seq = Len(f) /\ row.prev = TailDigest(f)
      /\ row.hash = HashEvent(row.prev, row.seq, row.ev)
  BY DEF StampedRow
<1>4. Linked(g)
  <2> SUFFICES ASSUME NEW i \in 1..Len(g)
               PROVE  /\ g[i].kind = "row"
                      /\ g[i].seq = i - 1
                      /\ g[i].prev = IF i = 1 THEN NoDigest ELSE g[i-1].hash
                      /\ g[i].hash = HashEvent(g[i].prev, g[i].seq, g[i].ev)
    BY DEF Linked
  <2> HIDE DEF row, g
  <2>1. CASE i \in 1..Len(f)
    <3>1. i = 1 \/ i - 1 \in 1..Len(f)
      BY <2>1, <1>2
    <3>2. g[i] = f[i] /\ (i # 1 => g[i-1] = f[i-1])
      BY <2>1, <3>1, <1>2
    <3> QED
      BY <2>1, <3>2 DEF Linked
  <2>2. CASE i = Len(f) + 1
    <3>1. g[i] = row
      BY <2>2, <1>2
    <3>2. TailDigest(f) = IF i = 1 THEN NoDigest ELSE g[i-1].hash
      <4>1. CASE f = <<>>
        BY <4>1, <2>2 DEF TailDigest
      <4>2. CASE f # <<>>
        <5>1. Len(f) \in 1..Len(f) /\ i # 1
          BY <4>2, <2>2
        <5>2. g[i-1] = f[Len(f)]
          BY <5>1, <2>2, <1>2
        <5> QED
          BY <4>2, <5>1, <5>2 DEF TailDigest
      <4> QED
        BY <4>1, <4>2
    <3> QED
      BY <2>2, <3>1, <3>2, <1>2, <1>3
  <2> QED
    BY <2>1, <2>2, <1>2
<1>5. TailDigest(g) = row.hash
  <2>1. g # <<>>
    BY <1>2
  <2> QED
    BY <2>1, <1>2 DEF TailDigest
<1>6. AppendLine(f, row) = g
  BY <1>1 DEF AppendLine
<1> QED
  BY <1>4, <1>5, <1>6

\* Nothing has happened that loses a row or the saved head.
Quiet == Chained /\ faults \subseteq {"sync", "manifest"}

(***************************************************************************)
(* Why the file is linked: outside of writeOne the chain in memory is the  *)
(* tail of the file; inside, the row in hand is the one that extends it;   *)
(* and once Close has returned the saved state is that tail, which is what *)
(* the next run loads.                                                     *)
(***************************************************************************)
ChainTracksFile ==
    /\ Linked(file)
    /\ phase # "down" /\ pc # "write" =>
          nextSeq = Len(file) /\ lastHash = TailDigest(file)
    /\ phase # "down" /\ pc = "write" =>
          /\ hand = StampedRow(TailDigest(file), Len(file), hand.ev)
          /\ nextSeq = Len(file) + 1
          /\ lastHash = hand.hash
    /\ phase \in {"closed", "down"} =>
          state.nextSeq = Len(file) /\ state.lastHash = TailDigest(file)
    /\ phase \in {"closed", "down"} => pc = "exited"

ChainInv == TypeInv /\ (Quiet => ChainTracksFile)

\* Whatever the interleaving, and over any number of orderly runs, the file is
\* one chain from genesis (LogWriter and ChainState of internal/audit).
THEOREM LogIsLinked == Spec => []LogLinked
<1>1. Init => ChainInv
  <2> SUFFICES ASSUME Init PROVE Quiet => ChainTracksFile
    BY TypeInvInductive DEF ChainInv
  <2> QED
    BY DEF Init, ChainTracksFile, Linked, TailDigest, NoState, NoDigest
<1>2. ChainInv /\ [Next]_vars => ChainInv'
  <2> SUFFICES ASSUME ChainInv, [Next]_vars, Quiet' PROVE ChainTracksFile'
    BY TypeInvInductive DEF ChainInv
  <2>0. Quiet /\ ChainTracksFile /\ TypeInv
    <3>1. faults \subseteq faults'
      BY DEF Next, vars, Worker, Start, Signal, CloseCall, CloseReturn, Exit, Lose,
         Crash, Write, OneShotAppend, Take, StartDrain, WorkerExit, WriteRow,
         WriteFails, Sync, Emit, Record, Save, Stamp
    <3> QED
      BY <3>1 DEF Quiet, ChainInv
  <2> USE DEF procVars, queueVars, chainVars, diskVars
  <2>1. CASE Start
    BY <2>0, <2>1 DEF Start, ChainTracksFile
  <2>2. CASE Signal
    BY <2>0, <2>2 DEF Signal, ChainTracksFile
  <2>3. CASE CloseCall
    BY <2>0, <2>3 DEF CloseCall, ChainTracksFile
  <2>4. CASE CloseReturn
    <3>1. state'.nextSeq = nextSeq /\ state'.lastHash = lastHash
      BY <2>0, <2>4 DEF CloseReturn, Save, Record, Quiet
    <3> QED
      BY <2>0, <2>4, <3>1 DEF CloseReturn, WorkerDone, ChainTracksFile
  <2>5. CASE Exit
    BY <2>0, <2>5 DEF Exit, Lose, ChainTracksFile
  <2>6. CASE Crash
    BY <2>6 DEF Crash, Record, Quiet
  <2>7. CASE Write
    BY <2>0, <2>7 DEF Write, ChainTracksFile
  <2>8. CASE OneShotAppend
    BY <2>8 DEF OneShotAppend, Record, Quiet
  <2>9. CASE Take
    <3>1. Stamp(Head(queue))
      BY <2>0, <2>9 DEF Take, Quiet
    <3>2. phase \notin {"closed", "down"}
      BY <2>0, <2>9 DEF Take, ChainTracksFile
    <3>3. nextSeq = Len(file) /\ lastHash = TailDigest(file)
      BY <2>0, <2>9, <3>2 DEF Take, ChainTracksFile
    <3>4. /\ hand' = StampedRow(TailDigest(file), Len(file), hand'.ev)
          /\ nextSeq' = Len(file) + 1 /\ lastHash' = hand'.hash
      BY <3>1, <3>3 DEF Stamp, StampedRow
    <3>5. UNCHANGED <<file, phase>> /\ pc' = "write"
      BY <2>9 DEF Take
    <3> QED
      BY <2>0, <3>2, <3>4, <3>5 DEF ChainTracksFile
  <2>10. CASE StartDrain
    BY <2>0, <2>10 DEF StartDrain, ChainTracksFile
  <2>11. CASE WorkerExit
    BY <2>0, <2>11 DEF WorkerExit, ChainTracksFile
  <2>12. CASE WriteRow
    <3>1. phase \notin {"closed", "down"}
      BY <2>0, <2>12 DEF WriteRow, ChainTracksFile
    <3>2. /\ hand = StampedRow(TailDigest(file), Len(file), hand.ev)
          /\ nextSeq = Len(file) + 1 /\ lastHash = hand.hash /\ Linked(file)
      BY <2>0, <2>12, <3>1 DEF WriteRow, ChainTracksFile
    <3>3. file \in Seq(Line) /\ hand.ev \in Event
      BY <2>0 DEF TypeInv, TypeOK, Line
    <3>4. /\ file' = Append(file, hand)
          /\ Linked(file')
          /\ TailDigest(file') = hand.hash
      BY <2>12, <3>2, <3>3, LinkedAppend DEF WriteRow
    <3>5. Len(file') = Len(file) + 1
      BY <3>3, <3>4
    <3>6. pc' # "write" /\ UNCHANGED <<phase, nextSeq, lastHash>>
      BY <2>12 DEF WriteRow, Finish
    <3> QED
      BY <3>1, <3>2, <3>4, <3>5, <3>6 DEF ChainTracksFile
  <2>13. CASE WriteFails
    BY <2>13 DEF WriteFails, Record, Quiet
  <2>14. CASE Sync
    BY <2>0, <2>14 DEF Sync, Finish, ChainTracksFile
  <2>15. CASE Emit
    BY <2>0, <2>15 DEF Emit, ChainTracksFile
  <2>16. CASE UNCHANGED vars
    BY <2>0, <2>16 DEF vars, ChainTracksFile
  <2> QED
    BY <2>1, <2>2, <2>3, <2>4, <2>5, <2>6, <2>7, <2>8, <2>9, <2>10, <2>11,
       <2>12, <2>13, <2>14, <2>15, <2>16 DEF Next, Worker
<1>3. ChainInv => LogLinked
  BY DEF ChainInv, LogLinked, Quiet, ChainTracksFile
<1> QED
  BY <1>1, <1>2, <1>3, PTL DEF Spec

-----------------------------------------------------------------------------
\* The rows of the file and the worker that writes them.

\* Of a line appended to a file, only a row makes a row, at the end; the rows
\* that were there stay as and where they were.
LEMMA AppendLineRows ==
    ASSUME NEW f \in Seq(Line), NEW line \in Line
    PROVE  /\ Len(AppendLine(f, line)) \in {Len(f), Len(f) + 1}
           /\ \A i \in 1..Len(f) : f[i].kind = "row" => AppendLine(f, line)[i] = f[i]
           /\ \A i \in 1..Len(AppendLine(f, line)) : AppendLine(f, line)[i].kind = "row" =>
                 \/ i \in 1..Len(f) /\ AppendLine(f, line)[i] = f[i]
                 \/ i = Len(f) + 1 /\ AppendLine(f, line)[i] = line
<1>1. CASE EndsTorn(f)
  <2> DEFINE last == IF line.kind = "torn" THEN f[Len(f)] ELSE Garbled(line.ev)
  <2>1. Len(f) \in 1..Len(f) /\ f[Len(f)].kind = "torn"
    BY <1>1 DEF EndsTorn
  <2>2. last.kind # "row"
    BY <2>1 DEF Garbled, PlainLine
  <2>3. AppendLine(f, line) = [f EXCEPT ![Len(f)] = last]
    BY <1>1 DEF AppendLine
  <2> HIDE DEF last
  <2>4. /\ Len(AppendLine(f, line)) = Len(f)
        /\ \A i \in 1..Len(f) : AppendLine(f, line)[i] = IF i = Len(f) THEN last ELSE f[i]
    BY <2>1, <2>3
  <2> QED
    BY <2>1, <2>2, <2>4
<1>2. CASE ~EndsTorn(f)
  <2>1. AppendLine(f, line) = Append(f, line)
    BY <1>2 DEF AppendLine
  <2>2. /\ Len(Append(f, line)) = Len(f) + 1 /\ Len(f) \in Nat
        /\ Append(f, line)[Len(f) + 1] = line
        /\ \A i \in 1..Len(f) : Append(f, line)[i] = f[i]
    OBVIOUS
  <2> QED
    BY <2>1, <2>2
<1> QED
  BY <1>1, <1>2

\* A stopped worker and a closed log go together; the line the worker writes is
\* the row the chain has just advanced to, or has no chain fields.
HandIsHead ==
    /\ phase \in {"closed", "down"} => pc = "exited"
    /\ pc = "write" =>
          IF Chained THEN hand.kind = "row" /\ hand.seq = nextSeq - 1 /\ hand.hash = lastHash
                     ELSE hand.kind = "bare"
    /\ ~Chained => Rows = {}

BaseInv == TypeInv /\ HandIsHead

\* What the later invariants of the log rest on is itself inductive.
LEMMA BaseInvInductive ==
    /\ Init => BaseInv
    /\ BaseInv /\ [Next]_vars => BaseInv'
<1>1. Init => BaseInv
  BY TypeInvInductive DEF Init, BaseInv, HandIsHead, Rows
<1>2. BaseInv /\ [Next]_vars => BaseInv'
  <2> SUFFICES ASSUME BaseInv, [Next]_vars PROVE HandIsHead'
    BY TypeInvInductive DEF BaseInv
  <2> USE DEF HandIsHead, procVars, queueVars, chainVars, diskVars, Rows
  <2>0. TypeInv /\ HandIsHead /\ file \in Seq(Line) /\ hand \in Line
    BY DEF BaseInv, TypeInv, TypeOK
  <2>1. CASE Start \/ Signal \/ CloseCall \/ Exit \/ Crash \/ Write \/ StartDrain
    BY <2>0, <2>1 DEF Start, Signal, CloseCall, Exit, Lose, Crash, Write, StartDrain
  <2>2. CASE CloseReturn
    BY <2>0, <2>2 DEF CloseReturn, WorkerDone
  <2>3. CASE OneShotAppend
    <3>1. BareRow(issued + 1) \in Line /\ BareRow(issued + 1).kind = "bare"
      BY <2>0, LineTypes, NoDigestType DEF TypeInv, TypeOK, Event, BareRow, PlainLine
    <3>2. ~Chained => Rows' = {}
      BY <2>0, <2>3, <3>1, AppendLineRows DEF OneShotAppend
    <3> QED
      BY <2>0, <2>3, <3>2 DEF OneShotAppend
  <2>4. CASE Take
    <3>1. phase \notin {"closed", "down"}
      BY <2>0, <2>4 DEF Take
    <3>2. CASE Chained
      <4>1. hand' = StampedRow(lastHash, nextSeq, Head(queue)) /\ lastHash' = hand'.hash
        BY <2>4, <3>2 DEF Take, Stamp
      <4>2. nextSeq' = nextSeq + 1 /\ nextSeq \in Nat
        BY <2>0, <2>4, <3>2 DEF Take, Stamp, TypeInv, TypeOK
      <4>3. hand'.kind = "row" /\ hand'.seq = nextSeq
        BY <4>1 DEF StampedRow
      <4> QED
        BY <2>4, <3>1, <3>2, <4>1, <4>2, <4>3 DEF Take
    <3>3. CASE ~Chained
      BY <2>0, <2>4, <3>1, <3>3 DEF Take, BareRow, PlainLine
    <3> QED
      BY <3>2, <3>3
  <2>5. CASE WorkerExit \/ Sync \/ Emit
    BY <2>0, <2>5 DEF WorkerExit, Sync, Finish, Emit
  <2>6. CASE WriteRow
    <3>1. ~Chained => Rows' = {}
      BY <2>0, <2>6, AppendLineRows DEF WriteRow
    <3> QED
      BY <2>0, <2>6, <3>1 DEF WriteRow, Finish
  <2>7. CASE WriteFails
    <3>1. Torn(hand.ev) \in Line /\ Torn(hand.ev).kind = "torn"
      BY <2>0, LineTypes, NoDigestType DEF Line, Torn, PlainLine
    <3>2. ~Chained => Rows' = {}
      BY <2>0, <2>7, <3>1, AppendLineRows DEF WriteFails
    <3> QED
      BY <2>0, <2>7, <3>2 DEF WriteFails
  <2>8. CASE UNCHANGED vars
    BY <2>0, <2>8 DEF vars
  <2> QED
    BY <2>1, <2>2, <2>3, <2>4, <2>5, <2>6, <2>7, <2>8 DEF Next, Worker
<1> QED
  BY <1>1, <1>2

\* What the invariants below need of the types.
LEMMA RowFields ==
    ASSUME BaseInv
    PROVE  /\ file \in Seq(Line) /\ hand \in Line
           /\ nextSeq \in Nat /\ unsaved \in Nat /\ state.nextSeq \in Nat
           /\ \A i \in Rows : file[i].seq \in Nat
<1>1. file \in Seq(Line) /\ hand \in Line /\ nextSeq \in Nat /\ unsaved \in Nat /\ state \in StateFile
  BY DEF BaseInv, TypeInv, TypeOK
<1>2. \A i \in 1..Len(file) : file[i] \in Line
  BY <1>1
<1> QED
  BY <1>1, <1>2 DEF StateFile, Line, Rows

\* A step leaves the rows of the file as they were, but for the one that
\* WriteRow may add behind them.
LEMMA RowsAfterStep ==
    ASSUME BaseInv, [Next]_vars
    PROVE  /\ \A i \in Rows : i \in Rows' /\ file'[i] = file[i]
           /\ \A i \in Rows' : \/ i \in Rows /\ file'[i] = file[i]
                               \/ WriteRow /\ Chained /\ i = Len(file) + 1 /\ file'[i] = hand
<1>0. TypeInv /\ HandIsHead /\ file \in Seq(Line) /\ hand \in Line /\ Len(file) \in Nat
  BY DEF BaseInv, TypeInv, TypeOK
<1>1. CASE WriteRow
  <2>1. file' = AppendLine(file, hand)
    BY <1>1 DEF WriteRow
  <2>2. Chained \/ hand.kind # "row"
    BY <1>0, <1>1 DEF WriteRow, HandIsHead
  <2> QED
    BY <1>0, <1>1, <2>1, <2>2, AppendLineRows DEF Rows
<1>2. CASE WriteFails \/ OneShotAppend
  <2>1. PICK line \in Line : line.kind # "row" /\ (file' = AppendLine(file, line) \/ file' = file)
    <3>1. Torn(hand.ev) \in Line /\ Torn(hand.ev).kind = "torn"
      BY <1>0, LineTypes, NoDigestType DEF Line, Torn, PlainLine
    <3>2. BareRow(issued + 1) \in Line /\ BareRow(issued + 1).kind = "bare"
      BY <1>0, LineTypes, NoDigestType DEF TypeInv, TypeOK, Event, BareRow, PlainLine
    <3> QED
      BY <1>2, <3>1, <3>2 DEF WriteFails, OneShotAppend
  <2>2. file' = file \/ \A i \in 1..Len(file') : file'[i].kind = "row" =>
                              i \in 1..Len(file) /\ file'[i] = file[i]
    BY <1>0, <2>1, AppendLineRows
  <2>3. file' = file \/ /\ Len(file') \in {Len(file), Len(file) + 1}
                        /\ \A i \in 1..Len(file) : file[i].kind = "row" => file'[i] = file[i]
    BY <1>0, <2>1, AppendLineRows
  <2> QED
    BY <1>0, <2>2, <2>3 DEF Rows
<1>3. CASE UNCHANGED file
  BY <1>3 DEF Rows
<1>4. WriteRow \/ WriteFails \/ OneShotAppend \/ UNCHANGED file
  BY DEF Next, vars, Worker, diskVars, Start, Signal, CloseCall, CloseReturn, Exit, Lose,
     Crash, Write, Take, StartDrain, WorkerExit, Sync, Emit
<1> QED
  BY <1>1, <1>2, <1>3, <1>4

\* Faults are remembered.
LEMMA FaultsStay == [Next]_vars => faults \subseteq faults'
  BY DEF Next, vars, Worker, Start, Signal, CloseCall, CloseReturn, Exit, Lose, Crash, Write,
     OneShotAppend, Take, StartDrain, WorkerExit, WriteRow, WriteFails, Sync, Emit, Record,
     Save, Stamp

-----------------------------------------------------------------------------
\* Seqs are not reused.

Kept == faults \cap {"save", "crash"} = {}

(***************************************************************************)
(* Why seqs only grow: every row on disk is below the chain in memory, the *)
(* row in hand is the last one the chain gave out, and a process that ends *)
(* in order leaves a state that is above every row.                        *)
(***************************************************************************)
SeqsBelowChain ==
    /\ \A i, j \in Rows : i < j => file[i].seq < file[j].seq
    /\ phase # "down" =>
          \A i \in Rows : file[i].seq < IF pc = "write" THEN nextSeq - 1 ELSE nextSeq
    /\ phase \in {"closed", "down"} => \A i \in Rows : file[i].seq < state.nextSeq

SeqsInv == BaseInv /\ (Kept => SeqsBelowChain)

\* As long as the saved state is not lost, a seq is handed out once, whatever
\* writes fail (StampJSON before the write in writeOne; LoadChainState).
THEOREM SeqsAreUnique == Spec => []SeqsNeverReused
<1>1. Init => SeqsInv
  BY BaseInvInductive DEF Init, SeqsInv, SeqsBelowChain, Rows
<1>2. SeqsInv /\ [Next]_vars => SeqsInv'
  <2> SUFFICES ASSUME SeqsInv, [Next]_vars, Kept' PROVE SeqsBelowChain'
    BY BaseInvInductive DEF SeqsInv
  <2>0. /\ BaseInv /\ BaseInv' /\ SeqsBelowChain
        /\ nextSeq \in Nat /\ state.nextSeq \in Nat /\ file \in Seq(Line)
        /\ \A i \in Rows : file[i].seq \in Nat
    <3>1. Kept
      BY FaultsStay DEF Kept
    <3> QED
      BY <3>1, BaseInvInductive, RowFields DEF SeqsInv
  <2>1. CASE WriteRow
    <3>1. /\ pc = "write" /\ phase \notin {"closed", "down"} /\ pc' # "write"
          /\ UNCHANGED <<phase, nextSeq>>
      BY <2>0, <2>1 DEF WriteRow, Finish, BaseInv, HandIsHead, procVars, chainVars
    <3>2. \A i \in Rows : file[i].seq < nextSeq - 1
      BY <2>0, <3>1 DEF SeqsBelowChain
    <3>3. Chained => hand.seq = nextSeq - 1
      BY <2>0, <3>1 DEF BaseInv, HandIsHead
    <3>4. \A i \in Rows' : \/ i \in Rows /\ file'[i] = file[i] /\ file'[i].seq < nextSeq - 1
                           \/ i = Len(file) + 1 /\ file'[i].seq = nextSeq - 1
      BY <2>0, <3>2, <3>3, RowsAfterStep
    <3>5. \A i \in Rows : i < Len(file) + 1
      BY <2>0 DEF Rows
    <3>6. \A i \in Rows' : file'[i].seq < nextSeq
      BY <2>0, <3>4
    <3>7. ASSUME NEW i \in Rows', NEW j \in Rows', i < j PROVE file'[i].seq < file'[j].seq
      BY <2>0, <3>4, <3>5, <3>7 DEF SeqsBelowChain, Rows
    <3> QED
      BY <3>1, <3>6, <3>7 DEF SeqsBelowChain
  <2>2. CASE ~WriteRow
    <3>0. \A i \in Rows' : i \in Rows /\ file'[i] = file[i]
      BY <2>0, <2>2, RowsAfterStep
    <3>1. \A i, j \in Rows' : i < j => file'[i].seq < file'[j].seq
      BY <2>0, <3>0 DEF SeqsBelowChain
    <3>2. ASSUME phase' # "down"
          PROVE  \A i \in Rows : file[i].seq < IF pc' = "write" THEN nextSeq' - 1 ELSE nextSeq'
      <4> USE DEF procVars, queueVars, chainVars, diskVars
      <4>1. CASE Start
        BY <2>0, <4>1 DEF Start, SeqsBelowChain
      <4>2. CASE Take
        <5>1. pc' = "write" /\ phase # "down" /\ pc = "select"
          BY <2>0, <4>2, <3>2 DEF Take
        <5>2. Chained => nextSeq' = nextSeq + 1
          BY <4>2 DEF Take, Stamp
        <5>3. ~Chained => Rows = {}
          BY <2>0 DEF BaseInv, HandIsHead
        <5> QED
          BY <2>0, <5>1, <5>2, <5>3 DEF SeqsBelowChain
      <4>3. CASE WriteFails
        BY <2>0, <4>3, <3>2 DEF WriteFails, SeqsBelowChain
      <4>4. CASE UNCHANGED <<nextSeq, pc>> /\ phase # "down"
        BY <2>0, <4>4 DEF SeqsBelowChain
      <4>5. CASE WorkerExit \/ Sync \/ Emit
        BY <2>0, <4>5, <3>2 DEF WorkerExit, Sync, Finish, Emit, SeqsBelowChain
      <4>6. phase' = "down" \/ Start \/ Take \/ WriteFails \/ WriteRow
               \/ (UNCHANGED <<nextSeq, pc>> /\ phase # "down") \/ WorkerExit \/ Sync \/ Emit
        BY <3>2 DEF Next, vars, Worker, Signal, CloseCall, CloseReturn, Exit, Lose, Crash, Write,
           OneShotAppend, StartDrain
      <4> QED
        BY <2>2, <3>2, <4>1, <4>2, <4>3, <4>4, <4>5, <4>6
    <3>3. ASSUME phase' \in {"closed", "down"}
          PROVE  \A i \in Rows : file[i].seq < state'.nextSeq
      <4> USE DEF procVars, queueVars, chainVars, diskVars
      <4>1. CASE CloseReturn
        <5>1. Chained => state'.nextSeq = nextSeq
          BY <4>1 DEF CloseReturn, Save, Kept, Record
        <5>2. pc # "write" /\ phase # "down"
          BY <2>0, <4>1 DEF CloseReturn, WorkerDone
        <5>3. ~Chained => Rows = {}
          BY <2>0 DEF BaseInv, HandIsHead
        <5> QED
          BY <2>0, <5>1, <5>2, <5>3 DEF SeqsBelowChain
      <4>2. ~Crash
        BY DEF Crash, Record, Kept
      <4>3. CloseReturn \/ Crash \/ (phase \in {"closed", "down"} /\ UNCHANGED state)
        <5>1. pc # "exited" => phase \notin {"closed", "down"}
          BY <2>0 DEF BaseInv, HandIsHead
        <5> QED
          BY <3>3, <5>1 DEF Next, vars, Worker, Start, Signal, CloseCall, Exit, Lose, Write,
             OneShotAppend, Take, StartDrain, WorkerExit, WriteRow, WriteFails, Sync, Emit
      <4> QED
        BY <2>0, <4>1, <4>2, <4>3 DEF SeqsBelowChain
    <3> QED
      BY <3>0, <3>1, <3>2, <3>3 DEF SeqsBelowChain
  <2> QED
    BY <2>1, <2>2
<1>3. SeqsInv => SeqsNeverReused
  BY DEF SeqsInv, SeqsNeverReused, Kept, SeqsBelowChain
<1> QED
  BY <1>1, <1>2, <1>3, PTL DEF Spec

-----------------------------------------------------------------------------
\* A crash renumbers few rows.

(***************************************************************************)
(* Why: while the process runs, the chain in memory is ahead of the saved  *)
(* state by no more than the rows counted since the last save, which are   *)
(* fewer than SaveEveryN; the saved state never goes back.                 *)
(***************************************************************************)
StateFollows ==
    /\ \A i \in Rows : file[i].seq < state.nextSeq + SaveEveryN - 1
    /\ phase # "down" /\ Chained =>
          /\ state.nextSeq <= nextSeq /\ nextSeq <= state.nextSeq + unsaved
          /\ unsaved < SaveEveryN

StateInv == BaseInv /\ ("save" \notin faults => StateFollows)

\* Whatever crashes, no row is ahead of the saved state by the cadence of the
\* saves (chain.go saveEveryN, StampJSON).
THEOREM RenumberingIsBounded == Spec => []RenumberBound
<1>0. SaveEveryN \in Nat \ {0}
  BY ParamsAssumption
<1>1. Init => StateInv
  BY <1>0, BaseInvInductive DEF Init, StateInv, StateFollows, Rows
<1>2. StateInv /\ [Next]_vars => StateInv'
  <2> SUFFICES ASSUME StateInv, [Next]_vars, "save" \notin faults' PROVE StateFollows'
    BY BaseInvInductive DEF StateInv
  <2>0. /\ BaseInv /\ BaseInv' /\ StateFollows
        /\ nextSeq \in Nat /\ unsaved \in Nat /\ state.nextSeq \in Nat
        /\ nextSeq' \in Nat /\ unsaved' \in Nat /\ state'.nextSeq \in Nat
        /\ \A i \in Rows : file[i].seq \in Nat
    <3>1. BaseInv /\ BaseInv' /\ StateFollows
      BY FaultsStay, BaseInvInductive DEF StateInv
    <3>2. /\ nextSeq' \in Nat /\ unsaved' \in Nat /\ state'.nextSeq \in Nat
          /\ nextSeq \in Nat /\ unsaved \in Nat /\ state.nextSeq \in Nat
      BY <3>1 DEF BaseInv, TypeInv, TypeOK, StateFile
    <3> QED
      BY <3>1, <3>2, RowFields
  <2>1. /\ state.nextSeq <= state'.nextSeq
        /\ phase' # "down" /\ Chained =>
              /\ state'.nextSeq <= nextSeq' /\ nextSeq' <= state'.nextSeq + unsaved'
              /\ unsaved' < SaveEveryN
    <3> USE DEF procVars, queueVars, chainVars, diskVars
    <3>1. CASE Start
      BY <1>0, <2>0, <3>1 DEF Start
    <3>2. CASE Take
      <4>1. phase # "down"
        BY <2>0, <3>2 DEF Take, BaseInv, HandIsHead
      <4>2. CASE Chained
        <5>1. /\ nextSeq' = nextSeq + 1
              /\ SaveDue => unsaved' = 0 /\ state'.nextSeq = nextSeq'
              /\ ~SaveDue => unsaved' = unsaved + 1 /\ state' = state
          BY <3>2, <4>2 DEF Take, Stamp, Save, Record
        <5> QED
          BY <1>0, <2>0, <4>1, <4>2, <5>1 DEF StateFollows, SaveDue
      <4>3. CASE ~Chained
        <5>1. state' = state
          BY <3>2, <4>3 DEF Take
        <5> QED
          BY <2>0, <4>3, <5>1
      <4> QED
        BY <4>2, <4>3
    <3>3. CASE CloseReturn
      <4>1. /\ phase # "down" /\ UNCHANGED <<nextSeq, unsaved>>
            /\ IF Chained THEN state'.nextSeq = nextSeq ELSE state' = state
        BY <3>3 DEF CloseReturn, Save, Record
      <4> QED
        BY <2>0, <4>1 DEF StateFollows
    <3>4. \/ UNCHANGED <<state, nextSeq, unsaved>> /\ (phase # "down" \/ phase' = "down")
          \/ Start \/ Take \/ CloseReturn
      BY DEF Next, vars, Worker, Signal, CloseCall, Exit, Lose, Crash, Write, OneShotAppend,
         StartDrain, WorkerExit, WriteRow, WriteFails, Sync, Emit
    <3>5. CASE UNCHANGED <<state, nextSeq, unsaved>> /\ (phase # "down" \/ phase' = "down")
      BY <2>0, <3>5 DEF StateFollows
    <3> QED
      BY <3>1, <3>2, <3>3, <3>4, <3>5
  <2>2. ASSUME NEW i \in Rows' PROVE file'[i].seq < state'.nextSeq + SaveEveryN - 1
    <3>1. CASE i \in Rows /\ file'[i] = file[i]
      BY <1>0, <2>0, <2>1, <3>1 DEF StateFollows
    <3>2. CASE WriteRow /\ Chained /\ file'[i] = hand
      <4>1. /\ phase # "down" /\ hand.seq = nextSeq - 1
            /\ UNCHANGED <<nextSeq, unsaved, state, phase>>
        BY <2>0, <3>2 DEF WriteRow, BaseInv, HandIsHead, procVars, chainVars
      <4> QED
        BY <1>0, <2>0, <3>2, <4>1 DEF StateFollows
    <3> QED
      BY <2>0, <3>1, <3>2, RowsAfterStep
  <2> QED
    BY <2>1, <2>2 DEF StateFollows
<1>3. StateInv => RenumberBound
  BY DEF StateInv, RenumberBound, StateFollows
<1> QED
  BY <1>1, <1>2, <1>3, PTL DEF Spec

-----------------------------------------------------------------------------
\* Manifests.

\* A row on disk is the head of the chain.
Pinned(seq, head) == \E i \in Rows : file[i].seq = seq /\ file[i].hash = head

(***************************************************************************)
(* Why manifests hold: between the write and the emission the head of the  *)
(* chain is on disk, as long as no fragment has swallowed a row; and what  *)
(* the signer remembers having emitted is the end of one manifest, so the  *)
(* next one either begins right behind it or at 0.                         *)
(***************************************************************************)
HeadOnDisk ==
    /\ \A i \in 1..Len(file) : file[i].kind # "torn"
    /\ \A m \in manifests : Pinned(m.end, m.head)
    /\ Chained /\ pc \in {"sync", "emit"} => Pinned(nextSeq - 1, lastHash)

EmittedKnown == lastEmitted = -1 \/ \E m \in manifests : m.end = lastEmitted

ManifestInv ==
    /\ BaseInv
    /\ "torn" \notin faults => HeadOnDisk
    /\ EmittedKnown
    /\ ManifestsCover

\* What is pinned stays pinned.
LEMMA PinnedStays ==
    ASSUME BaseInv, [Next]_vars, NEW seq, NEW head, Pinned(seq, head)
    PROVE  Pinned(seq, head)'
  BY RowsAfterStep DEF Pinned

\* Without a fragment at its end, a file grows by the line that is appended.
LEMMA AppendUntorn ==
    ASSUME NEW f \in Seq(Line), NEW line \in Line,
           \A i \in 1..Len(f) : f[i].kind # "torn"
    PROVE  AppendLine(f, line) = Append(f, line)
<1>1. ~EndsTorn(f)
  BY DEF EndsTorn
<1> QED
  BY <1>1 DEF AppendLine

\* The invariant of the manifests and the tail they leave unpinned is inductive.
LEMMA ManifestInvInductive ==
    /\ Init => ManifestInv
    /\ ManifestInv /\ [Next]_vars => ManifestInv'
<1>1. Init => ManifestInv
  <2>1. Init => HeadOnDisk /\ EmittedKnown /\ ManifestsCover
    BY DEF Init, HeadOnDisk, EmittedKnown, ManifestsCover
  <2> QED
    BY <2>1, BaseInvInductive DEF ManifestInv
<1>2. ManifestInv /\ [Next]_vars => ManifestInv'
  <2> SUFFICES ASSUME ManifestInv, [Next]_vars PROVE ManifestInv'
    OBVIOUS
  <2>0. /\ BaseInv /\ BaseInv' /\ EmittedKnown /\ ManifestsCover
        /\ file \in Seq(Line) /\ hand \in Line /\ Len(file) \in Nat
        /\ nextSeq \in Nat
    BY BaseInvInductive, RowFields DEF ManifestInv
  <2>1. ASSUME "torn" \notin faults' PROVE HeadOnDisk'
    <3>0. "torn" \notin faults /\ HeadOnDisk
      BY <2>1, FaultsStay DEF ManifestInv
    <3>1. \A i \in 1..Len(file') : file'[i].kind # "torn"
      <4>1. CASE WriteRow
        <5>1. file' = Append(file, hand) /\ hand.kind # "torn"
          BY <2>0, <3>0, <4>1, AppendUntorn DEF WriteRow, HeadOnDisk, BaseInv, HandIsHead
        <5> QED
          BY <2>0, <3>0, <5>1 DEF HeadOnDisk
      <4>2. CASE OneShotAppend
        <5>1. BareRow(issued + 1) \in Line /\ BareRow(issued + 1).kind = "bare"
          BY <2>0, LineTypes, NoDigestType
             DEF BaseInv, TypeInv, TypeOK, Event, BareRow, PlainLine
        <5>2. file' = Append(file, BareRow(issued + 1))
          BY <2>0, <3>0, <4>2, <5>1, AppendUntorn DEF OneShotAppend, HeadOnDisk
        <5> QED
          BY <2>0, <3>0, <5>1, <5>2 DEF HeadOnDisk
      <4>3. CASE UNCHANGED file
        BY <3>0, <4>3 DEF HeadOnDisk
      <4>4. WriteRow \/ OneShotAppend \/ UNCHANGED file
        BY <2>1 DEF Next, vars, Worker, diskVars, Start, Signal, CloseCall, CloseReturn, Exit,
           Lose, Crash, Write, Take, StartDrain, WorkerExit, WriteFails, Sync, Emit, Record
      <4> QED
        BY <4>1, <4>2, <4>3, <4>4
    <3>2. ASSUME Chained, pc' \in {"sync", "emit"} PROVE Pinned(nextSeq - 1, lastHash)'
      <4>1. CASE WriteRow
        <5>1. /\ file' = Append(file, hand)
              /\ hand.kind = "row" /\ hand.seq = nextSeq - 1 /\ hand.hash = lastHash
              /\ UNCHANGED <<nextSeq, lastHash>>
          BY <2>0, <3>0, <3>2, <4>1, AppendUntorn
             DEF WriteRow, HeadOnDisk, BaseInv, HandIsHead, chainVars
        <5>2. Len(file) + 1 \in Rows' /\ file'[Len(file) + 1] = hand
          BY <2>0, <5>1 DEF Rows
        <5> QED
          BY <5>1, <5>2 DEF Pinned
      <4>2. CASE pc \in {"sync", "emit"} /\ UNCHANGED <<nextSeq, lastHash>>
        <5>1. Pinned(nextSeq - 1, lastHash)
          BY <3>0, <3>2, <4>2 DEF HeadOnDisk
        <5>2. \E i \in Rows' : file'[i].seq = nextSeq - 1 /\ file'[i].hash = lastHash
          BY <2>0, <5>1, RowsAfterStep DEF Pinned
        <5> QED
          BY <4>2, <5>2 DEF Pinned
      <4>3. WriteRow \/ (pc \in {"sync", "emit"} /\ UNCHANGED <<nextSeq, lastHash>>)
        BY <3>2 DEF Next, vars, Worker, chainVars, Start, Signal, CloseCall, CloseReturn, Exit,
           Lose, Crash, Write, OneShotAppend, Take, StartDrain, WorkerExit, WriteFails, Sync,
           Finish, Emit
      <4> QED
        BY <4>1, <4>2, <4>3
    <3>3. ASSUME NEW m \in manifests' PROVE Pinned(m.end, m.head)'
      <4>1. CASE m \in manifests
        BY <2>0, <3>0, <4>1, PinnedStays DEF HeadOnDisk
      <4>2. CASE m \notin manifests
        <5>1. Emit /\ m.end = nextSeq - 1 /\ m.head = lastHash
          BY <4>2 DEF Next, vars, Worker, diskVars, Start, Signal, CloseCall, CloseReturn, Exit,
             Lose, Crash, Write, OneShotAppend, Take, StartDrain, WorkerExit, WriteRow,
             WriteFails, Sync, Emit, HeadSeq
        <5>2. Pinned(nextSeq - 1, lastHash)
          BY <2>0, <3>0, <5>1 DEF Emit, HeadOnDisk, BaseInv, TypeInv, WorkerOK
        <5> QED
          BY <2>0, <5>1, <5>2, PinnedStays
      <4> QED
        BY <4>1, <4>2
    <3> QED
      BY <3>1, <3>2, <3>3 DEF HeadOnDisk
  <2>2. EmittedKnown' /\ ManifestsCover'
    <3>1. CASE Emit
      <4>0. nextSeq > 0 /\ lastEmitted \in Nat \cup {-1} /\ manifests \subseteq Manifest
        BY <2>0, <3>1 DEF Emit, BaseInv, TypeInv, TypeOK, WorkerOK
      <4>1. CASE UNCHANGED <<manifests, lastEmitted>>
        BY <2>0, <4>1 DEF EmittedKnown, ManifestsCover
      <4>2. CASE ~UNCHANGED <<manifests, lastEmitted>>
        <5> DEFINE new == [start |-> SeqStart, end |-> HeadSeq, head |-> lastHash]
        <5>1. manifests' = manifests \cup {new} /\ lastEmitted' = HeadSeq
          BY <3>1, <4>2 DEF Emit
        <5>2. /\ new.end = nextSeq - 1
              /\ new.start = IF lastEmitted + 1 > nextSeq - 1 THEN nextSeq - 1 ELSE lastEmitted + 1
          BY DEF HeadSeq, SeqStart
        <5>3. new.end = HeadSeq
          OBVIOUS
        <5> HIDE DEF new
        <5>4. ASSUME NEW s \in 0..new.end
              PROVE  \E n \in manifests' : n.start <= s /\ s <= n.end
          <6>1. CASE new.start <= s
            BY <5>1, <6>1
          <6>2. CASE s < new.start
            <7>1. s <= lastEmitted /\ lastEmitted \in Nat
              BY <2>0, <4>0, <5>2, <5>4, <6>2
            <7>2. PICK m \in manifests : m.end = lastEmitted
              BY <2>0, <7>1 DEF EmittedKnown
            <7> QED
              BY <2>0, <5>1, <7>1, <7>2 DEF ManifestsCover
          <6> QED
            BY <2>0, <4>0, <5>2, <6>1, <6>2
        <5> QED
          BY <2>0, <5>1, <5>3, <5>4 DEF EmittedKnown, ManifestsCover
      <4> QED
        BY <4>1, <4>2
    <3>2. CASE UNCHANGED manifests /\ (UNCHANGED lastEmitted \/ lastEmitted' = -1)
      BY <2>0, <3>2 DEF EmittedKnown, ManifestsCover
    <3>3. Emit \/ (UNCHANGED manifests /\ (UNCHANGED lastEmitted \/ lastEmitted' = -1))
      BY DEF Next, vars, Worker, diskVars, Start, Signal, CloseCall, CloseReturn, Exit, Lose,
         Crash, Write, OneShotAppend, Take, StartDrain, WorkerExit, WriteRow, WriteFails, Sync
    <3> QED
      BY <3>1, <3>2, <3>3
  <2> QED
    BY <2>0, <2>1, <2>2 DEF ManifestInv
<1> QED
  BY <1>1, <1>2

\* The heads of the manifests are rows of the file and their ranges leave out
\* nothing, over failed emissions, crashes and restarts (writeOne, ShouldEmit
\* and Emit).
THEOREM CheckpointsHold == Spec => []ManifestsHold
<1>1. ManifestInv => ManifestsHold
  BY DEF ManifestInv, ManifestsHold, ManifestsPinRows, HeadOnDisk, Pinned
<1> QED
  BY ManifestInvInductive, <1>1, PTL DEF Spec

-----------------------------------------------------------------------------
\* The tail no manifest pins.

(***************************************************************************)
(* Why the tail is short although a restart forgets LastEmittedSeq: between *)
(* two rows the chain is within an interval of genesis or of the end of a  *)
(* manifest, a row in hand is one further, and the saved state is where    *)
(* the last process left the chain.                                        *)
(***************************************************************************)
NearPinned(n) == n < Interval \/ \E m \in manifests : n - 1 - m.end < Interval

TailPinned ==
    /\ phase # "down" =>
          NearPinned(IF pc \in {"write", "sync", "emit"} THEN nextSeq - 1 ELSE nextSeq)
    /\ phase \in {"closed", "down"} => NearPinned(state.nextSeq)

TailInv == ManifestInv /\ (Chained /\ faults = {} => TailPinned)

\* Without faults the rows behind the last pinned one are fewer than the
\* interval, whatever the restarts (ShouldEmit, Emit, LoadChainState).
THEOREM TailIsPinned == Spec => []UnpinnedTailBounded
<1>0. Interval \in Nat \ {0}
  BY ParamsAssumption
<1>1. Init => TailInv
  BY <1>0, ManifestInvInductive DEF Init, TailInv, TailPinned, NearPinned, NoState
<1>2. TailInv /\ [Next]_vars => TailInv'
  <2> SUFFICES ASSUME TailInv, [Next]_vars, Chained, faults' = {} PROVE TailPinned'
    BY ManifestInvInductive DEF TailInv
  <2>0. /\ HandIsHead /\ EmittedKnown /\ TailPinned /\ faults = {}
        /\ nextSeq \in Nat /\ state.nextSeq \in Nat
        /\ lastEmitted \in Nat \cup {-1}
        /\ \A m \in manifests : m.end \in Nat
    BY FaultsStay, RowFields
       DEF TailInv, ManifestInv, BaseInv, TypeInv, TypeOK, WorkerOK, Manifest
  <2> USE DEF procVars, queueVars, chainVars, diskVars
  <2>1. CASE Start
    BY <2>0, <2>1 DEF Start, TailPinned, NearPinned
  <2>2. CASE Take
    <3>1. nextSeq' = nextSeq + 1 /\ UNCHANGED <<manifests, phase>> /\ pc' = "write" /\ pc = "select"
      BY <2>2 DEF Take, Stamp
    <3>2. phase \notin {"closed", "down"}
      BY <2>0, <3>1 DEF HandIsHead
    <3> QED
      BY <2>0, <3>1, <3>2 DEF TailPinned, NearPinned
  <2>3. CASE CloseReturn
    <3>1. /\ state'.nextSeq = nextSeq /\ UNCHANGED <<nextSeq, manifests, pc>>
          /\ phase = "closing" /\ pc = "exited"
      BY <2>3 DEF CloseReturn, WorkerDone, Save, Record
    <3> QED
      BY <2>0, <3>1 DEF TailPinned, NearPinned
  <2>4. CASE (WriteRow \/ Sync) /\ pc' = "select"
    <3>1. /\ UNCHANGED <<nextSeq, manifests, phase, lastEmitted>> /\ pc \in {"write", "sync"}
          /\ ~ShouldEmit
      BY <2>4 DEF WriteRow, Sync, Finish, Record
    <3>2. phase \notin {"closed", "down"}
      BY <2>0, <3>1 DEF HandIsHead
    <3>3. NearPinned(nextSeq)
      <4>1. CASE lastEmitted = -1
        BY <1>0, <2>0, <3>1, <4>1 DEF ShouldEmit, HeadSeq, NearPinned
      <4>2. CASE lastEmitted # -1
        <5>1. PICK m \in manifests : m.end = lastEmitted
          BY <2>0, <4>2 DEF EmittedKnown
        <5> QED
          BY <1>0, <2>0, <3>1, <4>2, <5>1 DEF ShouldEmit, HeadSeq, NearPinned
      <4> QED
        BY <4>1, <4>2
    <3> QED
      BY <2>4, <3>1, <3>2, <3>3 DEF TailPinned, NearPinned
  <2>5. CASE Emit
    <3>1. /\ UNCHANGED <<nextSeq, phase>> /\ pc = "emit" /\ pc' = "select"
          /\ [start |-> SeqStart, end |-> nextSeq - 1, head |-> lastHash] \in manifests'
      BY <2>5 DEF Emit, HeadSeq, Record
    <3>2. phase \notin {"closed", "down"}
      BY <2>0, <3>1 DEF HandIsHead
    <3> QED
      <4>1. \E m \in manifests' : m.end = nextSeq - 1
        BY <3>1
      <4> QED
        BY <1>0, <2>0, <3>1, <3>2, <4>1 DEF TailPinned, NearPinned
  <2>6. CASE /\ UNCHANGED <<nextSeq, state, manifests>>
             /\ (pc' \in {"write", "sync", "emit"} <=> pc \in {"write", "sync", "emit"})
             /\ phase = phase' \/ phase' = "closing" \/ (phase = "closed" /\ phase' = "down")
             /\ phase = "down" => phase' = "down"
    BY <2>0, <2>6 DEF TailPinned, NearPinned
  <2>7. \/ Start \/ Take \/ CloseReturn \/ Emit
        \/ (WriteRow \/ Sync) /\ pc' = "select"
        \/ /\ UNCHANGED <<nextSeq, state, manifests>>
           /\ (pc' \in {"write", "sync", "emit"} <=> pc \in {"write", "sync", "emit"})
           /\ phase = phase' \/ phase' = "closing" \/ (phase = "closed" /\ phase' = "down")
           /\ phase = "down" => phase' = "down"
    <3>1. ~Crash /\ ~WriteFails
      BY DEF Crash, WriteFails, Record
    <3>2. CASE WriteRow \/ Sync
      BY <3>2 DEF WriteRow, Sync, Finish, Record
    <3>3. CASE Exit
      BY <2>0, <3>3 DEF Exit, Lose, HandIsHead
    <3>4. CASE ~(WriteRow \/ Sync \/ Exit)
      BY <3>1, <3>4 DEF Next, vars, Worker, Signal, CloseCall, Write, OneShotAppend, StartDrain,
         WorkerExit, Record
    <3> QED
      BY <3>2, <3>3, <3>4
  <2> QED
    BY <2>1, <2>2, <2>3, <2>4, <2>5, <2>6, <2>7
<1>3. TailInv => UnpinnedTailBounded
  BY DEF TailInv, TailPinned, NearPinned, UnpinnedTailBounded
<1> QED
  BY <1>1, <1>2, <1>3, PTL DEF Spec

-----------------------------------------------------------------------------
\* What Close waits for.

(***************************************************************************)
(* Why: with a live context the worker begins to drain only after Close    *)
(* was called, and leaves only when the queue is empty; what is queued     *)
(* behind it is an event issued after the call, so it is not owed.         *)
(***************************************************************************)
OwedLeaves ==
    /\ \A i \in 1..Len(queue) : queue[i] <= issued
    /\ \A e \in owed : e <= issued
    /\ ~ctxDone /\ phase = "up" => ~draining /\ pc # "exited"
    /\ ~ctxDone /\ phase \in {"closing", "closed"} /\ pc = "exited" =>
          \A i \in 1..Len(queue) : queue[i] \notin owed

DrainInv == BaseInv /\ OwedLeaves

\* Close of a live context returns after the events queued at its call have
\* left the queue, whatever is written meanwhile (run, drainRemaining, Close).
THEOREM CloseDrainsTheQueue == Spec => []CloseDrainsUnlessSignalled
<1>1. Init => DrainInv
  BY BaseInvInductive DEF Init, DrainInv, OwedLeaves
<1>2. DrainInv /\ [Next]_vars => DrainInv'
  <2> SUFFICES ASSUME DrainInv, [Next]_vars PROVE OwedLeaves'
    BY BaseInvInductive DEF DrainInv
  <2>0. /\ HandIsHead /\ OwedLeaves /\ issued \in Nat /\ owed \subseteq Nat
        /\ ctxDone \in BOOLEAN /\ draining \in BOOLEAN
        /\ queue \in Seq(Nat) /\ \A i \in 1..Len(queue) : queue[i] \in Nat
    <3>1. ctxDone \in BOOLEAN /\ draining \in BOOLEAN
      BY DEF DrainInv, BaseInv, TypeInv, TypeOK
    <3>2. queue \in Seq(Event) /\ issued \in Nat /\ owed \subseteq Event
      BY DEF DrainInv, BaseInv, TypeInv, TypeOK
    <3> QED
      BY <3>1, <3>2 DEF DrainInv, BaseInv, Event
  <2> USE DEF procVars, queueVars, chainVars, diskVars
  <2>1. CASE Start
    BY <2>0, <2>1 DEF Start, OwedLeaves
  <2>2. CASE CloseCall
    BY <2>0, <2>2 DEF CloseCall, OwedLeaves
  <2>3. CASE Write
    <3>1. CASE UNCHANGED queue
      BY <2>0, <2>3, <3>1 DEF Write, OwedLeaves
    <3>2. CASE queue' = Append(queue, issued + 1)
      <4>1. /\ issued + 1 \in Nat
            /\ \A i \in 1..Len(queue') :
                  (i \in 1..Len(queue) /\ queue'[i] = queue[i]) \/ queue'[i] = issued + 1
        BY <2>0, <3>2
      <4>2. issued + 1 \notin owed /\ issued' = issued + 1
        BY <2>0, <2>3 DEF Write, OwedLeaves
      <4> QED
        BY <2>0, <2>3, <4>1, <4>2 DEF Write, OwedLeaves
    <3> QED
      BY <2>3, <3>1, <3>2 DEF Write
  <2>4. CASE Take
    <3>1. /\ pc = "select" /\ pc' = "write" /\ queue # <<>> /\ queue' = Tail(queue)
          /\ UNCHANGED <<phase, ctxDone, issued, owed, draining>>
      BY <2>4 DEF Take
    <3>2. \A i \in 1..Len(queue') : i + 1 \in 1..Len(queue) /\ queue'[i] = queue[i + 1]
      BY <2>0, <3>1
    <3> QED
      BY <2>0, <3>1, <3>2 DEF OwedLeaves
  <2>5. CASE Exit \/ Crash
    <3>1. queue' = <<>> /\ phase' = "down" /\ UNCHANGED <<issued, owed, ctxDone>>
      BY <2>5 DEF Exit, Crash, Lose
    <3>2. Len(queue') = 0
      BY <3>1
    <3> QED
      BY <2>0, <3>1, <3>2 DEF OwedLeaves
  <2>6. CASE WorkerExit
    BY <2>0, <2>6 DEF WorkerExit, DrainedAll, OwedLeaves
  <2>7. CASE StartDrain \/ Signal
    BY <2>0, <2>7 DEF StartDrain, Signal, OwedLeaves
  <2>8. CASE OneShotAppend
    BY <2>0, <2>8 DEF OneShotAppend, OwedLeaves
  <2>9. CASE CloseReturn \/ UNCHANGED vars
    <3>1. /\ UNCHANGED <<queue, issued, owed, ctxDone, draining, pc>>
          /\ UNCHANGED phase \/ (phase = "closing" /\ phase' = "closed")
      BY <2>9 DEF CloseReturn, vars
    <3> QED
      BY <2>0, <3>1 DEF OwedLeaves
  <2>10. CASE WriteRow \/ WriteFails \/ Sync \/ Emit
    <3>1. pc' # "exited" /\ UNCHANGED <<queue, phase, issued, owed, ctxDone, draining>>
      BY <2>10 DEF WriteRow, WriteFails, Sync, Finish, Emit
    <3>2. pc # "exited"
      BY <2>10 DEF WriteRow, WriteFails, Sync, Emit
    <3> QED
      BY <2>0, <3>1, <3>2 DEF OwedLeaves
  <2> QED
    BY <2>1, <2>2, <2>3, <2>4, <2>5, <2>6, <2>7, <2>8, <2>9, <2>10 DEF Next, Worker
<1>3. DrainInv => CloseDrainsUnlessSignalled
  BY DEF DrainInv, BaseInv, HandIsHead, OwedLeaves, CloseDrainsUnlessSignalled
<1> QED
  BY <1>1, <1>2, <1>3, PTL DEF Spec

-----------------------------------------------------------------------------
\* The log implements the sink.

\* Pending events, with and without a row in hand, are sequences of events.
LEMMA PendingSequences ==
    ASSUME NEW q \in Seq(Event), NEW e \in Event
    PROVE  /\ <<>> \o q = q
           /\ <<e>> \o q \in Seq(Event) /\ <<e>> \o q # <<>>
           /\ Head(<<e>> \o q) = e /\ Tail(<<e>> \o q) = q
           /\ \A x \in Event : <<e>> \o Append(q, x) = Append(<<e>> \o q, x)
           /\ q # <<>> => <<Head(q)>> \o Tail(q) = q
  OBVIOUS

\* A line that does not count as this writer's adds no place, and neither does
\* one a fragment swallows; any other adds the last place.
LEMMA PlacesAfterAppend ==
    ASSUME file \in Seq(Line), NEW line \in Line, file' = AppendLine(file, line)
    PROVE  \/ Delivered' = Delivered
           \/ /\ Readable(line)
              /\ Delivered' = [i \in Places \cup {Len(file) + 1} |->
                                  IF i = Len(file) + 1 THEN line.ev ELSE Delivered[i]]
<1>1. CASE EndsTorn(file)
  <2> DEFINE last == IF line.kind = "torn" THEN file[Len(file)] ELSE Garbled(line.ev)
  <2>1. Len(file) \in 1..Len(file) /\ file[Len(file)].kind = "torn"
    BY <1>1 DEF EndsTorn
  <2>2. ~Readable(last) /\ ~Readable(file[Len(file)])
    BY <2>1 DEF Garbled, PlainLine, Readable
  <2>3. file' = [file EXCEPT ![Len(file)] = last]
    BY <1>1 DEF AppendLine
  <2> HIDE DEF last
  <2>4. /\ Len(file') = Len(file)
        /\ \A i \in 1..Len(file) : file'[i] = IF i = Len(file) THEN last ELSE file[i]
    BY <2>1, <2>3
  <2>5. Places' = Places /\ \A i \in Places : file'[i] = file[i]
    BY <2>1, <2>2, <2>4 DEF Places, Readable
  <2> QED
    BY <2>5 DEF Delivered
<1>2. CASE ~EndsTorn(file)
  <2>1. file' = Append(file, line)
    BY <1>2 DEF AppendLine
  <2>2. /\ Len(file') = Len(file) + 1 /\ Len(file) \in Nat
        /\ file'[Len(file) + 1] = line
        /\ \A i \in 1..Len(file) : file'[i] = file[i]
    BY <2>1
  <2>3. CASE Readable(line)
    <3>1. Places' = Places \cup {Len(file) + 1}
      BY <2>2, <2>3 DEF Places, Readable
    <3>2. Len(file) + 1 \notin Places /\ \A i \in Places : i \in 1..Len(file)
      BY <2>2 DEF Places
    <3> QED
      BY <2>2, <2>3, <3>1, <3>2 DEF Delivered
  <2>4. CASE ~Readable(line)
    <3>1. Places' = Places /\ \A i \in Places : file'[i] = file[i]
      BY <2>2, <2>4 DEF Places, Readable
    <3> QED
      BY <3>1 DEF Delivered
  <2> QED
    BY <2>3, <2>4
<1> QED
  BY <1>1, <1>2

\* The worker's row in hand, if any, is the oldest pending event.
LEMMA PendingTypes ==
    ASSUME BaseInv
    PROVE  /\ queue \in Seq(Event) /\ file \in Seq(Line) /\ hand \in Line
           /\ hand.ev \in Event /\ issued + 1 \in Event
           /\ Pending = IF pc = "write" THEN <<hand.ev>> \o queue ELSE queue
           /\ Pending \in Seq(Event)
<1>1. queue \in Seq(Event) /\ file \in Seq(Line) /\ hand \in Line /\ issued + 1 \in Event
  BY DEF BaseInv, TypeInv, TypeOK, Event
<1>2. hand.ev \in Event
  BY <1>1 DEF Line
<1> QED
  BY <1>1, <1>2, PendingSequences DEF Pending

\* Each step of the log is one of the sink, or changes nothing it shows.
LEMMA StepImplementsSink ==
    ASSUME BaseInv, [Next]_vars, Chained \/ "oneshot" \notin FaultKinds
    PROVE  [Sink!Next]_Sink!vars
<1> USE DEF procVars, queueVars, chainVars, diskVars
<1>0. /\ queue \in Seq(Event) /\ file \in Seq(Line) /\ hand \in Line
      /\ hand.ev \in Event /\ issued + 1 \in Event
      /\ Pending = IF pc = "write" THEN <<hand.ev>> \o queue ELSE queue
      /\ HandIsHead
  BY PendingTypes DEF BaseInv
<1>1. BaseInv' /\ Pending' = IF pc' = "write" THEN <<hand'.ev>> \o queue' ELSE queue'
  <2>1. BaseInv'
    BY BaseInvInductive
  <2>2. queue' \in Seq(Event)
    BY <2>1 DEF BaseInv, TypeInv, TypeOK
  <2> QED
    BY <2>1, <2>2 DEF Pending
<1>2. UNCHANGED file => Delivered' = Delivered
  BY DEF Delivered, Places
<1>3. CASE Write
  <2>1. /\ issued' = issued + 1 /\ UNCHANGED <<file, pc, hand>>
        /\ UNCHANGED queue \/ queue' = Append(queue, issued + 1)
    BY <1>3 DEF Write
  <2>2. CASE UNCHANGED queue
    BY <1>0, <1>1, <1>2, <2>1, <2>2 DEF Sink!Next, Sink!Refuse
  <2>3. CASE queue' = Append(queue, issued + 1)
    <3>1. Pending' = Append(Pending, issued + 1)
      BY <1>0, <1>1, <2>1, <2>3, PendingSequences
    <3> QED
      BY <1>2, <2>1, <3>1 DEF Sink!Next, Sink!Accept
  <2> QED
    BY <2>1, <2>2, <2>3
<1>4. CASE OneShotAppend
  <2>1. /\ issued' = issued + 1 /\ UNCHANGED <<queue, pc, hand>>
        /\ file' = AppendLine(file, BareRow(issued + 1)) /\ Chained
    BY <1>4 DEF OneShotAppend, MayFail
  <2>2. BareRow(issued + 1) \in Line /\ ~Readable(BareRow(issued + 1))
    BY <1>0, <2>1, LineTypes, NoDigestType DEF BareRow, PlainLine, Readable
  <2>3. Delivered' = Delivered
    BY <1>0, <2>1, <2>2, PlacesAfterAppend
  <2> QED
    BY <1>0, <1>1, <2>1, <2>3 DEF Sink!Next, Sink!Refuse
<1>5. CASE Take
  <2>1. /\ queue # <<>> /\ pc = "select" /\ pc' = "write"
        /\ queue' = Tail(queue) /\ hand'.ev = Head(queue) /\ UNCHANGED <<issued, file>>
    BY <1>5 DEF Take, Stamp, StampedRow, BareRow, PlainLine
  <2>2. Head(queue) \in Event
    BY <1>0, <2>1
  <2>3. Pending' = Pending
    BY <1>0, <1>1, <2>1, <2>2, PendingSequences
  <2> QED
    BY <1>2, <2>1, <2>3 DEF Sink!vars
<1>6. CASE WriteRow \/ WriteFails
  <2>1. /\ pc = "write" /\ pc' # "write" /\ UNCHANGED <<queue, issued>>
    BY <1>6 DEF WriteRow, WriteFails, Finish
  <2>2. Pending # <<>> /\ Head(Pending) = hand.ev /\ Pending' = Tail(Pending)
    BY <1>0, <1>1, <2>1, PendingSequences
  <2>3. CASE Delivered' = Delivered
    BY <2>1, <2>2, <2>3 DEF Sink!Next, Sink!LoseOne
  <2>4. CASE Delivered' = [i \in Places \cup {Len(file) + 1} |->
                              IF i = Len(file) + 1 THEN hand.ev ELSE Delivered[i]]
    <3>1. DOMAIN Delivered = Places /\ DOMAIN Delivered' = Places \cup {Len(file) + 1}
      BY <2>4 DEF Delivered
    <3>2. \A i \in Places : i < Len(file) + 1
      BY <1>0 DEF Places
    <3> QED
      BY <2>1, <2>2, <2>4, <3>1, <3>2 DEF Sink!Next, Sink!Deliver
  <2>5. \/ Delivered' = Delivered
        \/ Delivered' = [i \in Places \cup {Len(file) + 1} |->
                            IF i = Len(file) + 1 THEN hand.ev ELSE Delivered[i]]
    <3>1. CASE WriteRow
      BY <1>0, <3>1, PlacesAfterAppend DEF WriteRow
    <3>2. CASE WriteFails /\ ~UNCHANGED file
      <4>1. Torn(hand.ev) \in Line /\ ~Readable(Torn(hand.ev))
        BY <1>0, LineTypes, NoDigestType DEF Torn, PlainLine, Readable
      <4>2. file' = AppendLine(file, Torn(hand.ev))
        BY <3>2 DEF WriteFails
      <4> QED
        BY <1>0, <4>1, <4>2, PlacesAfterAppend
    <3> QED
      BY <1>2, <1>6, <3>1, <3>2
  <2> QED
    BY <2>3, <2>4, <2>5
<1>7. CASE Start \/ Exit \/ Crash
  <2>1. pc' # "write" /\ queue' = <<>> /\ UNCHANGED <<issued, file>>
    BY <1>7 DEF Start, Exit, Crash, Lose
  <2>2. Pending' = <<>>
    BY <1>1, <2>1
  <2> QED
    BY <1>2, <2>1, <2>2 DEF Sink!Next, Sink!Abandon
<1>8. CASE UNCHANGED <<issued, file, queue>> /\ pc # "write" /\ pc' # "write"
  BY <1>0, <1>1, <1>2, <1>8 DEF Sink!vars
<1>9. CASE UNCHANGED <<issued, file, queue, pc, hand>>
  BY <1>0, <1>1, <1>2, <1>9 DEF Sink!vars
<1>10. \/ Write \/ OneShotAppend \/ Take \/ WriteRow \/ WriteFails \/ Start \/ Exit \/ Crash
       \/ UNCHANGED <<issued, file, queue>> /\ pc # "write" /\ pc' # "write"
       \/ UNCHANGED <<issued, file, queue, pc, hand>>
  BY DEF Next, vars, Worker, Signal, CloseCall, CloseReturn, StartDrain, WorkerExit, Sync,
     Finish, Emit
<1> QED
  BY <1>3, <1>4, <1>5, <1>6, <1>7, <1>8, <1>9, <1>10

\* LogWriter implements the sink whatever fails, crashes and restarts, unless
\* rows of a one-shot writer cannot be told from its own (log.go).
THEOREM LogImplementsSink ==
    ASSUME Chained \/ "oneshot" \notin FaultKinds
    PROVE  Spec => ImplementsSink
<1>1. Init => Sink!Init
  <2> SUFFICES ASSUME Init PROVE Sink!Init
    OBVIOUS
  <2>1. Places = {}
    BY DEF Init, Places
  <2>2. Pending = <<>>
    BY EmptyTypes, PendingSequences DEF Init, Pending
  <2> QED
    BY <2>1, <2>2 DEF Init, Sink!Init, Delivered
<1>2. BaseInv /\ [Next]_vars => [Sink!Next]_Sink!vars
  BY StepImplementsSink
<1> QED
  BY <1>1, <1>2, BaseInvInductive, PTL DEF Spec, ImplementsSink, Sink!Spec
===========================================================================
