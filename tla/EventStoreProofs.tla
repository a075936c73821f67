-------------------------- MODULE EventStoreProofs --------------------------
(* What holds of the event store for any number of writers, readers and    *)
(* batches, whoever is killed at whatever step.                            *)
EXTENDS EventStore, DataLemmas, FiniteSetTheorems, TLAPS

(* The phases of a writer that has the lock ...                            *)
Surveyed  == {"import", "flushImport", "recover", "flushRecovered", "restate",
              "flushRestated", "check", "flushSegment", "claim", "flushClaim",
              "flushState", "saved"}
Holding   == {"survey"} \cup Surveyed
(* ... that trusts its summary, and whose batch has become a segment.      *)
Trusting  == {"restate", "flushRestated", "check"}
Durable   == {"claim", "flushClaim", "flushState", "saved"}
Committed == {"flushSegment"} \cup Durable

(* One writer at a time has the lock, and it has something to do.          *)
WritersHold ==
  \A w \in Writers :
    /\ pc[w] \in Holding => lock = w
    /\ pc[w] # "idle" => batch[w] \in Batches /\ batch[w] \in Batch
    /\ pc[w] = "import" => imported[w] \notin {None, {}}
    /\ imported[w] # None => imported[w] \subseteq Legacy

(* What is accepted is there, and was flushed.                             *)
AcceptedHold ==
  /\ accepted \subseteq segments \ unflushed.segments
  /\ \A w \in Writers : pc[w] \in Committed => NewSegment(w) \in segments
  /\ \A w \in Writers : pc[w] \in Durable => NewSegment(w) \notin unflushed.segments

(* A reader will find what it owes, in the segments or in events.jsonl.    *)
ReadersHold ==
  \A r \in Readers :
    /\ pc[r] # "idle" => owed[r] \subseteq EventsOf(listed[r]) \cup Legacy
    /\ pc[r] = "legacy" => listed[r] = {}
    /\ losses = 0 => listed[r] \subseteq segments

Base == TypeOK /\ IsFiniteSet(segments) /\ WritersHold /\ AcceptedHold /\ ReadersHold

-----------------------------------------------------------------------------
(* While the power is on: only the last segment may lack claims, and no    *)
(* summary tells of a segment that lacks one.                              *)
ClaimsHold ==
  /\ \A e \in Events : claims[e] # 0 =>
       \E s \in segments : s.seq = claims[e] /\ e \in s.batch
  /\ \A s \in segments : s.seq < Cardinality(segments) =>
       \A e \in s.batch : claims[e] = s.seq
  /\ state # None =>
       /\ state.last <= Cardinality(segments)
       /\ \A s \in segments : s.seq <= state.last => \A e \in s.batch : claims[e] = s.seq

(* What the writer that has the lock knows of the segments.                *)
WriterKnows(w) ==
  /\ pc[w] = "import" => segments = {}
  /\ pc[w] \in {"import", "flushImport", "recover", "flushRecovered"} => loaded[w] = state
  /\ pc[w] \in Trusting => /\ ClaimedFor(segments)
                           /\ known[w].last = Cardinality(segments)
                           /\ known[w].size = Size(segments)
  /\ pc[w] \in Committed => known[w].last + 1 = Cardinality(segments)

Powered ==
  losses = 0 => InOrder(segments) /\ ClaimsHold /\ \A w \in Writers : WriterKnows(w)

(* While nobody writes to events.jsonl either, it is what was imported,    *)
(* and every summary says so.                                              *)
LegacyHolds ==
  /\ legacy \in Legacies
  /\ state # None => state.legacy = legacy
  /\ state = None => segments = {} \/ ImportOf(segments, legacy)
  /\ segments = {} \/ legacy \in {None, {}} \/ ImportOf(segments, legacy)
  /\ accepted # {} => state # None
  /\ \A w \in Writers :
       /\ pc[w] \in Surveyed => imported[w] = legacy
       /\ pc[w] \in Surveyed \ {"import"} => segments # {} \/ legacy \in {None, {}}
       /\ pc[w] \in Trusting \cup Committed => known[w].legacy = legacy
       /\ pc[w] \in {"flushRestated", "check"} \cup Committed => state # None
       /\ pc[w] # "refused"

Untouched == oldWrites = 0 /\ losses = 0 => LegacyHolds

IInv == Base /\ Powered /\ Untouched

-----------------------------------------------------------------------------
(* Sets of events, and segments in order.                                  *)

LEMMA EventsAreFinite ==
  ASSUME NEW b \in SUBSET Events
  PROVE  IsFiniteSet(b) /\ Cardinality(b) \in Nat
BY EventStoreAssumption, FS_Subset, FS_CardinalityType

LEMMA EventsOfSegments ==
  ASSUME NEW S \in SUBSET Segment
  PROVE  /\ EventsOf(S) \in SUBSET Events
         /\ IsFiniteSet(EventsOf(S))
         /\ Size(S) \in Nat
<1>1. EventsOf(S) \in SUBSET Events
  BY DEF EventsOf, Segment, Batch
<1> QED
  BY <1>1, EventsAreFinite DEF Size

(* Numbers without a gap are numbers without a repetition.                 *)
LEMMA OneOfANumber ==
  ASSUME NEW S \in SUBSET Segment, IsFiniteSet(S), Contiguous(S)
  PROVE  /\ Cardinality(S) \in Nat
         /\ \A s \in S : s.seq \in 1 .. Cardinality(S)
         /\ \A i \in 1 .. Cardinality(S) : \E s \in S : s.seq = i
         /\ \A s, t \in S : s.seq = t.seq => s = t
<1> DEFINE n == Cardinality(S)
           f == [s \in S |-> s.seq]
<1>1. n \in Nat
  BY FS_CardinalityType
<1>2. /\ \A s \in S : s.seq \in 1 .. n
      /\ \A i \in 1 .. n : \E s \in S : s.seq = i
  BY DEF Contiguous
<1>3. IsFiniteSet(1 .. n) /\ Cardinality(1 .. n) = n
  BY <1>1, FS_Interval
<1>4. f \in Surjection(S, 1 .. n)
  BY <1>2 DEF Surjection
<1>5. f \in Injection(S, 1 .. n)
  <2> HIDE DEF f
  <2> QED
    BY <1>3, <1>4, FS_Surjection
<1>6. \A s, t \in S : f[s] = f[t] => s = t
  <2> HIDE DEF f
  <2> QED
    BY <1>5 DEF Injection, IsInjective
<1> QED
  BY <1>1, <1>2, <1>6

(* A batch of new events, for which there is room, goes to the end.        *)
LEMMA OneMoreSegment ==
  ASSUME NEW S \in SUBSET Segment, IsFiniteSet(S), InOrder(S),
         NEW b \in SUBSET Events, b \cap EventsOf(S) = {},
         Size(S) + Cardinality(b) <= Limit
  PROVE  LET s == [seq |-> Cardinality(S) + 1, batch |-> b] IN
         /\ s \in Segment
         /\ s \notin S
         /\ IsFiniteSet(S \cup {s})
         /\ Cardinality(S \cup {s}) = Cardinality(S) + 1
         /\ EventsOf(S \cup {s}) = EventsOf(S) \cup b
         /\ InOrder(S \cup {s})
<1> DEFINE n == Cardinality(S)
           s == [seq |-> n + 1, batch |-> b]
           T == S \cup {s}
<1>1. /\ n \in Nat /\ Size(S) \in Nat /\ Cardinality(b) \in Nat
      /\ IsFiniteSet(b) /\ IsFiniteSet(EventsOf(S))
      /\ \A t \in S : t.seq \in 1 .. n
      /\ \A i \in 1 .. n : \E t \in S : t.seq = i
  BY OneOfANumber, EventsOfSegments, EventsAreFinite DEF InOrder
<1>2. Limit \in Nat
  BY EventStoreAssumption
<1>3. s \in Segment
  BY <1>1, <1>2 DEF Segment, Batch
<1>4. s \notin S
  BY <1>1
<1>5. IsFiniteSet(T) /\ Cardinality(T) = n + 1
  BY <1>4, FS_AddElement
<1>6. EventsOf(T) = EventsOf(S) \cup b
  <2> DEFINE R == {t.batch : t \in S}
  <2>1. {t.batch : t \in T} = R \cup {b}
    <3>1. s.batch = b
      OBVIOUS
    <3> HIDE DEF s
    <3> QED
      BY <3>1
  <2>2. UNION (R \cup {b}) = (UNION R) \cup b
    OBVIOUS
  <2> QED
    BY <2>1, <2>2 DEF EventsOf
<1>7. Contiguous(T)
  <2> DEFINE R == {t.seq : t \in S}
  <2>1. {t.seq : t \in T} = R \cup {n + 1}
    <3>1. s.seq = n + 1
      OBVIOUS
    <3> HIDE DEF s
    <3> QED
      BY <3>1
  <2>2. R = 1 .. n
    BY DEF InOrder, Contiguous
  <2>3. (1 .. n) \cup {n + 1} = 1 .. n + 1
    BY <1>1
  <2> QED
    BY <2>1, <2>2, <2>3, <1>5 DEF Contiguous
<1>8. Disjoint(T)
  BY DEF InOrder, Disjoint, EventsOf
<1>9. Size(T) <= Limit
  <2> DEFINE E == EventsOf(S)
  <2>1. Cardinality(E \cup b) = Cardinality(E) + Cardinality(b) - Cardinality(E \cap b)
    BY <1>1, FS_Union
  <2>2. Cardinality(E \cap b) = 0
    <3>1. E \cap b = {}
      OBVIOUS
    <3> QED
      BY <3>1, FS_EmptySet
  <2>3. Cardinality(E) = Size(S) /\ Size(T) = Cardinality(E \cup b)
    BY <1>6 DEF Size
  <2>4. Size(S) + Cardinality(b) - 0 <= Limit
    BY <1>1, <1>2
  <2> HIDE DEF E, T, n, s
  <2> QED
    BY <2>1, <2>2, <2>3, <2>4
<1> QED
  BY <1>3, <1>4, <1>5, <1>6, <1>7, <1>8, <1>9 DEF InOrder

-----------------------------------------------------------------------------
(* Types.                                                                  *)

LEMMA BoundsAreNumbers == Limit \in Nat /\ MaxOldWrites \in Nat /\ MaxPowerLosses \in Nat
BY EventStoreAssumption

LEMMA ProcsDiffer == \A w \in Writers, r \in Readers : w # r
BY EventStoreAssumption

(* What TypeOK says of what a writer of its own has, and of the rest.      *)
LEMMA PhasesAre ==
  ASSUME TypeOK, NEW p \in Procs, NEW phase, phase \in WriterPhases \cup ReaderPhases,
         p \in Writers => phase \in WriterPhases, p \in Readers => phase \in ReaderPhases,
         Goto(p, phase)
  PROVE  /\ pc' \in [Procs -> WriterPhases \cup ReaderPhases]
         /\ \A w \in Writers : pc'[w] \in WriterPhases
         /\ \A r \in Readers : pc'[r] \in ReaderPhases
         /\ \A q \in Procs : pc'[q] = IF q = p THEN phase ELSE pc[q]
<1>1. pc \in [Procs -> WriterPhases \cup ReaderPhases]
  BY DEF TypeOK
<1>2. pc' \in [Procs -> WriterPhases \cup ReaderPhases]
      /\ \A q \in Procs : pc'[q] = IF q = p THEN phase ELSE pc[q]
  BY <1>1 DEF Goto
<1> QED
  BY <1>2 DEF TypeOK, Procs

LEMMA ReturnTypes ==
  ASSUME TypeOK, NEW w \in Writers, Return(w)
  PROVE  /\ pc' \in [Procs -> WriterPhases \cup ReaderPhases]
         /\ \A v \in Writers : pc'[v] \in WriterPhases
         /\ \A r \in Readers : pc'[r] \in ReaderPhases
         /\ batch' \in [Writers -> Batches \cup {{}}]
         /\ loaded' \in [Procs -> Summary \cup {None}]
         /\ imported' \in [Writers -> {None} \cup Batch]
         /\ known' \in [Writers -> Summary]
<1>1. w \in Procs /\ "idle" \in WriterPhases \cap ReaderPhases
  BY DEF Procs, WriterPhases, ReaderPhases
<1>2. Goto(w, "idle")
  BY DEF Return
<1>3. NoSummary \in Summary
  BY DEF NoSummary, Summary
<1>4. /\ pc' \in [Procs -> WriterPhases \cup ReaderPhases]
      /\ \A v \in Writers : pc'[v] \in WriterPhases
      /\ \A r \in Readers : pc'[r] \in ReaderPhases
  BY <1>1, <1>2, PhasesAre
<1> QED
  BY <1>3, <1>4 DEF Return, TypeOK, Procs

LEMMA InitTypes == Init => TypeOK
<1> SUFFICES ASSUME Init PROVE TypeOK
  OBVIOUS
<1>1. "idle" \in WriterPhases \cap ReaderPhases /\ NoSummary \in Summary
  BY DEF WriterPhases, ReaderPhases, NoSummary, Summary
<1>2. legacy \in {None} \cup Batch /\ 0 \in 0 .. MaxOldWrites /\ 0 \in 0 .. MaxPowerLosses
  BY EventStoreAssumption, BoundsAreNumbers DEF Init
<1> QED
  BY <1>1, <1>2 DEF Init, TypeOK, Procs, Flushed

PhaseTypes(p) ==
  /\ pc' \in [Procs -> WriterPhases \cup ReaderPhases]
  /\ \A w \in Writers : pc'[w] \in WriterPhases
  /\ \A r \in Readers : pc'[r] \in ReaderPhases

LEMMA WriterMoves ==
  ASSUME TypeOK, NEW w \in Writers, NEW phase \in WriterPhases, Goto(w, phase)
  PROVE  /\ PhaseTypes(w)
         /\ pc'[w] = phase /\ \A q \in Procs : q # w => pc'[q] = pc[q]
<1>1. w \in Procs /\ w \notin Readers /\ phase \in WriterPhases \cup ReaderPhases
  BY ProcsDiffer DEF Procs
<1>2. /\ pc' \in [Procs -> WriterPhases \cup ReaderPhases]
      /\ \A v \in Writers : pc'[v] \in WriterPhases
      /\ \A r \in Readers : pc'[r] \in ReaderPhases
      /\ \A q \in Procs : pc'[q] = IF q = w THEN phase ELSE pc[q]
  BY <1>1, PhasesAre
<1> QED
  BY <1>1, <1>2 DEF PhaseTypes

LEMMA ReaderMoves ==
  ASSUME TypeOK, NEW r \in Readers, NEW phase \in ReaderPhases, Goto(r, phase)
  PROVE  /\ PhaseTypes(r)
         /\ pc'[r] = phase /\ \A q \in Procs : q # r => pc'[q] = pc[q]
<1>1. r \in Procs /\ r \notin Writers /\ phase \in WriterPhases \cup ReaderPhases
  BY ProcsDiffer DEF Procs
<1>2. /\ pc' \in [Procs -> WriterPhases \cup ReaderPhases]
      /\ \A v \in Writers : pc'[v] \in WriterPhases
      /\ \A q \in Readers : pc'[q] \in ReaderPhases
      /\ \A q \in Procs : pc'[q] = IF q = r THEN phase ELSE pc[q]
  BY <1>1, PhasesAre
<1> QED
  BY <1>1, <1>2 DEF PhaseTypes

LEMMA UnflushedTypes ==
  ASSUME TypeOK
  PROVE  /\ unflushed.segments \subseteq segments
         /\ unflushed.claims \subseteq Events
         /\ unflushed.state \subseteq Summary \cup {None}
         /\ unflushed = [segments |-> unflushed.segments, claims |-> unflushed.claims,
                         state |-> unflushed.state]
BY DEF TypeOK

LEMMA WriterKeepsTypes == ASSUME Base, NEW w \in Writers, Write(w) PROVE TypeOK'
<1> USE UnflushedTypes DEF Base
<1>0. {"idle", "waiting", "survey", "import", "flushImport", "recover",
       "flushRecovered", "refused", "restate", "flushRestated", "check",
       "flushSegment", "claim", "flushClaim", "flushState", "saved"} \subseteq WriterPhases
  BY DEF WriterPhases
<1>a. w \in Procs /\ Writers \subseteq Procs
  BY DEF Procs
<1>1. ASSUME NEW b \in Batches, StartAppend(w, b) PROVE TypeOK'
  BY <1>1, <1>0, WriterMoves DEF StartAppend, PhaseTypes, TypeOK, disk, writer, reader, counts
<1>2. ASSUME AcquireLock(w) PROVE TypeOK'
  BY <1>2, <1>0, WriterMoves DEF AcquireLock, PhaseTypes, TypeOK, disk, writer, reader, counts
<1>3. ASSUME FailAppend(w) PROVE TypeOK'
  BY <1>3, ReturnTypes DEF FailAppend, TypeOK, disk, reader, counts
<1>4. ASSUME Survey(w) PROVE TypeOK'
  BY <1>4, <1>0, <1>a, WriterMoves DEF Survey, PhaseTypes, TypeOK, disk, writer, reader, counts
<1>5. ASSUME NEW s \in Segment, NEW phase \in WriterPhases, Commit(w, s, phase) PROVE TypeOK'
  BY <1>5, WriterMoves DEF Commit, PhaseTypes, TypeOK, writer, reader, counts
<1>6. ASSUME Import(w) PROVE TypeOK'
  <2>1. imported[w] \in Batch
    BY <1>6 DEF Import, WritersHold, TypeOK
  <2>2. [seq |-> 1, batch |-> imported[w]] \in Segment
    BY <2>1 DEF Segment
  <2> QED
    BY <1>6, <1>0, <1>5, <2>2 DEF Import
<1>7. ASSUME NEW dir \in {"segments", "claims", "state"}, NEW from, NEW phase \in WriterPhases,
             Flush(w, dir, from, phase)
      PROVE  TypeOK'
  BY <1>7, WriterMoves DEF Flush, PhaseTypes, TypeOK, writer, reader, counts
<1>8. ASSUME NEW s \in segments, NEW e \in Events, NEW phase \in WriterPhases,
             Claim(w, s, e, phase)
      PROVE  TypeOK'
  BY <1>8, WriterMoves DEF Claim, PhaseTypes, TypeOK, Segment, writer, reader, counts
<1>9. ASSUME Recover(w) PROVE TypeOK'
  BY <1>9, <1>8, <1>0 DEF Recover, Missing, NewerThanState
<1>10. ASSUME Reconcile(w) PROVE TypeOK'
  <2>1. /\ Cardinality(segments) \in Nat /\ Size(segments) \in Nat
        /\ imported[w] \in {None} \cup Batch
    BY EventsOfSegments, FS_CardinalityType DEF TypeOK
  <2>2. [last |-> Cardinality(segments), size |-> Size(segments), legacy |-> imported[w]]
          \in Summary
    BY <2>1 DEF Summary
  <2> QED
    BY <1>10, <1>0, <2>2, WriterMoves DEF Reconcile, PhaseTypes, TypeOK, disk, reader, counts
<1>11. ASSUME Refuse(w) PROVE TypeOK'
  BY <1>11, <1>0, WriterMoves DEF Refuse, PhaseTypes, TypeOK, disk, writer, reader, counts
<1>12. ASSUME NEW summary \in Summary, NEW phase \in WriterPhases, SaveState(w, summary, phase)
       PROVE  TypeOK'
  BY <1>12, WriterMoves DEF SaveState, PhaseTypes, TypeOK, writer, reader, counts
<1>13. ASSUME Restate(w) PROVE TypeOK'
  BY <1>13, <1>12, <1>0 DEF Restate, TypeOK
<1>14. ASSUME Reject(w) PROVE TypeOK'
  BY <1>14, ReturnTypes DEF Reject, TypeOK, disk, reader, counts
<1>15. ASSUME CommitBatch(w) PROVE TypeOK'
  <2>1. NewSegment(w) \in Segment
    BY <1>15 DEF CommitBatch, WritersHold, NewSegment, TypeOK, Segment, Summary
  <2> QED
    BY <1>15, <1>0, <1>5, <2>1 DEF CommitBatch
<1>16. ASSUME ClaimNext(w) PROVE TypeOK'
  <2>1. NewSegment(w) \in segments /\ batch[w] \subseteq Events
    BY <1>16 DEF ClaimNext, AcceptedHold, Committed, Durable, WritersHold, Batch
  <2> QED
    BY <1>16, <1>0, <1>8, <2>1 DEF ClaimNext
<1>17. ASSUME SaveNewState(w) PROVE TypeOK'
  <2>1. known[w] \in Summary /\ Cardinality(batch[w]) \in Nat
    BY <1>17, EventsAreFinite DEF SaveNewState, WritersHold, Batch, TypeOK
  <2>2. [last |-> known[w].last + 1, size |-> known[w].size + Cardinality(batch[w]),
         legacy |-> known[w].legacy] \in Summary
    BY <2>1 DEF Summary
  <2> QED
    BY <1>17, <1>0, <1>12, <2>2 DEF SaveNewState
<1>18. ASSUME Accept(w) PROVE TypeOK'
  <2>1. NewSegment(w) \in Segment
    BY <1>18 DEF Accept, AcceptedHold, Committed, Durable, TypeOK
  <2> QED
    BY <1>18, <2>1, ReturnTypes DEF Accept, TypeOK, disk, reader, counts
<1> QED
  BY <1>0, <1>1, <1>2, <1>3, <1>4, <1>6, <1>7, <1>9, <1>10, <1>11, <1>13, <1>14, <1>15, <1>16,
     <1>17, <1>18 DEF Write, Holder

LEMMA ReaderKeepsTypes == ASSUME Base, NEW r \in Readers, Read(r) PROVE TypeOK'
<1> USE UnflushedTypes DEF Base
<1>0. {"idle", "listing", "legacy", "state", "segments"} \subseteq ReaderPhases
  BY DEF ReaderPhases
<1>a. r \in Procs /\ Readers \subseteq Procs
  BY DEF Procs
<1>b. /\ EventsOf(segments) \subseteq Events
      /\ Legacy \in Batch /\ Legacy \subseteq Events
  <2>1. Cardinality({}) = 0
    BY FS_EmptySet
  <2> QED
    BY <2>1, BoundsAreNumbers, EventsOfSegments DEF TypeOK, Legacy, Batch
<1>1. ASSUME StartRead(r) PROVE TypeOK'
  BY <1>1, <1>0, <1>b, ReaderMoves DEF StartRead, PhaseTypes, TypeOK, writer, counts
<1>2. ASSUME NEW found \in {None} \cup Batch, Answer(r, found) PROVE TypeOK'
  BY <1>2, <1>0, <1>a, ReaderMoves DEF Answer, PhaseTypes, TypeOK, disk, counts
<1>3. ASSUME List(r) PROVE TypeOK'
  <2>1. PICK S \in SUBSET (segments \ listed[r]) :
          /\ listed' = [listed EXCEPT ![r] = @ \cup S]
          /\ Goto(r, IF listed[r] \cup S = {} THEN "legacy" ELSE "state")
    BY <1>3 DEF List
  <2>2. listed[r] \cup S \in SUBSET Segment
    BY DEF TypeOK
  <2> QED
    BY <1>3, <2>1, <2>2, <1>0, ReaderMoves DEF List, PhaseTypes, TypeOK, disk, writer, counts
<1>4. ASSUME ReadLegacy(r) PROVE TypeOK'
  BY <1>4, <1>2, <1>b DEF ReadLegacy
<1>5. ASSUME ReadState(r) PROVE TypeOK'
  BY <1>5, <1>0, <1>a, ReaderMoves DEF ReadState, PhaseTypes, TypeOK, disk, reader, counts
<1>6. ASSUME ReadSegments(r) PROVE TypeOK'
  <2>1. InOrder(listed[r]) => EventsOf(listed[r]) \in Batch
    BY EventsOfSegments DEF InOrder, Size, Batch, TypeOK
  <2> QED
    BY <1>6, <1>2, <2>1 DEF ReadSegments, Readable
<1>7. ASSUME FailRead(r) PROVE TypeOK'
  BY <1>7, <1>2 DEF FailRead
<1> QED
  BY <1>1, <1>3, <1>4, <1>5, <1>6, <1>7 DEF Read

LEMMA RestKeepsTypes ==
  ASSUME TypeOK, (\E e \in Events : OldAppend(e)) \/ LosePower PROVE TypeOK'
<1> USE UnflushedTypes
<1>1. ASSUME NEW e \in Events, OldAppend(e) PROVE TypeOK'
  <2>1. Legacy \cup {e} \in Batch
    BY <1>1 DEF OldAppend, Legacy, Batch, TypeOK
  <2> QED
    BY <1>1, <2>1, BoundsAreNumbers DEF OldAppend, TypeOK, writer, reader
<1>2. ASSUME LosePower PROVE TypeOK'
  <2>1. "idle" \in WriterPhases \cap ReaderPhases /\ NoSummary \in Summary
    BY DEF WriterPhases, ReaderPhases, NoSummary, Summary
  <2>2. Writers \subseteq Procs /\ Readers \subseteq Procs
    BY DEF Procs
  <2> QED
    BY <1>2, <2>1, <2>2, BoundsAreNumbers DEF LosePower, TypeOK, Flushed
<1> QED
  BY <1>1, <1>2

-----------------------------------------------------------------------------
(* The lock, the flushed segments and the readers.                         *)

LEMMA OneHolder ==
  ASSUME WritersHold, NEW v \in Writers, NEW w \in Writers, pc[v] \in Holding, pc[w] \in Holding
  PROVE  v = w
BY DEF WritersHold

(* A step of a writer that has the lock and keeps it.                      *)
LEMMA HolderKeepsLock ==
  ASSUME TypeOK, WritersHold, NEW w \in Writers, pc[w] \in Holding,
         NEW phase \in WriterPhases, Goto(w, phase), phase # "import",
         UNCHANGED <<lock, batch, imported, legacy>>
  PROVE  WritersHold'
<1>1. \A v \in Writers : pc'[v] = IF v = w THEN phase ELSE pc[v]
  BY WriterMoves DEF Procs
<1>2. pc[w] # "idle" /\ lock = w
  BY DEF Holding, Surveyed, WritersHold
<1>3. Legacy' = Legacy
  BY DEF Legacy
<1> QED
  BY <1>1, <1>2, <1>3 DEF WritersHold, Batch

(* A step with which a writer returns.                                     *)
LEMMA ReturnKeepsLock ==
  ASSUME TypeOK, WritersHold, NEW w \in Writers, Return(w), legacy' = legacy,
         lock' = (IF lock = w THEN None ELSE lock)
  PROVE  WritersHold'
<1>1. w \in Procs /\ \A v \in Writers : v \in Procs
  BY DEF Procs
<1>2. \A v \in Writers : pc'[v] = IF v = w THEN "idle" ELSE pc[v]
  BY <1>1 DEF Return, Goto, TypeOK
<1>3. \A v \in Writers :
        /\ v # w => batch'[v] = batch[v] /\ imported'[v] = imported[v]
        /\ v = w => imported'[v] = None
  BY DEF Return, TypeOK
<1>4. Legacy' = Legacy
  BY DEF Legacy
<1>5. "idle" \notin Holding /\ "idle" # "import"
  BY DEF Holding, Surveyed
<1> QED
  BY <1>2, <1>3, <1>4, <1>5 DEF WritersHold, Batch

LEMMA NewSegmentStays ==
  ASSUME NEW v, batch'[v] = batch[v], known'[v] = known[v]
  PROVE  NewSegment(v)' = NewSegment(v)
BY DEF NewSegment

(* A step of one writer, after which segments and what of them is flushed  *)
(* are still there; it gets no further towards an answer.                  *)
LEMMA AcceptedStay ==
  ASSUME AcceptedHold, NEW w \in Writers,
         segments \subseteq segments',
         \A s \in segments : s \in unflushed'.segments => s \in unflushed.segments,
         accepted' \subseteq segments, accepted' \cap unflushed.segments = {},
         \A v \in Writers : v # w =>
           pc'[v] = pc[v] /\ batch'[v] = batch[v] /\ known'[v] = known[v],
         pc'[w] \in Committed => NewSegment(w)' \in segments',
         pc'[w] \in Durable => NewSegment(w)' \notin unflushed'.segments
  PROVE  AcceptedHold'
<1>1. ASSUME NEW v \in Writers
      PROVE  /\ pc'[v] \in Committed => NewSegment(v)' \in segments'
             /\ pc'[v] \in Durable => NewSegment(v)' \notin unflushed'.segments
  <2>1. CASE v = w
    BY <2>1
  <2>2. CASE v # w
    <3>1. NewSegment(v)' = NewSegment(v)
      BY <2>2, NewSegmentStays
    <3>2. pc[v] \in Durable => pc[v] \in Committed
      BY DEF Committed
    <3> QED
      BY <2>2, <3>1, <3>2 DEF AcceptedHold
  <2> QED
    BY <2>1, <2>2
<1>2. accepted' \subseteq segments' \ unflushed'.segments
  BY DEF AcceptedHold
<1> QED
  BY <1>1, <1>2 DEF AcceptedHold

LEMMA ReadersStay ==
  ASSUME ReadersHold, \A r \in Readers : pc'[r] = pc[r],
         UNCHANGED <<listed, owed, losses>>, Legacy \subseteq Legacy', segments \subseteq segments'
  PROVE  ReadersHold'
BY DEF ReadersHold, EventsOf

LEMMA ReturnMoves ==
  ASSUME TypeOK, NEW w \in Writers, Return(w)
  PROVE  /\ pc'[w] = "idle" /\ \A q \in Procs : q # w => pc'[q] = pc[q]
         /\ \A v \in Writers : v # w => /\ batch'[v] = batch[v] /\ known'[v] = known[v]
                                        /\ imported'[v] = imported[v]
BY DEF Return, Goto, TypeOK, Procs

(* What every step of a writer leaves, but for the segments.               *)
WriterSteps(w) ==
  /\ segments \subseteq segments'
  /\ IsFiniteSet(segments')
  /\ \A s \in segments : s \in unflushed'.segments => s \in unflushed.segments
  /\ \A q \in Procs : q # w => pc'[q] = pc[q]
  /\ \A v \in Writers : v # w => /\ batch'[v] = batch[v] /\ known'[v] = known[v]
                                 /\ imported'[v] = imported[v]
  /\ UNCHANGED <<listed, owed, losses, legacy, oldWrites>>

LEMMA WriterTakesStep == ASSUME Base, NEW w \in Writers, Write(w) PROVE WriterSteps(w)
<1> USE UnflushedTypes DEF Base, disk, writer, reader, counts
<1>0. {"idle", "waiting", "survey", "import", "flushImport", "recover",
       "flushRecovered", "refused", "restate", "flushRestated", "check",
       "flushSegment", "claim", "flushClaim", "flushState", "saved"} \subseteq WriterPhases
  BY DEF WriterPhases
<1>1. ASSUME NEW b \in Batches, StartAppend(w, b) PROVE WriterSteps(w)
  BY <1>1, <1>0, WriterMoves DEF StartAppend, WriterSteps, TypeOK
<1>2. ASSUME AcquireLock(w) PROVE WriterSteps(w)
  BY <1>2, <1>0, WriterMoves DEF AcquireLock, WriterSteps
<1>3. ASSUME FailAppend(w) PROVE WriterSteps(w)
  BY <1>3, ReturnMoves DEF FailAppend, WriterSteps
<1>4. ASSUME Survey(w) PROVE WriterSteps(w)
  BY <1>4, <1>0, WriterMoves DEF Survey, WriterSteps, TypeOK
<1>5. ASSUME NEW s, NEW phase \in WriterPhases, Commit(w, s, phase) PROVE WriterSteps(w)
  <2>1. IsFiniteSet(segments')
    BY <1>5, FS_AddElement DEF Commit
  <2>2. \A t \in segments : t \in unflushed'.segments => t \in unflushed.segments
    BY <1>5 DEF Commit, TypeOK
  <2> QED
    BY <1>5, <2>1, <2>2, WriterMoves DEF Commit, WriterSteps
<1>6. ASSUME NEW dir \in {"segments", "claims", "state"}, NEW from, NEW phase \in WriterPhases,
             Flush(w, dir, from, phase)
      PROVE  WriterSteps(w)
  BY <1>6, WriterMoves DEF Flush, WriterSteps, TypeOK
<1>7. ASSUME NEW s, NEW e, NEW phase \in WriterPhases, Claim(w, s, e, phase)
      PROVE  WriterSteps(w)
  BY <1>7, WriterMoves DEF Claim, WriterSteps, TypeOK
<1>8. ASSUME NEW summary, NEW phase \in WriterPhases, SaveState(w, summary, phase)
      PROVE  WriterSteps(w)
  BY <1>8, WriterMoves DEF SaveState, WriterSteps, TypeOK
<1>9. ASSUME Reconcile(w) PROVE WriterSteps(w)
  BY <1>9, <1>0, WriterMoves DEF Reconcile, WriterSteps, TypeOK
<1>10. ASSUME Refuse(w) PROVE WriterSteps(w)
  BY <1>10, <1>0, WriterMoves DEF Refuse, WriterSteps
<1>11. ASSUME Reject(w) \/ Accept(w) PROVE WriterSteps(w)
  BY <1>11, ReturnMoves DEF Reject, Accept, WriterSteps
<1> QED
  BY <1>0, <1>1, <1>2, <1>3, <1>4, <1>5, <1>6, <1>7, <1>8, <1>9, <1>10, <1>11
  DEF Write, Holder, Import, Recover, Restate, CommitBatch, ClaimNext, SaveNewState

LEMMA WriterKeepsLock == ASSUME Base, NEW w \in Writers, Write(w) PROVE WritersHold'
<1> USE DEF Base, disk, writer, reader, counts
<1>0. {"idle", "waiting", "survey", "import", "flushImport", "recover",
       "flushRecovered", "refused", "restate", "flushRestated", "check",
       "flushSegment", "claim", "flushClaim", "flushState", "saved"} \subseteq WriterPhases
  BY DEF WriterPhases
<1>a. None \notin Writers
  BY EventStoreAssumption
<1>b. WriterSteps(w) /\ Writers \subseteq Procs
  BY WriterTakesStep DEF Procs
<1>c. Legacy' = Legacy
  BY <1>b DEF WriterSteps, Legacy
<1>1. ASSUME NEW b \in Batches, StartAppend(w, b) PROVE WritersHold'
  <2>1. pc'[w] = "waiting" /\ batch'[w] = b /\ b \in Batch /\ imported' = imported /\ lock' = lock
    BY <1>1, <1>0, WriterMoves, EventStoreAssumption DEF StartAppend, TypeOK, Batch
  <2>2. "waiting" \notin Holding /\ Batch' = Batch
    BY DEF Holding, Surveyed, Batch
  <2> QED
    BY <1>b, <1>c, <2>1, <2>2 DEF WriterSteps, WritersHold
<1>2. ASSUME AcquireLock(w) PROVE WritersHold'
  <2>1. pc'[w] = "survey" /\ lock' = w /\ lock = None /\ pc[w] # "idle"
        /\ batch' = batch /\ imported' = imported
    BY <1>2, <1>0, WriterMoves DEF AcquireLock
  <2>2. \A v \in Writers : pc[v] \notin Holding
    BY <2>1, <1>a DEF WritersHold
  <2> QED
    BY <1>b, <1>c, <2>1, <2>2 DEF WriterSteps, WritersHold, Batch
<1>3. ASSUME FailAppend(w) PROVE WritersHold'
  BY <1>3, ReturnKeepsLock DEF FailAppend
<1>4. ASSUME Survey(w) PROVE WritersHold'
  <2>1. /\ pc[w] \in Holding /\ pc[w] # "idle" /\ lock' = lock /\ batch' = batch
        /\ imported'[w] = legacy /\ legacy' = legacy
        /\ pc'[w] = "import" => legacy \notin {None, {}}
    BY <1>4, <1>0, WriterMoves DEF Survey, Holding, TypeOK
  <2>2. legacy # None => legacy = Legacy
    BY DEF Legacy
  <2> QED
    BY <1>b, <1>c, <2>1, <2>2 DEF WriterSteps, WritersHold, Batch
<1>5. ASSUME pc[w] \in Surveyed, UNCHANGED <<lock, batch, imported, legacy>>,
             NEW phase \in WriterPhases \ {"import"}, Goto(w, phase)
      PROVE  WritersHold'
  BY <1>5, HolderKeepsLock DEF Holding
<1>6. ASSUME lock' = None, pc[w] \in Surveyed,
             UNCHANGED <<batch, imported, legacy>>, pc'[w] = "refused"
      PROVE  WritersHold'
  <2>1. "refused" \notin Holding /\ "refused" # "import" /\ pc[w] # "idle" /\ pc[w] \in Holding
    BY <1>6 DEF Holding, Surveyed
  <2>2. \A v \in Writers : v # w => pc[v] \notin Holding
    BY <2>1, OneHolder
  <2> QED
    BY <1>6, <1>b, <1>c, <2>1, <2>2 DEF WriterSteps, WritersHold, Batch
<1>7. ASSUME Refuse(w) PROVE WritersHold'
  BY <1>7, <1>6, <1>0, WriterMoves DEF Refuse, Surveyed
<1>8. ASSUME Reject(w) \/ Accept(w) PROVE WritersHold'
  <2>1. lock = w
    BY <1>8 DEF WritersHold, Reject, Accept, Holding, Surveyed
  <2> QED
    BY <1>8, <2>1, ReturnKeepsLock DEF Reject, Accept
<1>9. ASSUME \/ Import(w) \/ Recover(w) \/ Reconcile(w) \/ Restate(w) \/ CommitBatch(w)
             \/ ClaimNext(w) \/ SaveNewState(w)
      PROVE  WritersHold'
  BY <1>9, <1>5, <1>0 DEF Import, Recover, Reconcile, Restate, CommitBatch, ClaimNext,
     SaveNewState, Commit, Claim, SaveState, Surveyed
<1>10. ASSUME \/ Flush(w, "segments", "flushImport", "recover")
              \/ Flush(w, "claims", "flushRecovered", "recover")
              \/ Flush(w, "state", "flushRestated", "check")
              \/ Flush(w, "segments", "flushSegment", "claim")
              \/ Flush(w, "claims", "flushClaim", "claim")
              \/ Flush(w, "state", "flushState", "saved")
       PROVE  WritersHold'
  BY <1>10, <1>5, <1>0 DEF Flush, Surveyed
<1> QED
  BY <1>1, <1>2, <1>3, <1>4, <1>7, <1>8, <1>9, <1>10 DEF Write, Holder

LEMMA WriterKeepsAccepted == ASSUME Base, NEW w \in Writers, Write(w) PROVE AcceptedHold'
<1> USE UnflushedTypes DEF Base, disk, writer, reader, counts
<1>0. {"idle", "waiting", "survey", "import", "flushImport", "recover",
       "flushRecovered", "refused", "restate", "flushRestated", "check",
       "flushSegment", "claim", "flushClaim", "flushState", "saved"} \subseteq WriterPhases
  BY DEF WriterPhases
<1>a. WriterSteps(w)
  BY WriterTakesStep
<1>b. \A v \in Writers : v # w =>
        pc'[v] = pc[v] /\ batch'[v] = batch[v] /\ known'[v] = known[v]
  BY <1>a DEF WriterSteps, Procs
<1>c. ASSUME accepted' \subseteq segments, accepted' \cap unflushed.segments = {},
             pc'[w] \in Committed => NewSegment(w)' \in segments',
             pc'[w] \in Durable => NewSegment(w)' \notin unflushed'.segments
      PROVE  AcceptedHold'
  <2> HIDE DEF Base
  <2> QED
    BY <1>a, <1>b, <1>c, AcceptedStay DEF WriterSteps, Base
<1>d. accepted \subseteq segments /\ accepted \cap unflushed.segments = {}
  BY DEF AcceptedHold
<1>1. ASSUME accepted' = accepted, pc'[w] \notin Committed PROVE AcceptedHold'
  BY <1>1, <1>c, <1>d DEF Committed
<1>2. ASSUME NEW b \in Batches, StartAppend(w, b) PROVE AcceptedHold'
  BY <1>2, <1>0, <1>1, WriterMoves DEF StartAppend, Committed, Durable
<1>3. ASSUME AcquireLock(w) PROVE AcceptedHold'
  BY <1>3, <1>0, <1>1, WriterMoves DEF AcquireLock, Committed, Durable
<1>4. ASSUME FailAppend(w) PROVE AcceptedHold'
  BY <1>4, <1>1, ReturnMoves DEF FailAppend, Committed, Durable
<1>5. ASSUME Survey(w) PROVE AcceptedHold'
  BY <1>5, <1>0, <1>1, WriterMoves DEF Survey, Committed, Durable
<1>6. ASSUME \/ Import(w) \/ Recover(w) \/ Reconcile(w) \/ Restate(w) \/ Refuse(w)
             \/ Flush(w, "segments", "flushImport", "recover")
             \/ Flush(w, "claims", "flushRecovered", "recover")
             \/ Flush(w, "state", "flushRestated", "check")
      PROVE  AcceptedHold'
  <2>1. accepted' = accepted /\ \E phase \in WriterPhases \ Committed : Goto(w, phase)
    BY <1>6, <1>0 DEF Import, Recover, Reconcile, Restate, Refuse, Flush, Commit, Claim, SaveState,
       Committed, Durable
  <2> QED
    BY <1>1, <2>1, WriterMoves
<1>7. ASSUME Reject(w) PROVE AcceptedHold'
  BY <1>7, <1>1, ReturnMoves DEF Reject, Committed, Durable
<1>8. ASSUME CommitBatch(w) PROVE AcceptedHold'
  <2>1. /\ accepted' = accepted /\ pc'[w] = "flushSegment"
        /\ NewSegment(w) \in segments' /\ NewSegment(w)' = NewSegment(w)
    BY <1>8, <1>0, WriterMoves, NewSegmentStays DEF CommitBatch, Commit
  <2> QED
    BY <2>1, <1>c, <1>d DEF Durable
<1>9. ASSUME UNCHANGED <<accepted, segments, batch, known>>, pc[w] \in Committed,
             pc'[w] \in Durable => pc[w] \in Durable \/ unflushed'.segments = {}
      PROVE  AcceptedHold'
  <2>1. NewSegment(w)' = NewSegment(w)
    BY <1>9, NewSegmentStays
  <2>2. NewSegment(w) \in segments /\ (pc[w] \in Durable => NewSegment(w) \notin unflushed.segments)
    BY <1>9 DEF AcceptedHold
  <2>3. \A s \in segments : s \in unflushed'.segments => s \in unflushed.segments
    BY <1>a DEF WriterSteps
  <2> HIDE DEF Base
  <2> QED
    BY <1>9, <1>c, <1>d, <2>1, <2>2, <2>3
<1>10. ASSUME Flush(w, "segments", "flushSegment", "claim") PROVE AcceptedHold'
  <2>1. unflushed'.segments = {}
    BY <1>10 DEF Flush, TypeOK
  <2> QED
    BY <1>10, <1>9, <2>1 DEF Flush, Committed
<1>11. ASSUME \/ ClaimNext(w) \/ SaveNewState(w) \/ Flush(w, "claims", "flushClaim", "claim")
              \/ Flush(w, "state", "flushState", "saved")
       PROVE  AcceptedHold'
  BY <1>11, <1>9 DEF ClaimNext, SaveNewState, Flush, Claim, SaveState, Committed, Durable
<1>12. ASSUME Accept(w) PROVE AcceptedHold'
  <2>1. NewSegment(w) \in segments /\ NewSegment(w) \notin unflushed.segments
    BY <1>12 DEF Accept, AcceptedHold, Committed, Durable
  <2>2. pc'[w] = "idle" /\ accepted' = accepted \cup {NewSegment(w)}
    BY <1>12, ReturnMoves DEF Accept
  <2>3. "idle" \notin Committed /\ "idle" \notin Durable
    BY DEF Committed, Durable
  <2> QED
    BY <1>c, <1>d, <2>1, <2>2, <2>3
<1> QED
  BY <1>2, <1>3, <1>4, <1>5, <1>6, <1>7, <1>8, <1>10, <1>11, <1>12 DEF Write, Holder

LEMMA WriterKeepsBase == ASSUME Base, NEW w \in Writers, Write(w) PROVE Base'
<1>1. WriterSteps(w)
  BY WriterTakesStep
<1>2. ReadersHold'
  <2>1. \A r \in Readers : pc'[r] = pc[r]
    BY <1>1, ProcsDiffer DEF WriterSteps, Procs
  <2>2. Legacy' = Legacy
    BY <1>1 DEF WriterSteps, Legacy
  <2> QED
    BY <1>1, <2>1, <2>2, ReadersStay DEF WriterSteps, Base
<1> QED
  BY <1>1, <1>2, WriterKeepsTypes, WriterKeepsLock, WriterKeepsAccepted DEF Base, WriterSteps

(* A step of a reader changes nothing that writers go by.                  *)
ReaderSteps(r) ==
  /\ \A w \in Writers : pc'[w] = pc[w] /\ loaded'[w] = loaded[w]
  /\ \A q \in Readers : q # r => /\ pc'[q] = pc[q] /\ owed'[q] = owed[q]
                                 /\ listed'[q] = listed[q] /\ view'[q] = view[q]
  /\ unflushed'.segments = unflushed.segments /\ unflushed'.claims = unflushed.claims
  /\ UNCHANGED <<segments, claims, state, legacy, lock, batch, imported, known, accepted, counts>>

LEMMA ReaderTakesStep == ASSUME Base, NEW r \in Readers, Read(r) PROVE ReaderSteps(r)
<1> USE UnflushedTypes, ProcsDiffer DEF Base, disk, writer, reader
<1>0. {"idle", "listing", "legacy", "state", "segments"} \subseteq ReaderPhases
  BY DEF ReaderPhases
<1>a. Writers \subseteq Procs /\ Readers \subseteq Procs
  BY DEF Procs
<1>1. ASSUME StartRead(r) PROVE ReaderSteps(r)
  BY <1>1, <1>0, <1>a, ReaderMoves DEF StartRead, ReaderSteps, TypeOK
<1>2. ASSUME NEW found, Answer(r, found) PROVE ReaderSteps(r)
  BY <1>2, <1>0, <1>a, ReaderMoves DEF Answer, ReaderSteps, TypeOK
<1>3. ASSUME List(r) PROVE ReaderSteps(r)
  BY <1>3, <1>0, <1>a, ReaderMoves DEF List, ReaderSteps, TypeOK
<1>4. ASSUME ReadState(r) PROVE ReaderSteps(r)
  BY <1>4, <1>0, <1>a, ReaderMoves DEF ReadState, ReaderSteps, TypeOK
<1> QED
  BY <1>1, <1>2, <1>3, <1>4 DEF Read, ReadLegacy, ReadSegments, FailRead

LEMMA ReaderKeepsBase == ASSUME Base, NEW r \in Readers, Read(r) PROVE Base'
<1> USE DEF disk, writer, reader, counts
<1>0. {"idle", "listing", "legacy", "state", "segments"} \subseteq ReaderPhases
  BY DEF ReaderPhases
<1>a. ReaderSteps(r) /\ TypeOK' /\ TypeOK
  BY ReaderTakesStep, ReaderKeepsTypes DEF Base
<1>b. Legacy' = Legacy
  BY <1>a DEF ReaderSteps, Legacy
<1>1. WritersHold'
  BY <1>a, <1>b DEF ReaderSteps, WritersHold, Base, Batch
<1>2. AcceptedHold'
  <2>1. \A v \in Writers : NewSegment(v)' = NewSegment(v)
    BY <1>a DEF ReaderSteps, NewSegment
  <2> QED
    BY <1>a, <2>1 DEF ReaderSteps, AcceptedHold, Base
<1>3. ReadersHold'
  <2> DEFINE Holds(q) ==
        /\ pc[q] # "idle" => owed[q] \subseteq EventsOf(listed[q]) \cup Legacy
        /\ pc[q] = "legacy" => listed[q] = {}
        /\ losses = 0 => listed[q] \subseteq segments
  <2>1. ASSUME NEW q \in Readers, q # r PROVE Holds(q)'
    BY <2>1, <1>a, <1>b DEF ReaderSteps, ReadersHold, Base, EventsOf
  <2>2. Holds(r)'
    <3>1. CASE StartRead(r)
      BY <3>1, <1>0, <1>a, <1>b, ReaderMoves DEF StartRead, TypeOK, EventsOf
    <3>2. ASSUME NEW found, Answer(r, found) PROVE Holds(r)'
      BY <3>2, <1>0, <1>a, <1>b, ReaderMoves DEF Answer, TypeOK
    <3>3. CASE List(r)
      <4>1. PICK S \in SUBSET (segments \ listed[r]) :
              /\ listed' = [listed EXCEPT ![r] = @ \cup S]
              /\ Goto(r, IF listed[r] \cup S = {} THEN "legacy" ELSE "state")
        BY <3>3 DEF List
      <4>2. /\ listed'[r] = listed[r] \cup S /\ owed' = owed /\ losses' = losses
            /\ pc[r] = "listing" /\ segments' = segments
            /\ pc'[r] = IF listed[r] \cup S = {} THEN "legacy" ELSE "state"
        BY <3>3, <4>1, <1>0, <1>a, ReaderMoves DEF List, TypeOK
      <4>3. EventsOf(listed[r]) \subseteq EventsOf(listed'[r])
        BY <4>2 DEF EventsOf
      <4>4. EventsOf(listed[r])' = EventsOf(listed'[r])
        BY DEF EventsOf
      <4> QED
        BY <4>2, <4>3, <4>4, <1>b DEF ReadersHold, Base
    <3>4. CASE ReadState(r)
      BY <3>4, <1>0, <1>a, <1>b, ReaderMoves DEF ReadState, TypeOK, ReadersHold, Base, EventsOf
    <3> QED
      BY <3>1, <3>2, <3>3, <3>4 DEF Read, ReadLegacy, ReadSegments, FailRead
  <2> QED
    BY <2>1, <2>2 DEF ReadersHold
<1> QED
  BY <1>a, <1>1, <1>2, <1>3 DEF Base, ReaderSteps

LEMMA OldAppendKeepsBase == ASSUME Base, NEW e \in Events, OldAppend(e) PROVE Base'
<1> USE DEF disk, writer, reader, counts, Base
<1>1. /\ Legacy \subseteq Legacy'
      /\ UNCHANGED <<segments, unflushed, lock, pc, batch, imported, known, listed, owed,
                     accepted, losses>>
  <2>1. Legacy \cup {e} # None
    BY EventStoreAssumption DEF TypeOK, Legacy, Batch
  <2> QED
    BY <2>1 DEF OldAppend, Legacy
<1>2. WritersHold'
  BY <1>1 DEF WritersHold, Batch
<1>3. AcceptedHold'
  BY <1>1 DEF AcceptedHold, NewSegment
<1>4. ReadersHold'
  BY <1>1, ReadersStay
<1> QED
  BY <1>1, <1>2, <1>3, <1>4, RestKeepsTypes

LEMMA LosePowerKeepsBase == ASSUME Base, LosePower PROVE Base'
<1> USE DEF Base
<1>1. /\ segments' \subseteq segments /\ segments \ unflushed.segments \subseteq segments'
      /\ unflushed'.segments = {} /\ accepted' = accepted
      /\ losses' # 0
      /\ \A p \in Procs : pc'[p] = "idle"
      /\ \A w \in Writers : imported'[w] = None
  BY UnflushedTypes DEF LosePower, Flushed, TypeOK
<1>2. "idle" \notin Holding /\ "idle" \notin Committed /\ "idle" \notin Durable
  BY DEF Holding, Surveyed, Committed, Durable
<1>3. Writers \subseteq Procs /\ Readers \subseteq Procs
  BY DEF Procs
<1>4. WritersHold' /\ AcceptedHold' /\ ReadersHold'
  BY <1>1, <1>2, <1>3 DEF WritersHold, AcceptedHold, ReadersHold
<1>5. IsFiniteSet(segments')
  BY <1>1, FS_Subset
<1> QED
  BY <1>4, <1>5, RestKeepsTypes

LEMMA InitBase == Init => Base
<1> SUFFICES ASSUME Init PROVE Base
  OBVIOUS
<1>1. "idle" \notin Holding /\ "idle" \notin Committed /\ "idle" \notin Durable
  BY DEF Holding, Surveyed, Committed, Durable
<1>2. Writers \subseteq Procs /\ Readers \subseteq Procs
  BY DEF Procs
<1>3. WritersHold /\ AcceptedHold /\ ReadersHold
  BY <1>1, <1>2 DEF Init, WritersHold, AcceptedHold, ReadersHold
<1> QED
  BY <1>3, InitTypes, FS_EmptySet DEF Base, Init

LEMMA BaseStep == ASSUME Base, [Next]_vars PROVE Base'
<1>1. CASE UNCHANGED vars
  BY <1>1 DEF vars, disk, writer, reader, counts, Base, TypeOK, WritersHold, AcceptedHold,
              ReadersHold, NewSegment, Legacy, EventsOf, Batch
<1> QED
  BY <1>1, WriterKeepsBase, ReaderKeepsBase, OldAppendKeepsBase, LosePowerKeepsBase DEF Next

(* What holds whether or not the power stays on.                           *)
LEMMA BaseHolds == Spec => []Base
BY InitBase, BaseStep, PTL DEF Spec

-----------------------------------------------------------------------------
(* The segments and their claims.                                          *)

WriterPowered(w) == InOrder(segments) /\ ClaimsHold /\ WriterKnows(w)

LEMMA InitPowered == Init => Powered
<1> SUFFICES ASSUME Init PROVE Powered
  OBVIOUS
<1>1. segments = {} /\ Cardinality({}) = 0 /\ EventsOf({}) = {}
  BY FS_EmptySet DEF Init, EventsOf
<1>2. InOrder(segments)
  BY <1>1, BoundsAreNumbers DEF InOrder, Contiguous, Disjoint, Size
<1>3. ClaimsHold
  BY DEF Init, ClaimsHold
<1>4. \A w \in Writers : pc[w] = "idle"
  BY DEF Init, Procs
<1>5. \A w \in Writers : WriterKnows(w)
  BY <1>4 DEF WriterKnows, Trusting, Committed, Durable
<1> QED
  BY <1>2, <1>3, <1>5 DEF Powered

(* A step that touches none of it.                                         *)
LEMMA PoweredStays ==
  ASSUME Powered, UNCHANGED <<segments, claims, state, known, losses>>,
         \A w \in Writers : pc'[w] = pc[w] /\ loaded'[w] = loaded[w]
  PROVE  Powered'
BY DEF Powered, InOrder, Contiguous, Disjoint, Size, EventsOf, ClaimsHold, WriterKnows, ClaimedFor

(* A writer without the lock changes nothing, and one that has the lock is *)
(* the only one to know anything.                                          *)
LEMMA OthersKnow ==
  ASSUME Base, Powered, losses = 0, NEW w \in Writers, Write(w), NEW v \in Writers, v # w
  PROVE  WriterKnows(v)'
<1> USE DEF Base, disk, writer, reader, counts
<1>1. WriterSteps(w) /\ v \in Procs
  BY WriterTakesStep DEF Procs
<1>2. pc'[v] = pc[v] /\ known'[v] = known[v]
  BY <1>1 DEF WriterSteps
<1>3. CASE pc[w] \in Holding
  <2>1. pc[v] \notin Holding
    BY <1>3, OneHolder
  <2> QED
    BY <1>2, <2>1 DEF WriterKnows, Trusting, Committed, Durable, Holding, Surveyed
<1>4. CASE pc[w] \notin Holding
  <2>1. (\E b \in Batches : StartAppend(w, b)) \/ AcquireLock(w) \/ FailAppend(w)
    BY <1>4 DEF Write, Holder, Survey, Import, Flush, Recover, Reconcile, Refuse, Restate, Reject,
       CommitBatch, ClaimNext, SaveNewState, Accept, Holding, Surveyed
  <2>2. UNCHANGED <<segments, claims, state>> /\ loaded'[v] = loaded[v]
    BY <2>1, <1>1 DEF StartAppend, AcquireLock, FailAppend, Return, TypeOK
  <2> QED
    BY <1>2, <2>2 DEF Powered, WriterKnows, ClaimedFor, Size, EventsOf
<1> QED
  BY <1>3, <1>4

(* A claim of an event for the segment that it is in.                      *)
LEMMA ClaimKeepsPowered ==
  ASSUME TypeOK, InOrder(segments), ClaimsHold, NEW w \in Writers, NEW s \in segments,
         NEW e \in s.batch, NEW phase \in WriterPhases, Claim(w, s, e, phase)
  PROVE  InOrder(segments)' /\ ClaimsHold'
<1>1. /\ segments' = segments /\ state' = state
      /\ claims[e] = 0 /\ e \in Events
      /\ \A d \in Events : claims'[d] = IF d = e THEN s.seq ELSE claims[d]
  BY DEF Claim, TypeOK, Segment, Batch
<1>2. \A t \in segments : t.seq # 0 /\ t.batch \subseteq Events
  BY DEF TypeOK, Segment, Batch
<1>3. \A t \in segments : (\A d \in t.batch : claims[d] = t.seq)
                          => \A d \in t.batch : claims'[d] = t.seq
  BY <1>1, <1>2
<1>4. InOrder(segments)'
  BY <1>1 DEF InOrder, Contiguous, Disjoint, Size, EventsOf
<1>5. ClaimsHold'
  BY <1>1, <1>2, <1>3 DEF ClaimsHold
<1> QED
  BY <1>4, <1>5

(* Once a segment has its claims, every segment has: an event is in one    *)
(* segment only.                                                           *)
LEMMA LastClaimed ==
  ASSUME TypeOK, IsFiniteSet(segments), InOrder(segments), ClaimsHold, NEW s \in segments,
         s.seq = Cardinality(segments), \A e \in s.batch : claims[e] # 0
  PROVE  ClaimedFor(segments)
<1>1. \A t \in segments : t.seq \in 1 .. Cardinality(segments)
  BY OneOfANumber DEF InOrder, TypeOK
<1>2. \A t \in segments : t.seq = s.seq => t = s
  BY OneOfANumber DEF InOrder, TypeOK
<1>3. Cardinality(segments) \in Nat
  BY FS_CardinalityType
<1>4. ASSUME NEW t \in segments, NEW e \in t.batch PROVE claims[e] = t.seq
  <2>1. CASE t.seq < Cardinality(segments)
    BY <2>1, <1>4 DEF ClaimsHold
  <2>2. CASE t = s
    <3>1. e \in Events /\ claims[e] # 0
      BY <2>2, <1>4 DEF TypeOK, Segment, Batch
    <3>2. PICK u \in segments : u.seq = claims[e] /\ e \in u.batch
      BY <3>1 DEF ClaimsHold
    <3>3. u = t
      BY <3>2, <1>4 DEF InOrder, Disjoint
    <3> QED
      BY <3>2, <3>3
  <2> QED
    BY <2>1, <2>2, <1>1, <1>2, <1>3
<1> QED
  BY <1>4 DEF ClaimedFor

(* A batch of events without claims goes to the end.                       *)
LEMMA CommitKeepsPowered ==
  ASSUME Base, InOrder(segments), ClaimsHold, ClaimedFor(segments), NEW b \in SUBSET Events,
         \A e \in b : claims[e] = 0, Size(segments) + Cardinality(b) <= Limit,
         segments' = segments \cup {[seq |-> Cardinality(segments) + 1, batch |-> b]},
         claims' = claims, state' = state
  PROVE  /\ InOrder(segments)' /\ ClaimsHold'
         /\ Cardinality(segments)' = Cardinality(segments) + 1
<1> DEFINE n == Cardinality(segments)
           s == [seq |-> n + 1, batch |-> b]
<1>1. segments \in SUBSET Segment /\ IsFiniteSet(segments) /\ n \in Nat
  BY FS_CardinalityType DEF Base, TypeOK
<1>2. \A t \in segments : t.seq \in 1 .. n
  BY <1>1, OneOfANumber DEF InOrder
<1>3. b \cap EventsOf(segments) = {}
  <2>1. ASSUME NEW e \in b, NEW t \in segments, e \in t.batch PROVE FALSE
    BY <2>1, <1>1, <1>2 DEF ClaimedFor
  <2> QED
    BY <2>1 DEF EventsOf
<1>4. Cardinality(segments') = n + 1 /\ InOrder(segments')
  BY <1>1, <1>3, OneMoreSegment
<1>5. Cardinality(segments)' = n + 1 /\ InOrder(segments)'
  BY <1>4 DEF InOrder, Contiguous, Disjoint, Size, EventsOf
<1>6. s.seq = n + 1 /\ s.batch = b
  OBVIOUS
<1>7. ClaimsHold'
  <2> HIDE DEF s
  <2>1. \A t \in segments' : t \in segments \/ t = s
    BY DEF s
  <2>2. segments \subseteq segments'
    BY DEF s
  <2>3. state # None => state.last \in Nat /\ state.last <= n
    BY DEF ClaimsHold, Base, TypeOK, Summary
  <2>4. \A e \in Events : claims'[e] # 0 =>
          \E t \in segments' : t.seq = claims'[e] /\ e \in t.batch
    BY <2>2 DEF ClaimsHold
  <2>5. \A t \in segments' : t.seq < n + 1 => \A e \in t.batch : claims'[e] = t.seq
    BY <2>1, <1>6, <1>1 DEF ClaimedFor
  <2>6. state' # None =>
          /\ state'.last <= n + 1
          /\ \A t \in segments' : t.seq <= state'.last => \A e \in t.batch : claims'[e] = t.seq
    BY <2>1, <2>3, <1>6, <1>1 DEF ClaimedFor
  <2> HIDE DEF n
  <2> QED
    BY <2>4, <2>5, <2>6, <1>5 DEF ClaimsHold
<1> QED
  BY <1>5, <1>7

LEMMA WriterKeepsPowered ==
  ASSUME Base, NEW w \in Writers, WriterPowered(w), Write(w) PROVE WriterPowered(w)'
<1> USE DEF disk, writer, reader, counts
<1>0. {"idle", "waiting", "survey", "import", "flushImport", "recover",
       "flushRecovered", "refused", "restate", "flushRestated", "check",
       "flushSegment", "claim", "flushClaim", "flushState", "saved"} \subseteq WriterPhases
  BY DEF WriterPhases
<1>a. TypeOK /\ IsFiniteSet(segments) /\ w \in Procs
  BY DEF Base, Procs
<1>b. InOrder(segments) /\ ClaimsHold /\ WriterKnows(w)
  BY DEF WriterPowered
<1>c. ASSUME UNCHANGED <<segments, claims, state>> PROVE InOrder(segments)' /\ ClaimsHold'
  BY <1>b, <1>c DEF InOrder, Contiguous, Disjoint, Size, EventsOf, ClaimsHold
<1>d. ASSUME pc'[w] \in {"idle", "waiting", "survey", "refused"} PROVE WriterKnows(w)'
  BY <1>d DEF WriterKnows, Trusting, Committed, Durable
<1>1. ASSUME NEW b \in Batches, StartAppend(w, b) PROVE WriterPowered(w)'
  BY <1>1, <1>0, <1>a, <1>c, <1>d, WriterMoves DEF StartAppend, WriterPowered
<1>2. ASSUME AcquireLock(w) \/ Refuse(w) PROVE WriterPowered(w)'
  BY <1>2, <1>0, <1>a, <1>c, <1>d, WriterMoves DEF AcquireLock, Refuse, WriterPowered
<1>3. ASSUME FailAppend(w) \/ Reject(w) \/ Accept(w) PROVE WriterPowered(w)'
  BY <1>3, <1>a, <1>c, <1>d, ReturnMoves DEF FailAppend, Reject, Accept, WriterPowered
<1>4. ASSUME Survey(w) PROVE WriterPowered(w)'
  <2>1. /\ UNCHANGED <<segments, claims, state>> /\ loaded'[w] = state
        /\ pc'[w] = IF segments = {} /\ legacy \notin {None, {}} THEN "import" ELSE "recover"
    BY <1>4, <1>0, <1>a, WriterMoves DEF Survey, TypeOK
  <2> QED
    BY <2>1, <1>c DEF WriterPowered, WriterKnows, Trusting, Committed, Durable
<1>5. ASSUME Import(w) PROVE WriterPowered(w)'
  <2>1. /\ segments = {} /\ loaded[w] = state /\ imported[w] \in Batch
        /\ claims' = claims /\ state' = state /\ loaded' = loaded /\ pc'[w] = "flushImport"
        /\ segments' = segments \cup {[seq |-> 1, batch |-> imported[w]]}
    BY <1>5, <1>0, <1>a, <1>b, WriterMoves
    DEF Import, Commit, WriterKnows, Base, WritersHold, TypeOK
  <2>2. Cardinality(segments) = 0 /\ Size(segments) = 0 /\ Cardinality(segments) + 1 = 1
    <3>1. EventsOf({}) = {} /\ Cardinality({}) = 0
      BY FS_EmptySet DEF EventsOf
    <3> QED
      BY <2>1, <3>1 DEF Size
  <2>3. imported[w] \in SUBSET Events /\ Size(segments) + Cardinality(imported[w]) <= Limit
    BY <2>1, <2>2, EventsAreFinite DEF Batch
  <2>4. \A e \in imported[w] : claims[e] = 0
    BY <2>1, <2>3, <1>b DEF ClaimsHold
  <2>5. InOrder(segments)' /\ ClaimsHold'
    BY <2>1, <2>2, <2>3, <2>4, <1>b, CommitKeepsPowered DEF ClaimedFor
  <2> QED
    BY <2>1, <2>5 DEF WriterPowered, WriterKnows, Trusting, Committed, Durable
<1>6. ASSUME CommitBatch(w) PROVE WriterPowered(w)'
  <2>1. /\ ClaimedFor(segments) /\ known[w].last = Cardinality(segments)
        /\ known[w].size = Size(segments)
    BY <1>6, <1>b DEF CommitBatch, WriterKnows, Trusting
  <2>2. /\ claims' = claims /\ state' = state /\ pc'[w] = "flushSegment" /\ known' = known
        /\ segments' = segments \cup {[seq |-> Cardinality(segments) + 1, batch |-> batch[w]]}
        /\ Size(segments) + Cardinality(batch[w]) <= Limit
        /\ \A e \in batch[w] : claims[e] = 0
    BY <1>6, <2>1, <1>0, <1>a, WriterMoves DEF CommitBatch, Commit, NewSegment
  <2>3. batch[w] \in SUBSET Events
    BY <1>6 DEF CommitBatch, Base, WritersHold, Batch
  <2>4. InOrder(segments)' /\ ClaimsHold' /\ Cardinality(segments)' = Cardinality(segments) + 1
    BY <2>1, <2>2, <2>3, <1>b, CommitKeepsPowered
  <2> QED
    BY <2>1, <2>2, <2>4 DEF WriterPowered, WriterKnows, Trusting
<1>7. ASSUME Recover(w) \/ ClaimNext(w) PROVE WriterPowered(w)'
  <2>1. CASE Recover(w)
    <3>1. PICK p \in Missing(w) : Claim(w, p[1], p[2], "flushRecovered")
      BY <2>1 DEF Recover
    <3>2. p[1] \in segments /\ p[2] \in p[1].batch
      BY DEF Missing, NewerThanState
    <3>3. InOrder(segments)' /\ ClaimsHold'
      BY <3>1, <3>2, <1>0, <1>a, <1>b, ClaimKeepsPowered
    <3>4. pc'[w] = "flushRecovered" /\ loaded' = loaded /\ state' = state /\ loaded[w] = state
      BY <2>1, <3>1, <1>0, <1>a, <1>b, WriterMoves DEF Recover, Claim, WriterKnows
    <3> QED
      BY <3>3, <3>4 DEF WriterPowered, WriterKnows, Trusting, Committed, Durable
  <2>2. CASE ClaimNext(w)
    <3>1. PICK e \in batch[w] : Claim(w, NewSegment(w), e, "flushClaim")
      BY <2>2 DEF ClaimNext
    <3>2. NewSegment(w) \in segments /\ e \in NewSegment(w).batch
      BY <2>2 DEF ClaimNext, Base, AcceptedHold, Committed, Durable, NewSegment
    <3>3. InOrder(segments)' /\ ClaimsHold'
      BY <3>1, <3>2, <1>0, <1>a, <1>b, ClaimKeepsPowered
    <3>4. /\ pc'[w] = "flushClaim" /\ known' = known /\ segments' = segments
          /\ known[w].last + 1 = Cardinality(segments)
      BY <2>2, <3>1, <1>0, <1>a, <1>b, WriterMoves
      DEF ClaimNext, Claim, WriterKnows, Committed, Durable
    <3> QED
      BY <3>3, <3>4 DEF WriterPowered, WriterKnows, Trusting, Committed, Durable
  <2> QED
    BY <1>7, <2>1, <2>2
<1>8. ASSUME Reconcile(w) PROVE WriterPowered(w)'
  <2>1. /\ UNCHANGED <<segments, claims, state>> /\ ClaimedFor(segments)
        /\ known'[w].last = Cardinality(segments) /\ known'[w].size = Size(segments)
        /\ pc'[w] \in {"restate", "check"}
    BY <1>8, <1>0, <1>a, WriterMoves DEF Reconcile, Sound, TypeOK
  <2>2. Size(segments)' = Size(segments) /\ ClaimedFor(segments)'
    BY <2>1 DEF Size, EventsOf, ClaimedFor
  <2> QED
    BY <2>1, <2>2, <1>c DEF WriterPowered, WriterKnows, Trusting, Committed, Durable
<1>9. ASSUME NEW summary \in Summary, NEW phase \in WriterPhases, SaveState(w, summary, phase),
             ClaimedFor(segments), summary.last = Cardinality(segments)
      PROVE  InOrder(segments)' /\ ClaimsHold'
  <2>1. segments' = segments /\ claims' = claims /\ state' = summary
    BY <1>9 DEF SaveState
  <2>2. Cardinality(segments) \in Nat
    BY <1>a, FS_CardinalityType
  <2> QED
    BY <1>9, <1>b, <2>1, <2>2
    DEF InOrder, Contiguous, Disjoint, Size, EventsOf, ClaimsHold, ClaimedFor
<1>10. ASSUME Restate(w) PROVE WriterPowered(w)'
  <2>1. /\ UNCHANGED <<segments, claims, known>> /\ pc'[w] = "flushRestated"
        /\ ClaimedFor(segments) /\ known[w].last = Cardinality(segments)
        /\ known[w].size = Size(segments) /\ known[w] \in Summary
    BY <1>10, <1>0, <1>a, <1>b, WriterMoves DEF Restate, SaveState, WriterKnows, Trusting, TypeOK
  <2>2. InOrder(segments)' /\ ClaimsHold'
    BY <1>10, <2>1, <1>0, <1>9 DEF Restate
  <2>3. Size(segments)' = Size(segments) /\ ClaimedFor(segments)'
    BY <2>1 DEF Size, EventsOf, ClaimedFor
  <2> QED
    BY <2>1, <2>2, <2>3 DEF WriterPowered, WriterKnows, Trusting, Committed, Durable
<1>11. ASSUME SaveNewState(w) PROVE WriterPowered(w)'
  <2> DEFINE summary == [last |-> known[w].last + 1,
                         size |-> known[w].size + Cardinality(batch[w]),
                         legacy |-> known[w].legacy]
  <2>1. /\ UNCHANGED <<segments, claims, known>> /\ pc'[w] = "flushState"
        /\ known[w].last + 1 = Cardinality(segments) /\ known[w] \in Summary
        /\ NewSegment(w) \in segments /\ \A e \in batch[w] : claims[e] # 0
        /\ SaveState(w, summary, "flushState") /\ batch[w] \in SUBSET Events
    BY <1>11, <1>0, <1>a, <1>b, WriterMoves
    DEF SaveNewState, SaveState, WriterKnows, Committed, Durable, TypeOK, Base, AcceptedHold,
        WritersHold, Batch
  <2>2. ClaimedFor(segments)
    BY <2>1, <1>a, <1>b, LastClaimed DEF NewSegment
  <2>3. summary \in Summary /\ summary.last = Cardinality(segments)
    BY <2>1, EventsAreFinite DEF Summary
  <2>4. InOrder(segments)' /\ ClaimsHold'
    <3> HIDE DEF summary
    <3> QED
      BY <2>1, <2>2, <2>3, <1>0, <1>9
  <2> QED
    BY <2>1, <2>4 DEF WriterPowered, WriterKnows, Trusting, Committed, Durable
<1>12. ASSUME \/ Flush(w, "segments", "flushImport", "recover")
              \/ Flush(w, "claims", "flushRecovered", "recover")
              \/ Flush(w, "state", "flushRestated", "check")
              \/ Flush(w, "segments", "flushSegment", "claim")
              \/ Flush(w, "claims", "flushClaim", "claim")
              \/ Flush(w, "state", "flushState", "saved")
       PROVE  WriterPowered(w)'
  <2>1. UNCHANGED <<segments, claims, state, known, loaded>>
    BY <1>12 DEF Flush
  <2>2. \/ pc[w] \in {"flushImport", "flushRecovered"} /\ pc'[w] = "recover"
        \/ pc[w] = "flushRestated" /\ pc'[w] = "check"
        \/ pc[w] \in Committed /\ pc'[w] \in Committed
    BY <1>12, <1>0, <1>a, WriterMoves DEF Flush, Committed, Durable
  <2>3. Size(segments)' = Size(segments) /\ (ClaimedFor(segments) => ClaimedFor(segments)')
    BY <2>1 DEF Size, EventsOf, ClaimedFor
  <2>4. WriterKnows(w)'
    BY <2>1, <2>2, <2>3, <1>b DEF WriterKnows, Trusting, Committed, Durable
  <2> QED
    BY <2>1, <2>4, <1>c DEF WriterPowered
<1> QED
  BY <1>1, <1>2, <1>3, <1>4, <1>5, <1>6, <1>7, <1>8, <1>10, <1>11, <1>12 DEF Write, Holder

LEMMA PoweredStep == ASSUME Base, Powered, [Next]_vars PROVE Powered'
<1>1. CASE UNCHANGED vars
  BY <1>1, PoweredStays DEF vars, disk, writer, counts
<1>2. ASSUME NEW w \in Writers, Write(w) PROVE Powered'
  <2> SUFFICES ASSUME losses' = 0 PROVE Powered'
    BY DEF Powered
  <2>1. losses = 0
    BY <1>2, WriterTakesStep DEF WriterSteps
  <2>2. WriterPowered(w)'
    BY <1>2, <2>1, WriterKeepsPowered DEF Powered, WriterPowered
  <2>3. \A v \in Writers : v # w => WriterKnows(v)'
    BY <1>2, <2>1, OthersKnow
  <2> QED
    BY <2>2, <2>3 DEF Powered, WriterPowered
<1>3. ASSUME NEW r \in Readers, Read(r) PROVE Powered'
  BY <1>3, ReaderTakesStep, PoweredStays DEF ReaderSteps, counts
<1>4. ASSUME NEW e \in Events, OldAppend(e) PROVE Powered'
  BY <1>4, PoweredStays DEF OldAppend, writer
<1>5. CASE LosePower
  BY <1>5 DEF LosePower, Powered, Base, TypeOK
<1> QED
  BY <1>1, <1>2, <1>3, <1>4, <1>5 DEF Next

-----------------------------------------------------------------------------
(* What a writer that was killed left is recovered.                        *)

(* The first event that lacks a claim, if any, is one that the loop stops  *)
(* at.                                                                     *)
LEMMA NothingMissing ==
  ASSUME TypeOK, IsFiniteSet(segments), InOrder(segments), ClaimsHold,
         NEW w \in Writers, loaded[w] = state, Missing(w) = {}
  PROVE  ClaimedFor(segments)
<1> DEFINE n == Cardinality(segments)
<1>1. n \in Nat /\ \A t \in segments : t.seq \in 1 .. n
  BY OneOfANumber DEF InOrder, TypeOK
<1>2. \A t, u \in segments : t.seq = u.seq => t = u
  BY OneOfANumber DEF InOrder, TypeOK
<1>3. \A t \in segments : t.batch \subseteq Events /\ t.seq \in Nat \ {0}
  BY DEF TypeOK, Segment, Batch
<1>4. \A t \in segments : t.seq < n => \A e \in t.batch : claims[e] = t.seq
  BY DEF ClaimsHold
<1> HIDE DEF n
<1>5. SUFFICES ASSUME NEW s \in segments, s.seq = n PROVE \A e \in s.batch : claims[e] # 0
  <2>1. CASE n = 0
    BY <1>1, <2>1 DEF ClaimedFor
  <2>2. CASE n # 0
    <3>1. PICK s \in segments : s.seq = n
      BY <2>2, <1>1, OneOfANumber DEF n, InOrder, TypeOK
    <3> QED
      BY <3>1, <1>5, LastClaimed DEF n
  <2> QED
    BY <2>1, <2>2
<1>6. \A e \in s.batch : claims[e] # 0 => claims[e] = s.seq
  BY <1>3 DEF ClaimsHold, InOrder, Disjoint
<1> DEFINE U == {e \in s.batch : claims[e] = 0}
<1>7. SUFFICES ASSUME U # {} PROVE FALSE
  OBVIOUS
<1>8. U \in SUBSET Nat
  BY <1>3, EventStoreAssumption
<1>9. PICK e \in U : \A d \in U : e <= d
  <2> HIDE DEF U
  <2> QED
    BY <1>7, <1>8, Least
<1>10. s \in NewerThanState(w)
  <2>1. state # None => ~(s.seq <= state.last)
    BY <1>3, <1>9 DEF ClaimsHold
  <2>2. state # None => state.last \in Nat
    BY DEF TypeOK, Summary
  <2> QED
    BY <2>1, <2>2, <1>3 DEF NewerThanState
<1>11. Before(s) \cup {s} = segments
  BY <1>1, <1>2, <1>5 DEF Before
<1>12. ClaimedFor(Before(s))
  BY <1>4, <1>5 DEF Before, ClaimedFor
<1>13. \A d \in s.batch : d < e => claims[d] = s.seq
  <2>1. ASSUME NEW d \in s.batch, d < e, claims[d] = 0 PROVE FALSE
    BY <2>1, <1>8, <1>9
  <2> QED
    BY <2>1, <1>6
<1>14. e \in Events /\ e \in s.batch /\ claims[e] = 0
  BY <1>3, <1>9
<1>15. <<s, e>> \in Missing(w)
  BY <1>10, <1>11, <1>12, <1>13, <1>14 DEF Missing
<1> QED
  BY <1>15

(* When nothing is missing, a writer refuses nothing.                      *)
LEMMA Recoverable ==
  ASSUME Base, Powered, Untouched, losses = 0, oldWrites = 0, NEW w \in Writers,
         pc[w] = "recover"
  PROVE  LegacyProven(w) /\ (Missing(w) = {} => Sound(w))
<1>1. /\ TypeOK /\ IsFiniteSet(segments) /\ InOrder(segments) /\ ClaimsHold
      /\ loaded[w] = state
  BY DEF Base, Powered, WriterKnows
<1>2. LegacyProven(w)
  BY <1>1 DEF Untouched, LegacyHolds, LegacyProven, Surveyed
<1>3. ASSUME Missing(w) = {} PROVE Sound(w)
  <2>1. ClaimedFor(segments)
    BY <1>1, <1>3, NothingMissing
  <2>2. Claimed = EventsOf(segments)
    <3>1. ASSUME NEW e \in Claimed PROVE e \in EventsOf(segments)
      BY <1>1 DEF Claimed, ClaimsHold, EventsOf
    <3>2. ASSUME NEW s \in segments, NEW e \in s.batch PROVE e \in Claimed
      BY <2>1, <1>1 DEF ClaimedFor, Claimed, TypeOK, Segment, Batch
    <3> QED
      BY <3>1, <3>2 DEF EventsOf
  <2> QED
    BY <1>1, <1>2, <2>1, <2>2 DEF Sound, Size
<1> QED
  BY <1>2, <1>3

LEMMA InitUntouched == Init => Untouched
<1>1. "idle" \notin Surveyed /\ "idle" \notin Trusting \cup Committed
  BY DEF Surveyed, Trusting, Committed, Durable
<1> QED
  BY <1>1 DEF Init, Untouched, LegacyHolds, Procs

LEMMA UntouchedStays ==
  ASSUME Untouched, UNCHANGED <<segments, state, legacy, imported, known, accepted, counts>>,
         \A w \in Writers : pc'[w] = pc[w]
  PROVE  Untouched'
BY DEF Untouched, LegacyHolds, ImportOf, counts

(* What a writer knows of events.jsonl.                                    *)
WriterUntouched(w) ==
  /\ pc[w] \in Surveyed => imported[w] = legacy
  /\ pc[w] \in Surveyed \ {"import"} => segments # {} \/ legacy \in {None, {}}
  /\ pc[w] \in Trusting \cup Committed => known[w].legacy = legacy
  /\ pc[w] \in {"flushRestated", "check"} \cup Committed => state # None
  /\ pc[w] # "refused"

(* Of a step of one writer that leaves the segments and state.json that    *)
(* there were, the others need know nothing.                               *)
LEMMA LegacyStays ==
  ASSUME LegacyHolds, NEW w \in Writers, WriterSteps(w),
         state' = state \/ (state' # None /\ state'.legacy = legacy),
         segments' = segments \/ state # None \/ ImportOf(segments', legacy),
         segments' = segments \/ segments # {} \/ ImportOf(segments', legacy)
           \/ legacy \in {None, {}},
         accepted' = accepted \/ state # None,
         WriterUntouched(w)'
  PROVE  LegacyHolds'
<1>1. /\ legacy' = legacy /\ segments \subseteq segments'
      /\ state # None => state' # None
      /\ \A v \in Writers : v # w => pc'[v] = pc[v] /\ known'[v] = known[v]
                                     /\ imported'[v] = imported[v]
  BY DEF WriterSteps, Procs
<1>2. /\ legacy' \in Legacies
      /\ state' # None => state'.legacy = legacy'
      /\ state' = None => segments' = {} \/ ImportOf(segments', legacy')
      /\ segments' = {} \/ legacy' \in {None, {}} \/ ImportOf(segments', legacy')
      /\ accepted' # {} => state' # None
  BY <1>1 DEF LegacyHolds, ImportOf
<1>3. ASSUME NEW v \in Writers PROVE WriterUntouched(v)'
  <2>1. CASE v = w
    BY <2>1
  <2>2. CASE v # w
    BY <2>2, <1>1 DEF LegacyHolds, WriterUntouched
  <2> QED
    BY <2>1, <2>2
<1> QED
  BY <1>2, <1>3 DEF LegacyHolds, WriterUntouched, ImportOf

LEMMA WriterKeepsUntouched ==
  ASSUME IInv, losses = 0, oldWrites = 0, NEW w \in Writers, Write(w) PROVE LegacyHolds'
<1> USE DEF disk, writer, reader, counts
<1>0. {"idle", "waiting", "survey", "import", "flushImport", "recover",
       "flushRecovered", "refused", "restate", "flushRestated", "check",
       "flushSegment", "claim", "flushClaim", "flushState", "saved"} \subseteq WriterPhases
  BY DEF WriterPhases
<1>a. Base /\ TypeOK /\ LegacyHolds /\ WriterUntouched(w)
  BY DEF IInv, Base, Untouched, LegacyHolds, WriterUntouched
<1>b. WriterSteps(w)
  BY <1>a, WriterTakesStep
<1>c. ASSUME UNCHANGED <<segments, state, accepted>>, WriterUntouched(w)' PROVE LegacyHolds'
  BY <1>a, <1>b, <1>c, LegacyStays
<1>d. ASSUME pc'[w] \in {"idle", "waiting", "survey"} PROVE WriterUntouched(w)'
  BY <1>d DEF WriterUntouched, Surveyed, Trusting, Committed, Durable
<1>e. WriterKnows(w)
  BY DEF IInv, Powered
<1>1. ASSUME NEW b \in Batches, StartAppend(w, b) PROVE LegacyHolds'
  BY <1>1, <1>0, <1>a, <1>c, <1>d, WriterMoves DEF StartAppend
<1>2. ASSUME AcquireLock(w) PROVE LegacyHolds'
  BY <1>2, <1>0, <1>a, <1>c, <1>d, WriterMoves DEF AcquireLock
<1>3. ASSUME FailAppend(w) \/ Reject(w) PROVE LegacyHolds'
  BY <1>3, <1>a, <1>c, <1>d, ReturnMoves DEF FailAppend, Reject
<1>4. ASSUME Survey(w) PROVE LegacyHolds'
  <2>1. /\ UNCHANGED <<segments, state, accepted, legacy>> /\ imported'[w] = legacy
        /\ pc'[w] = IF segments = {} /\ legacy \notin {None, {}} THEN "import" ELSE "recover"
    BY <1>4, <1>0, <1>a, WriterMoves DEF Survey, TypeOK
  <2> QED
    BY <2>1, <1>c DEF WriterUntouched, Surveyed, Trusting, Committed, Durable
<1>5. ASSUME Import(w) PROVE LegacyHolds'
  <2>1. /\ imported[w] = legacy /\ UNCHANGED <<state, accepted, legacy, imported>>
        /\ pc'[w] = "flushImport"
        /\ segments' = segments \cup {[seq |-> 1, batch |-> imported[w]]}
    BY <1>5, <1>0, <1>a, WriterMoves DEF Import, Commit, WriterUntouched, Surveyed
  <2>2. ImportOf(segments', legacy) /\ segments' # {}
    BY <2>1 DEF ImportOf
  <2>3. WriterUntouched(w)'
    BY <2>1, <2>2 DEF WriterUntouched, Surveyed, Trusting, Committed, Durable
  <2> QED
    BY <2>1, <2>2, <2>3, <1>a, <1>b, LegacyStays
<1>6. ASSUME Recover(w) PROVE LegacyHolds'
  <2>1. /\ UNCHANGED <<segments, state, accepted, legacy, imported>>
        /\ pc[w] = "recover" /\ pc'[w] = "flushRecovered"
    BY <1>6, <1>0, <1>a, WriterMoves DEF Recover, Claim
  <2> QED
    BY <2>1, <1>a, <1>c DEF WriterUntouched, Surveyed, Trusting, Committed, Durable
<1>7. ASSUME Reconcile(w) PROVE LegacyHolds'
  <2>1. /\ UNCHANGED <<segments, state, accepted, legacy, imported>>
        /\ pc[w] = "recover" /\ imported[w] = legacy /\ known'[w].legacy = imported[w]
        /\ known'[w] # None
        /\ pc'[w] = IF state = known'[w] THEN "check" ELSE "restate"
    <3>1. known' \in [Writers -> Summary]
      BY <1>7, <1>a, WriterKeepsTypes DEF TypeOK, Write, Holder
    <3> QED
      BY <3>1, <1>7, <1>0, <1>a, <1>e, WriterMoves, EventStoreAssumption
      DEF Reconcile, WriterUntouched, WriterKnows, Surveyed, TypeOK
  <2> QED
    BY <2>1, <1>a, <1>c DEF WriterUntouched, Surveyed, Trusting, Committed, Durable
<1>8. ASSUME Refuse(w) PROVE FALSE
  BY <1>8, Recoverable DEF Refuse, IInv
<1>9. ASSUME Restate(w) \/ SaveNewState(w) PROVE LegacyHolds'
  <2>1. /\ UNCHANGED <<segments, accepted, legacy, imported, known>>
        /\ known[w].legacy = legacy /\ state'.legacy = legacy
        /\ pc[w] \in Surveyed \ {"import"} /\ pc'[w] \in {"flushRestated", "flushState"}
    BY <1>9, <1>0, <1>a, WriterMoves
    DEF Restate, SaveNewState, SaveState, WriterUntouched, Surveyed, Trusting, Committed, Durable
  <2>2. state' # None
    <3>1. state' \in Summary
      <4>1. CASE Restate(w)
        BY <4>1, <1>a DEF Restate, SaveState, TypeOK
      <4>2. CASE SaveNewState(w)
        <5>1. known[w] \in Summary /\ Cardinality(batch[w]) \in Nat
          BY <4>2, <1>a, EventsAreFinite DEF SaveNewState, Base, WritersHold, Batch, TypeOK
        <5> QED
          BY <4>2, <5>1 DEF SaveNewState, SaveState, Summary
      <4> QED
        BY <4>1, <4>2, <1>9
    <3> QED
      BY <3>1, EventStoreAssumption
  <2>3. WriterUntouched(w)'
    BY <2>1, <2>2, <1>a DEF WriterUntouched, Surveyed, Trusting, Committed, Durable
  <2> QED
    BY <2>1, <2>2, <2>3, <1>a, <1>b, LegacyStays
<1>10. ASSUME CommitBatch(w) PROVE LegacyHolds'
  <2>1. /\ UNCHANGED <<state, accepted, legacy, imported, known>> /\ state # None
        /\ segments' = segments \cup {NewSegment(w)}
        /\ pc[w] = "check" /\ pc'[w] = "flushSegment"
        /\ segments # {} \/ legacy \in {None, {}}
    BY <1>10, <1>0, <1>a, WriterMoves DEF CommitBatch, Commit, WriterUntouched, Surveyed
  <2>2. WriterUntouched(w)'
    BY <2>1, <1>a DEF WriterUntouched, Surveyed, Trusting, Committed, Durable
  <2> QED
    BY <2>1, <2>2, <1>a, <1>b, LegacyStays
<1>11. ASSUME ClaimNext(w) PROVE LegacyHolds'
  <2>1. /\ UNCHANGED <<segments, state, accepted, legacy, imported, known>>
        /\ pc[w] = "claim" /\ pc'[w] = "flushClaim"
    BY <1>11, <1>0, <1>a, WriterMoves DEF ClaimNext, Claim
  <2> QED
    BY <2>1, <1>a, <1>c DEF WriterUntouched, Surveyed, Trusting, Committed, Durable
<1>12. ASSUME Accept(w) PROVE LegacyHolds'
  <2>1. /\ UNCHANGED <<segments, state, legacy>> /\ state # None /\ pc'[w] = "idle"
    BY <1>12, <1>a, ReturnMoves DEF Accept, WriterUntouched, Committed, Durable
  <2> QED
    BY <2>1, <1>a, <1>b, <1>d, LegacyStays
<1>13. ASSUME \/ Flush(w, "segments", "flushImport", "recover")
              \/ Flush(w, "claims", "flushRecovered", "recover")
              \/ Flush(w, "state", "flushRestated", "check")
              \/ Flush(w, "segments", "flushSegment", "claim")
              \/ Flush(w, "claims", "flushClaim", "claim")
              \/ Flush(w, "state", "flushState", "saved")
       PROVE  LegacyHolds'
  <2>1. UNCHANGED <<segments, state, accepted, legacy, imported, known>>
    BY <1>13 DEF Flush
  <2>2. \/ pc[w] \in {"flushImport", "flushRecovered"} /\ pc'[w] = "recover"
        \/ pc[w] = "flushRestated" /\ pc'[w] = "check"
        \/ pc[w] \in Committed /\ pc'[w] \in Committed
    BY <1>13, <1>0, <1>a, WriterMoves DEF Flush, Committed, Durable
  <2>3. WriterUntouched(w)'
    BY <2>1, <2>2, <1>a DEF WriterUntouched, Surveyed, Trusting, Committed, Durable
  <2> QED
    BY <2>1, <2>3, <1>c
<1> QED
  BY <1>1, <1>2, <1>3, <1>4, <1>5, <1>6, <1>7, <1>8, <1>9, <1>10, <1>11, <1>12, <1>13
  DEF Write, Holder

LEMMA UntouchedStep == ASSUME IInv, [Next]_vars PROVE Untouched'
<1>0. TypeOK
  BY DEF IInv, Base
<1>1. CASE UNCHANGED vars
  BY <1>1, UntouchedStays DEF vars, disk, writer, counts, IInv
<1>2. ASSUME NEW w \in Writers, Write(w) PROVE Untouched'
  <2>1. losses' = losses /\ oldWrites' = oldWrites
    BY <1>2, WriterTakesStep DEF WriterSteps, IInv
  <2> QED
    BY <1>2, <2>1, WriterKeepsUntouched DEF Untouched
<1>3. ASSUME NEW r \in Readers, Read(r) PROVE Untouched'
  BY <1>3, ReaderTakesStep, UntouchedStays DEF ReaderSteps, IInv
<1>4. ASSUME NEW e \in Events, OldAppend(e) PROVE Untouched'
  BY <1>4, <1>0 DEF OldAppend, Untouched, TypeOK
<1>5. CASE LosePower
  BY <1>5, <1>0 DEF LosePower, Untouched, TypeOK
<1> QED
  BY <1>1, <1>2, <1>3, <1>4, <1>5 DEF Next

-----------------------------------------------------------------------------
(* The theorems.                                                           *)

(* The inductive invariant: the lock, the flushed segments and the readers,*)
(* whatever happens; segments, claims and summaries while the power is on; *)
(* events.jsonl while no older version writes to it either.                *)
THEOREM StoreInvariant == Spec => []IInv
<1>1. Init => IInv
  BY InitBase, InitPowered, InitUntouched DEF IInv
<1>2. IInv /\ [Next]_vars => IInv'
  BY BaseStep, PoweredStep, UntouchedStep DEF IInv
<1> QED
  BY <1>1, <1>2, PTL DEF Spec

(* Every variable has the values the program can give it.                  *)
THEOREM TypeCorrect == Spec => []TypeOK
<1>1. Base => TypeOK
  BY DEF Base
<1> QED
  BY <1>1, BaseHolds, PTL

(* While the power stays on, whichever writers are killed at whatever step,*)
(* the segments are numbered without a gap, no event is recorded twice and *)
(* the ledger does not outgrow what readers accept.                        *)
THEOREM LedgerStaysIntact == Spec => []LedgerIntact
<1>1. IInv => LedgerIntact
  BY DEF IInv, Powered, LedgerIntact
<1> QED
  BY <1>1, StoreInvariant, PTL

(* A batch whose append returned nil stays in the ledger, losses of power  *)
(* included: it was flushed before the append returned.                    *)
THEOREM AcceptedStaysKept == Spec => []AcceptedKept
<1>1. Base => AcceptedKept
  BY DEF Base, AcceptedHold, AcceptedKept
<1> QED
  BY <1>1, BaseHolds, PTL

(* A writer that was killed at any step never makes the next one refuse    *)
(* the store, unless an older version went on writing or the power failed. *)
THEOREM StoreNeverRefused == Spec => []NeverRefused
<1>1. IInv => NeverRefused
  BY DEF IInv, Untouched, LegacyHolds, NeverRefused
<1> QED
  BY <1>1, StoreInvariant, PTL

(* An accepted batch can be read, unless an older version went on writing  *)
(* or the power failed.  An events.jsonl that was there and empty is the   *)
(* exception: it is never imported, and a reader wants it imported.        *)
THEOREM AcceptedStaysReadable ==
  ASSUME {} \notin Legacies
  PROVE  Spec => []AcceptedReadable
<1>1. IInv => AcceptedReadable
  <2> SUFFICES ASSUME IInv, accepted # {}, oldWrites = 0, losses = 0
               PROVE  Readable(segments, state, legacy)
    BY DEF AcceptedReadable
  <2>1. segments # {} /\ InOrder(segments)
    BY DEF IInv, Base, AcceptedHold, Powered
  <2>2. legacy # {} /\ state # None /\ state.legacy = legacy
    BY DEF IInv, Untouched, LegacyHolds
  <2>3. legacy # None => ImportOf(segments, legacy)
    BY <2>1, <2>2 DEF IInv, Untouched, LegacyHolds
  <2> QED
    BY <2>1, <2>2, <2>3 DEF Readable
<1> QED
  BY <1>1, StoreInvariant, PTL

(* A read that succeeds returns everything that had been recorded when it  *)
(* began, by this version or by an older one, though it takes no lock and  *)
(* an import may run meanwhile.                                            *)
THEOREM ReadsOmitNothing == Spec => NothingOmitted
<1> DEFINE Complete(r) == view'[r] # None /\ view[r] = None => owed[r] \subseteq view'[r]
<1>1. ASSUME Base, [Next]_vars, NEW r \in Readers PROVE Complete(r)
  <2>1. CASE Read(r)
    <3>1. TypeOK
      BY <1>1 DEF Base
    <3>2. CASE StartRead(r)
      BY <3>1, <3>2 DEF StartRead, TypeOK
    <3>3. CASE List(r) \/ ReadState(r)
      BY <3>3 DEF List, ReadState, reader
    <3>4. CASE ReadLegacy(r)
      <4>1. owed[r] \subseteq Legacy
        BY <1>1, <3>4 DEF ReadLegacy, Base, ReadersHold, EventsOf
      <4> QED
        BY <3>1, <3>4, <4>1 DEF ReadLegacy, Answer, TypeOK
    <3>5. CASE ReadSegments(r)
      <4>1. owed[r] \subseteq EventsOf(listed[r]) \cup Legacy
        BY <1>1, <3>5 DEF ReadSegments, Base, ReadersHold
      <4>2. Readable(listed[r], loaded[r], legacy) => Legacy \subseteq EventsOf(listed[r])
        BY DEF Readable, ImportOf, Legacy, EventsOf
      <4> QED
        BY <3>1, <3>5, <4>1, <4>2 DEF ReadSegments, Answer, TypeOK
    <3>6. CASE FailRead(r)
      BY <3>1, <3>6 DEF FailRead, Answer, TypeOK
    <3> QED
      BY <2>1, <3>2, <3>3, <3>4, <3>5, <3>6 DEF Read
  <2>2. ASSUME NEW q \in Readers, q # r, Read(q) PROVE Complete(r)
    BY <1>1, <2>2, ReaderTakesStep DEF ReaderSteps
  <2>3. ASSUME view' = view PROVE Complete(r)
    BY <2>3
  <2>4. CASE (\E w \in Writers : Write(w)) \/ (\E e \in Events : OldAppend(e)) \/ LosePower
             \/ UNCHANGED vars
    BY <2>3, <2>4 DEF Write, Holder, StartAppend, AcquireLock, FailAppend, Survey, Import, Commit,
       Flush, Recover, Claim, Reconcile, Refuse, Restate, SaveState, Reject, CommitBatch,
       ClaimNext, SaveNewState, Accept, OldAppend, LosePower, reader, vars
  <2> QED
    BY <1>1, <2>1, <2>2, <2>4 DEF Next
<1>2. Base /\ [Next]_vars => [\A r \in Readers : Complete(r)]_vars
  BY <1>1
<1> QED
  BY <1>2, BaseHolds, PTL DEF Spec, NothingOmitted

-----------------------------------------------------------------------------
(* The segments are the ledger of EventLedger.                             *)

(* The batches of the segments S, in order; what the mapping makes of w, r.*)
LogOf(S) == [i \in 1 .. Cardinality(S) |-> (CHOOSE s \in S : s.seq = i).batch]
Asked(w) == IF pc[w] = "idle" THEN None ELSE batch[w]
From(r)  == IF pc[r] = "idle" THEN None ELSE owed[r]

LEMMA LogOfSegments ==
  ASSUME NEW S \in SUBSET Segment, IsFiniteSet(S), Contiguous(S)
  PROVE  /\ LogOf(S) \in Seq(SUBSET Events)
         /\ Len(LogOf(S)) = Cardinality(S)
         /\ \A s \in S : s.seq \in 1 .. Cardinality(S) /\ LogOf(S)[s.seq] = s.batch
         /\ \A i \in 1 .. Cardinality(S) : \E s \in S : s.seq = i /\ LogOf(S)[i] = s.batch
<1> DEFINE n == Cardinality(S)
<1>1. /\ n \in Nat
      /\ \A s \in S : s.seq \in 1 .. n
      /\ \A i \in 1 .. n : \E s \in S : s.seq = i
      /\ \A s, t \in S : s.seq = t.seq => s = t
  BY OneOfANumber
<1>2. \A s \in S : (CHOOSE t \in S : t.seq = s.seq) = s
  BY <1>1
<1>3. \A s \in S : s.batch \in SUBSET Events
  BY DEF Segment, Batch
<1> HIDE DEF n
<1>4. LogOf(S) = [i \in 1 .. n |-> (CHOOSE s \in S : s.seq = i).batch]
  BY DEF LogOf, n
<1>5. \A s \in S : LogOf(S)[s.seq] = s.batch
  BY <1>1, <1>2, <1>4
<1>6. \A i \in 1 .. n : \E s \in S : s.seq = i /\ LogOf(S)[i] = s.batch
  BY <1>1, <1>5
<1>7. LogOf(S) \in [1 .. n -> SUBSET Events]
  <2>1. \A i \in 1 .. n : LogOf(S)[i] \in SUBSET Events
    BY <1>3, <1>6
  <2> QED
    BY <2>1, <1>4
<1>8. LogOf(S) \in Seq(SUBSET Events) /\ Len(LogOf(S)) = n
  BY <1>1, <1>7
<1> QED
  BY <1>1, <1>5, <1>6, <1>8 DEF n

LEMMA LogGrows ==
  ASSUME NEW S \in SUBSET Segment, IsFiniteSet(S), Contiguous(S),
         NEW T \in SUBSET Segment, IsFiniteSet(T), Contiguous(T),
         NEW b, Cardinality(T) = Cardinality(S) + 1,
         T = S \cup {[seq |-> Cardinality(S) + 1, batch |-> b]}
  PROVE  LogOf(T) = Append(LogOf(S), b)
<1> DEFINE n == Cardinality(S)
           s == [seq |-> n + 1, batch |-> b]
<1>1. /\ n \in Nat
      /\ LogOf(S) \in Seq(SUBSET Events) /\ Len(LogOf(S)) = n
      /\ \A i \in 1 .. n : \E t \in S : t.seq = i /\ LogOf(S)[i] = t.batch
  BY LogOfSegments, FS_CardinalityType
<1>2. /\ LogOf(T) \in Seq(SUBSET Events) /\ Len(LogOf(T)) = n + 1
      /\ \A t \in T : LogOf(T)[t.seq] = t.batch
  BY LogOfSegments
<1>3. s \in T /\ s.seq = n + 1 /\ s.batch = b /\ S \subseteq T
  OBVIOUS
<1> HIDE DEF n, s
<1>4. b \in SUBSET Events
  BY <1>3 DEF Segment, Batch
<1>5. LogOf(T)[n + 1] = b
  BY <1>2, <1>3
<1>6. ASSUME NEW i \in 1 .. n PROVE LogOf(T)[i] = LogOf(S)[i]
  <2>1. PICK t \in S : t.seq = i /\ LogOf(S)[i] = t.batch
    BY <1>1
  <2> QED
    BY <2>1, <1>2, <1>3
<1> DEFINE L == LogOf(S)
           M == LogOf(T)
           A == Append(L, b)
<1>7. /\ A \in Seq(SUBSET Events) /\ Len(A) = n + 1
      /\ A[n + 1] = b /\ \A i \in 1 .. n : A[i] = L[i]
  <2> HIDE DEF L
  <2> QED
    BY <1>1, <1>4 DEF L
<1>8. M \in Seq(SUBSET Events) /\ Len(M) = n + 1
      /\ M[n + 1] = b /\ \A i \in 1 .. n : M[i] = L[i]
  BY <1>2, <1>5, <1>6
<1> HIDE DEF L, M, A
<1>9. \A i \in 1 .. n + 1 : i \in 1 .. n \/ i = n + 1
  BY <1>1
<1>10. \A i \in 1 .. n + 1 : M[i] = A[i]
  BY <1>7, <1>8, <1>9
<1>11. M = A
  BY <1>1, <1>7, <1>8, <1>10
<1> QED
  BY <1>11 DEF L, M, A

(* A prefix of the log is what the segments of its numbers hold.           *)
LEMMA HeldOfSegments ==
  ASSUME NEW S \in SUBSET Segment, IsFiniteSet(S), Contiguous(S),
         NEW R \in SUBSET S, Contiguous(R)
  PROVE  /\ Cardinality(R) \in 0 .. Len(LogOf(S))
         /\ UNION {LogOf(S)[i] : i \in 1 .. Cardinality(R)} = EventsOf(R)
<1> DEFINE m == Cardinality(R)
<1>1. IsFiniteSet(R) /\ m \in Nat /\ m <= Cardinality(S) /\ Cardinality(S) \in Nat
  BY FS_Subset, FS_CardinalityType
<1>2. /\ Len(LogOf(S)) = Cardinality(S)
      /\ \A s \in S : LogOf(S)[s.seq] = s.batch
  BY LogOfSegments
<1>3. (\A r \in R : r.seq \in 1 .. m) /\ (\A i \in 1 .. m : \E r \in R : r.seq = i)
  BY DEF Contiguous
<1> HIDE DEF m
<1>4. {LogOf(S)[i] : i \in 1 .. m} = {r.batch : r \in R}
  <2>1. \A r \in R : LogOf(S)[r.seq] = r.batch
    BY <1>2
  <2> QED
    BY <2>1, <1>3
<1>5. UNION {LogOf(S)[i] : i \in 1 .. m} = EventsOf(R)
  BY <1>4 DEF EventsOf
<1>6. m \in 0 .. Len(LogOf(S))
  BY <1>1, <1>2
<1> QED
  BY <1>5, <1>6 DEF m


LEMMA LogIs == Log = LogOf(segments) /\ Log' = LogOf(segments')
BY DEF Log, LogOf

(* What EventLedger says of the whole log, said of the segments.           *)
LEMMA HeldIs ==
  ASSUME TypeOK, IsFiniteSet(segments), InOrder(segments)
  PROVE  /\ Len(Log) = Cardinality(segments)
         /\ Ledger!Held(Len(Log)) = EventsOf(segments)
<1>1. segments \in SUBSET Segment /\ Contiguous(segments)
  BY DEF TypeOK, InOrder
<1>2. Len(LogOf(segments)) = Cardinality(segments)
  BY <1>1, LogOfSegments
<1>3. UNION {LogOf(segments)[i] : i \in 1 .. Cardinality(segments)} = EventsOf(segments)
  BY <1>1, HeldOfSegments
<1> QED
  BY <1>2, <1>3, LogIs DEF Ledger!Held

LEMMA InitLedger == Init => Ledger!Init
<1> SUFFICES ASSUME Init PROVE Ledger!Init
  OBVIOUS
<1>1. Log = <<>>
  <2>1. segments = {} /\ Cardinality({}) = 0
    BY FS_EmptySet DEF Init
  <2>2. 1 .. 0 = {}
    OBVIOUS
  <2> QED
    BY <2>1, <2>2 DEF Log
<1>2. Legacy \in {IF l = None THEN {} ELSE l : l \in Legacies}
  BY DEF Init, Legacy
<1>3. \A p \in Procs : pc[p] = "idle"
  BY DEF Init
<1>4. Writers \subseteq Procs /\ Readers \subseteq Procs
  BY DEF Procs
<1>5. {s.batch : s \in accepted} = {} /\ view = [r \in Readers |-> None]
  BY DEF Init
<1>6. [w \in Writers |-> IF pc[w] = "idle" THEN None ELSE batch[w]] = [w \in Writers |-> None]
  BY <1>3, <1>4
<1>7. [r \in Readers |-> IF pc[r] = "idle" THEN None ELSE owed[r]] = [r \in Readers |-> None]
  BY <1>3, <1>4
<1>8. {w \in Writers :
         pc[w] \in {"flushSegment", "claim", "flushClaim", "flushState", "saved"}} = {}
  BY <1>3, <1>4
<1> QED
  BY <1>1, <1>2, <1>5, <1>6, <1>7, <1>8 DEF Ledger!Init

(* The steps the ledger does not see.                                      *)
LEMMA LedgerStutters ==
  ASSUME UNCHANGED <<segments, legacy, accepted, view>>,
         \A w \in Writers : Asked(w)' = Asked(w) /\ (pc'[w] \in Committed <=> pc[w] \in Committed),
         \A r \in Readers : From(r)' = From(r)
  PROVE  UNCHANGED Ledger!ledger
<1>1. Log' = Log /\ Legacy' = Legacy
  BY DEF Log, Legacy
<1> QED
  BY <1>1 DEF Ledger!ledger, Asked, From, Committed, Durable


(* What the ledger sees of a step of the writer w.                         *)
WriterSeen(w) ==
  /\ \A v \in Writers : v # w => Asked(v)' = Asked(v) /\ pc'[v] = pc[v]
  /\ \A r \in Readers : From(r)' = From(r)
  /\ Legacy' = Legacy /\ legacy' = legacy /\ view' = view

LEMMA WriterIsSeen == ASSUME Base, NEW w \in Writers, Write(w) PROVE WriterSeen(w)
<1>1. WriterSteps(w)
  BY WriterTakesStep
<1>2. view' = view
  BY DEF Write, Holder, StartAppend, AcquireLock, FailAppend, Survey, Import, Commit,
     Flush, Recover, Claim, Reconcile, Refuse, Restate, SaveState, Reject, CommitBatch,
     ClaimNext, SaveNewState, Accept, reader
<1>3. /\ \A v \in Writers : v # w => pc'[v] = pc[v] /\ batch'[v] = batch[v]
      /\ \A r \in Readers : pc'[r] = pc[r] /\ owed'[r] = owed[r]
      /\ legacy' = legacy
  BY <1>1, ProcsDiffer DEF WriterSteps, Procs
<1> QED
  BY <1>2, <1>3 DEF WriterSeen, Asked, From, Legacy

(* A writer that is busy appends a batch.                                  *)
LEMMA BusyAsks ==
  ASSUME Base, NEW w \in Writers, pc[w] # "idle"
  PROVE  Asked(w) = batch[w] /\ batch[w] \in SUBSET Events /\ batch[w] # None
BY EventStoreAssumption DEF Asked, Base, WritersHold

LEMMA WriterStutters ==
  ASSUME Base, NEW w \in Writers, Write(w), UNCHANGED <<segments, accepted>>,
         Asked(w)' = Asked(w), pc'[w] \in Committed <=> pc[w] \in Committed
  PROVE  UNCHANGED Ledger!ledger
BY WriterIsSeen, LedgerStutters DEF WriterSeen

LEMMA AsksLedger ==
  ASSUME Base, NEW w \in Writers, NEW b \in Batches, StartAppend(w, b)
  PROVE  Ledger!Ask(w, b)
<1>1. WriterSeen(w) /\ TypeOK
  BY WriterIsSeen DEF Write, Base
<1>2. /\ pc[w] = "idle" /\ pc'[w] = "waiting" /\ batch'[w] = b
      /\ UNCHANGED <<segments, accepted>>
  BY <1>1, WriterMoves DEF StartAppend, WriterPhases, TypeOK, disk
<1>3. Asked(w) = None /\ Asked(w)' = b
  BY <1>2 DEF Asked
<1>4. Log' = Log
  BY <1>2 DEF Log
<1>5. {s.batch : s \in accepted'} = {s.batch : s \in accepted}
  BY <1>2
<1>6. [v \in Writers |-> IF pc'[v] = "idle" THEN None ELSE batch'[v]]
        = [[v \in Writers |-> IF pc[v] = "idle" THEN None ELSE batch[v]] EXCEPT ![w] = b]
  BY <1>1, <1>3 DEF WriterSeen, Asked
<1>7. \A v \in Writers :
        pc'[v] \in {"flushSegment", "claim", "flushClaim", "flushState", "saved"}
        <=> pc[v] \in {"flushSegment", "claim", "flushClaim", "flushState", "saved"}
  BY <1>1, <1>2 DEF WriterSeen
<1>8. [v \in Writers |-> IF pc[v] = "idle" THEN None ELSE batch[v]][w] = None
  BY <1>2
<1> QED
  BY <1>1, <1>4, <1>5, <1>6, <1>7, <1>8 DEF Ledger!Ask, WriterSeen, From

(* An append returns, with nil when its batch is in the ledger.            *)
LEMMA ReturnsOfLedger ==
  ASSUME Base, NEW w \in Writers, Write(w), pc[w] # "idle", pc'[w] = "idle", segments' = segments,
         NEW ok \in BOOLEAN, ok => pc[w] \in Committed,
         accepted' = IF ok THEN accepted \cup {NewSegment(w)} ELSE accepted
  PROVE  Ledger!Return(w, ok)
<1>1. WriterSeen(w)
  BY WriterIsSeen
<1>2. Asked(w) # None /\ Asked(w) = batch[w] /\ Asked(w)' = None
  BY BusyAsks DEF Asked
<1>3. Log' = Log
  BY DEF Log
<1> DEFINE asked  == [v \in Writers |-> IF pc[v] = "idle" THEN None ELSE batch[v]]
           asked2 == [v \in Writers |-> IF pc'[v] = "idle" THEN None ELSE batch'[v]]
           acked  == {s.batch : s \in accepted}
           added  == {v \in Writers :
                        pc[v] \in {"flushSegment", "claim", "flushClaim", "flushState", "saved"}}
           added2 == {v \in Writers :
                        pc'[v] \in {"flushSegment", "claim", "flushClaim", "flushState", "saved"}}
<1>4. asked2 = [asked EXCEPT ![w] = None] /\ asked[w] = batch[w] /\ asked[w] # None
  BY <1>1, <1>2 DEF WriterSeen, Asked
<1>5. {s.batch : s \in accepted'} = IF ok THEN acked \cup {asked[w]} ELSE acked
  <2>1. NewSegment(w).batch = batch[w]
    BY DEF NewSegment
  <2>2. {s.batch : s \in accepted \cup {NewSegment(w)}} = acked \cup {batch[w]}
    BY <2>1
  <2> QED
    BY <2>2, <1>4
<1>6. added2 = added \ {w} /\ (ok => w \in added)
  BY <1>1 DEF WriterSeen, Committed, Durable
<1>7. [r \in Readers |-> IF pc'[r] = "idle" THEN None ELSE owed'[r]]
        = [r \in Readers |-> IF pc[r] = "idle" THEN None ELSE owed[r]]
  BY <1>1 DEF WriterSeen, From
<1> QED
  BY <1>1, <1>3, <1>4, <1>5, <1>6, <1>7 DEF Ledger!Return, WriterSeen

(* EventLedger counts as this module does: the two have the definition of  *)
(* FiniteSets each.                                                        *)
LEMMA SameCount == ASSUME NEW S PROVE Ledger!Cardinality(S) = Cardinality(S)
BY DEF Ledger!Cardinality, Cardinality

(* A segment more is a batch more.                                         *)
LEMMA SegmentIsBatch ==
  ASSUME Base, Base', Powered, Powered', losses = 0, losses' = 0, NEW b,
         [seq |-> Cardinality(segments) + 1, batch |-> b] \notin segments,
         segments' = segments \cup {[seq |-> Cardinality(segments) + 1, batch |-> b]}
  PROVE  /\ Log' = Append(Log, b)
         /\ b \cap Ledger!Held(Len(Log)) = {}
         /\ Cardinality(b \cup Ledger!Held(Len(Log))) <= Limit
<1> DEFINE s == [seq |-> Cardinality(segments) + 1, batch |-> b]
<1>1. TypeOK /\ segments \in SUBSET Segment /\ IsFiniteSet(segments) /\ InOrder(segments)
  BY DEF Base, TypeOK, Powered
<1>2. segments' \in SUBSET Segment /\ IsFiniteSet(segments') /\ InOrder(segments')
  BY DEF Base, TypeOK, Powered, InOrder, Contiguous, Disjoint, Size, EventsOf, Segment, Batch
<1>3. Cardinality(segments') = Cardinality(segments) + 1
  BY <1>1, FS_AddElement
<1>4. LogOf(segments') = Append(LogOf(segments), b)
  BY <1>1, <1>2, <1>3, LogGrows DEF InOrder
<1>5. Ledger!Held(Len(Log)) = EventsOf(segments)
  BY <1>1, HeldIs
<1>6. s.batch = b /\ s \in segments' /\ s \notin segments /\ segments' = segments \cup {s}
  OBVIOUS
<1> HIDE DEF s
<1>7. b \cap EventsOf(segments) = {}
  BY <1>2, <1>6 DEF InOrder, Disjoint, EventsOf
<1>8. b \cup EventsOf(segments) = EventsOf(segments')
  <2>1. {t.batch : t \in segments'} = {t.batch : t \in segments} \cup {b}
    BY <1>6
  <2> QED
    BY <2>1 DEF EventsOf
<1> QED
  BY <1>2, <1>4, <1>5, <1>7, <1>8, LogIs DEF InOrder, Size

LEMMA AddsToLedger ==
  ASSUME Base, Base', Powered, Powered', losses = 0, losses' = 0,
         NEW w \in Writers, CommitBatch(w)
  PROVE  Ledger!Add(w)
<1>1. WriterSeen(w) /\ TypeOK
  BY WriterIsSeen DEF Write, Holder, Base
<1>2. /\ pc[w] = "check" /\ pc'[w] = "flushSegment" /\ batch' = batch /\ accepted' = accepted
      /\ NewSegment(w) \notin segments /\ segments' = segments \cup {NewSegment(w)}
  BY <1>1, WriterMoves DEF CommitBatch, Commit, WriterPhases, writer
<1>3. known[w].last = Cardinality(segments)
  BY <1>2 DEF Powered, WriterKnows, Trusting
<1>4. /\ Log' = Append(Log, batch[w])
      /\ batch[w] \cap Ledger!Held(Len(Log)) = {}
      /\ Cardinality(batch[w] \cup Ledger!Held(Len(Log))) <= Limit
  BY <1>2, <1>3, SegmentIsBatch DEF NewSegment
<1>5. Asked(w) = batch[w] /\ batch[w] # None /\ Asked(w)' = Asked(w)
  BY <1>2, BusyAsks DEF Asked
<1> DEFINE asked  == [v \in Writers |-> IF pc[v] = "idle" THEN None ELSE batch[v]]
           asked2 == [v \in Writers |-> IF pc'[v] = "idle" THEN None ELSE batch'[v]]
           added  == {v \in Writers :
                        pc[v] \in {"flushSegment", "claim", "flushClaim", "flushState", "saved"}}
           added2 == {v \in Writers :
                        pc'[v] \in {"flushSegment", "claim", "flushClaim", "flushState", "saved"}}
<1>6. asked2 = asked /\ asked[w] = batch[w] /\ asked[w] # None
  BY <1>1, <1>5 DEF WriterSeen, Asked
<1>7. added2 = added \cup {w} /\ w \notin added
  BY <1>1, <1>2 DEF WriterSeen
<1>8. [r \in Readers |-> IF pc'[r] = "idle" THEN None ELSE owed'[r]]
        = [r \in Readers |-> IF pc[r] = "idle" THEN None ELSE owed[r]]
  BY <1>1 DEF WriterSeen, From
<1>9. {s.batch : s \in accepted'} = {s.batch : s \in accepted}
  BY <1>2
<1>10. /\ asked[w] \cap Ledger!Held(Len(Log)) = {}
       /\ Ledger!Cardinality(asked[w] \cup Ledger!Held(Len(Log))) <= Limit
       /\ Log' = Append(Log, asked[w])
  <2> DEFINE S == asked[w] \cup Ledger!Held(Len(Log))
  <2>1. S = batch[w] \cup Ledger!Held(Len(Log))
    BY <1>6
  <2> HIDE DEF S
  <2>2. Ledger!Cardinality(S) <= Limit
    BY <2>1, <1>4, SameCount
  <2> HIDE DEF asked
  <2> QED
    BY <1>4, <1>6, <2>2 DEF S
<1>11. Legacy' = Legacy /\ view' = view
  BY <1>1 DEF WriterSeen
<1> QED
  BY <1>6, <1>7, <1>8, <1>9, <1>10, <1>11 DEF Ledger!Add

LEMMA TakesOver ==
  ASSUME Base, Base', Powered, Powered', losses = 0, losses' = 0, NEW w \in Writers, Import(w)
  PROVE  \E b \in SUBSET Legacy : Ledger!TakeOver(b)
<1>1. WriterSeen(w) /\ TypeOK
  BY WriterIsSeen DEF Write, Holder, Base
<1> DEFINE b == imported[w]
<1>2. /\ pc[w] = "import" /\ pc'[w] = "flushImport" /\ batch' = batch /\ accepted' = accepted
      /\ [seq |-> 1, batch |-> b] \notin segments
      /\ segments' = segments \cup {[seq |-> 1, batch |-> b]}
  BY <1>1, WriterMoves DEF Import, Commit, WriterPhases, writer
<1>3. segments = {} /\ b # {} /\ b \in SUBSET Legacy
  BY <1>2 DEF Powered, WriterKnows, Base, WritersHold
<1>4. Cardinality(segments) + 1 = 1 /\ Len(Log) = 0 /\ Log \in Seq(SUBSET Events)
  <2>1. Cardinality(segments) = 0
    BY <1>3, FS_EmptySet
  <2>2. Contiguous(segments) /\ IsFiniteSet(segments)
    BY DEF Powered, InOrder, Base
  <2> QED
    BY <1>1, <2>1, <2>2, LogOfSegments, LogIs DEF TypeOK
<1>5. Log' = Append(Log, b)
  BY <1>2, <1>4, SegmentIsBatch
<1>6. Log = <<>> /\ Log' = <<b>>
  BY <1>4, <1>5
<1>7. Asked(w)' = Asked(w)
  BY <1>2 DEF Asked
<1>8. [v \in Writers |-> IF pc'[v] = "idle" THEN None ELSE batch'[v]]
        = [v \in Writers |-> IF pc[v] = "idle" THEN None ELSE batch[v]]
  BY <1>1, <1>7 DEF WriterSeen, Asked
<1>9. \A v \in Writers :
        pc'[v] \in {"flushSegment", "claim", "flushClaim", "flushState", "saved"}
        <=> pc[v] \in {"flushSegment", "claim", "flushClaim", "flushState", "saved"}
  BY <1>1, <1>2 DEF WriterSeen
<1>10. [r \in Readers |-> IF pc'[r] = "idle" THEN None ELSE owed'[r]]
        = [r \in Readers |-> IF pc[r] = "idle" THEN None ELSE owed[r]]
  BY <1>1 DEF WriterSeen, From
<1>11. {s.batch : s \in accepted'} = {s.batch : s \in accepted}
  BY <1>2
<1> HIDE DEF b
<1>12. Ledger!TakeOver(b)
  BY <1>1, <1>3, <1>6, <1>8, <1>9, <1>10, <1>11 DEF Ledger!TakeOver, WriterSeen
<1> QED
  BY <1>3, <1>12

(* Every step of a writer.                                                 *)
LEMMA WriterKeepsLedger ==
  ASSUME Base, Base', Powered, Powered', losses = 0, losses' = 0, NEW w \in Writers, Write(w)
  PROVE  Ledger!Next \/ UNCHANGED Ledger!ledger
<1>0. TypeOK
  BY DEF Base
<1>1. ASSUME NEW b \in Batches, StartAppend(w, b) PROVE Ledger!Next
  BY <1>1, AsksLedger DEF Ledger!Next
<1>2. ASSUME FailAppend(w) \/ Reject(w) PROVE Ledger!Next
  <2>1. /\ pc[w] # "idle" /\ pc'[w] = "idle" /\ segments' = segments
        /\ accepted' = IF FALSE THEN accepted \cup {NewSegment(w)} ELSE accepted
    BY <1>0, <1>2, ReturnMoves DEF FailAppend, Reject, disk
  <2>2. Ledger!Return(w, FALSE)
    BY <2>1, ReturnsOfLedger
  <2> QED
    BY <2>2 DEF Ledger!Next
<1>3. ASSUME Accept(w) PROVE Ledger!Next
  <2>1. /\ pc[w] # "idle" /\ pc'[w] = "idle" /\ segments' = segments /\ pc[w] \in Committed
        /\ accepted' = IF TRUE THEN accepted \cup {NewSegment(w)} ELSE accepted
    BY <1>0, <1>3, ReturnMoves DEF Accept, disk, Committed, Durable
  <2>2. Ledger!Return(w, TRUE)
    BY <2>1, ReturnsOfLedger
  <2> QED
    BY <2>2 DEF Ledger!Next
<1>4. ASSUME CommitBatch(w) PROVE Ledger!Next
  BY <1>4, AddsToLedger DEF Ledger!Next
<1>5. ASSUME Import(w) PROVE Ledger!Next
  BY <1>5, TakesOver DEF Ledger!Next
<1>6. ASSUME NEW phase \in WriterPhases, Goto(w, phase), pc[w] # "idle", phase # "idle",
             pc[w] \in Committed <=> phase \in Committed,
             UNCHANGED <<segments, accepted, batch>>
      PROVE  UNCHANGED Ledger!ledger
  <2>1. pc'[w] = phase
    BY <1>0, <1>6, WriterMoves
  <2>2. Asked(w)' = Asked(w)
    BY <1>6, <2>1 DEF Asked
  <2> QED
    BY <1>6, <2>1, <2>2, WriterStutters
<1>7. ASSUME \/ AcquireLock(w) \/ Survey(w) \/ Recover(w) \/ Reconcile(w) \/ Refuse(w)
             \/ Restate(w) \/ ClaimNext(w) \/ SaveNewState(w)
      PROVE  UNCHANGED Ledger!ledger
  <2>1. UNCHANGED <<segments, accepted, batch>> /\ pc[w] # "idle"
    BY <1>7 DEF AcquireLock, Survey, Recover, Claim, Reconcile, Refuse, Restate, ClaimNext,
       SaveNewState, SaveState, disk, writer
  <2>2. \E phase \in WriterPhases :
          Goto(w, phase) /\ phase # "idle" /\ (pc[w] \in Committed <=> phase \in Committed)
    BY <1>7 DEF AcquireLock, Survey, Recover, Claim, Reconcile, Refuse, Restate, ClaimNext,
       SaveNewState, SaveState, Committed, Durable, WriterPhases
  <2> QED
    BY <2>1, <2>2, <1>6
<1>8. ASSUME \/ Flush(w, "segments", "flushImport", "recover")
             \/ Flush(w, "claims", "flushRecovered", "recover")
             \/ Flush(w, "state", "flushRestated", "check")
             \/ Flush(w, "segments", "flushSegment", "claim")
             \/ Flush(w, "claims", "flushClaim", "claim")
             \/ Flush(w, "state", "flushState", "saved")
      PROVE  UNCHANGED Ledger!ledger
  <2>1. UNCHANGED <<segments, accepted, batch>> /\ pc[w] # "idle"
    BY <1>8 DEF Flush, writer
  <2>2. \E phase \in WriterPhases :
          Goto(w, phase) /\ phase # "idle" /\ (pc[w] \in Committed <=> phase \in Committed)
    BY <1>8 DEF Flush, Committed, Durable, WriterPhases
  <2> QED
    BY <2>1, <2>2, <1>6
<1> QED
  BY <1>1, <1>2, <1>3, <1>4, <1>5, <1>7, <1>8 DEF Write, Holder

-----------------------------------------------------------------------------
(* What the ledger sees of a step of the reader r.                         *)
ReaderSeen(r) ==
  /\ \A q \in Readers : q # r => From(q)' = From(q) /\ view'[q] = view[q]
  /\ \A w \in Writers : Asked(w)' = Asked(w) /\ pc'[w] = pc[w]
  /\ Log' = Log /\ Legacy' = Legacy /\ accepted' = accepted

LEMMA ReaderIsSeen == ASSUME Base, NEW r \in Readers, Read(r) PROVE ReaderSeen(r)
<1>1. ReaderSteps(r)
  BY ReaderTakesStep
<1>2. Log' = Log /\ Legacy' = Legacy
  BY <1>1 DEF ReaderSteps, Log, Legacy
<1> QED
  BY <1>1, <1>2 DEF ReaderSteps, ReaderSeen, From, Asked

LEMMA ReadBegins ==
  ASSUME Base, InOrder(segments), NEW r \in Readers, StartRead(r)
  PROVE  Ledger!BeginRead(r)
<1>1. ReaderSeen(r) /\ TypeOK
  BY ReaderIsSeen DEF Read, Base
<1>2. /\ pc[r] = "idle" /\ pc'[r] = "listing" /\ owed'[r] = EventsOf(segments) \cup Legacy
      /\ view' = [view EXCEPT ![r] = None]
  BY <1>1, ReaderMoves DEF StartRead, ReaderPhases, TypeOK
<1>3. From(r) = None /\ From(r)' = Ledger!Held(Len(Log)) \cup Legacy
  BY <1>1, <1>2, HeldIs DEF From, Base
<1> DEFINE from  == [q \in Readers |-> IF pc[q] = "idle" THEN None ELSE owed[q]]
           from2 == [q \in Readers |-> IF pc'[q] = "idle" THEN None ELSE owed'[q]]
           all   == Ledger!Held(Len(Log)) \cup Legacy
<1>4. from2 = [from EXCEPT ![r] = all] /\ from[r] = None
  <2> HIDE DEF all
  <2> QED
    BY <1>1, <1>3 DEF ReaderSeen, From, all
<1>5. /\ [w \in Writers |-> IF pc'[w] = "idle" THEN None ELSE batch'[w]]
           = [w \in Writers |-> IF pc[w] = "idle" THEN None ELSE batch[w]]
      /\ {w \in Writers :
            pc'[w] \in {"flushSegment", "claim", "flushClaim", "flushState", "saved"}}
           = {w \in Writers :
                pc[w] \in {"flushSegment", "claim", "flushClaim", "flushState", "saved"}}
  BY <1>1 DEF ReaderSeen, Asked
<1>6. {s.batch : s \in accepted'} = {s.batch : s \in accepted} /\ Log' = Log /\ Legacy' = Legacy
  BY <1>1 DEF ReaderSeen
<1> QED
  BY <1>2, <1>4, <1>5, <1>6 DEF Ledger!BeginRead

(* The answer of a reader is None, what an older version wrote or a prefix *)
(* of the ledger; and it holds what it owed.                               *)
LEMMA ReadEnds ==
  ASSUME Base, InOrder(segments), NEW r \in Readers, Read(r), pc[r] # "idle", NEW found,
         Answer(r, found),
         found # None =>
           /\ owed[r] \subseteq found
           /\ found \in {Ledger!Held(n) : n \in 0 .. Len(Log)} \cup {Legacy}
  PROVE  Ledger!EndRead(r)
<1>1. ReaderSeen(r) /\ TypeOK
  BY ReaderIsSeen DEF Base
<1>2. pc'[r] = "idle" /\ view' = [view EXCEPT ![r] = found]
  BY <1>1, ReaderMoves DEF Answer, ReaderPhases
<1>3. owed[r] # None
  BY <1>1, EventStoreAssumption DEF TypeOK
<1> DEFINE from  == [q \in Readers |-> IF pc[q] = "idle" THEN None ELSE owed[q]]
           from2 == [q \in Readers |-> IF pc'[q] = "idle" THEN None ELSE owed'[q]]
<1>4. from2 = [from EXCEPT ![r] = None] /\ from[r] = owed[r] /\ from[r] # None
  BY <1>1, <1>2, <1>3 DEF ReaderSeen, From
<1>5. /\ [w \in Writers |-> IF pc'[w] = "idle" THEN None ELSE batch'[w]]
           = [w \in Writers |-> IF pc[w] = "idle" THEN None ELSE batch[w]]
      /\ {w \in Writers :
            pc'[w] \in {"flushSegment", "claim", "flushClaim", "flushState", "saved"}}
           = {w \in Writers :
                pc[w] \in {"flushSegment", "claim", "flushClaim", "flushState", "saved"}}
  BY <1>1 DEF ReaderSeen, Asked
<1>6. {s.batch : s \in accepted'} = {s.batch : s \in accepted} /\ Log' = Log /\ Legacy' = Legacy
  BY <1>1 DEF ReaderSeen
<1>7. \/ view' = [view EXCEPT ![r] = None]
      \/ \E S \in {Ledger!Held(n) : n \in 0 .. Len(Log)} \cup {Legacy} :
           from[r] \subseteq S /\ view' = [view EXCEPT ![r] = S]
  <2>1. CASE found = None
    BY <2>1, <1>2
  <2>2. CASE found # None
    <3> HIDE DEF from
    <3> QED
      BY <2>2, <1>2, <1>4
  <2> QED
    BY <2>1, <2>2
<1> QED
  BY <1>4, <1>5, <1>6, <1>7 DEF Ledger!EndRead

LEMMA ReaderKeepsLedger ==
  ASSUME Base, Powered, losses = 0, NEW r \in Readers, Read(r)
  PROVE  Ledger!Next \/ UNCHANGED Ledger!ledger
<1>0. TypeOK /\ IsFiniteSet(segments) /\ InOrder(segments) /\ ReadersHold
  BY DEF Base, Powered
<1>1. CASE StartRead(r)
  BY <1>0, <1>1, ReadBegins DEF Ledger!Next
<1>2. CASE ReadLegacy(r)
  <2>1. owed[r] \subseteq Legacy
    BY <1>0, <1>2 DEF ReadLegacy, ReadersHold, EventsOf
  <2>2. Ledger!EndRead(r)
    BY <1>0, <1>2, <2>1, ReadEnds DEF ReadLegacy
  <2> QED
    BY <2>2 DEF Ledger!Next
<1>3. CASE ReadSegments(r)
  <2> DEFINE ok    == Readable(listed[r], loaded[r], legacy)
             found == IF ok THEN EventsOf(listed[r]) ELSE None
  <2>1. ASSUME ok PROVE owed[r] \subseteq EventsOf(listed[r])
    <3>1. owed[r] \subseteq EventsOf(listed[r]) \cup Legacy
      BY <1>0, <1>3 DEF ReadSegments, ReadersHold
    <3>2. Legacy \subseteq EventsOf(listed[r])
      BY <2>1 DEF Readable, ImportOf, Legacy, EventsOf
    <3> QED
      BY <3>1, <3>2
  <2>2. ASSUME ok PROVE EventsOf(listed[r]) \in {Ledger!Held(n) : n \in 0 .. Len(Log)}
    <3> DEFINE R == listed[r]
               m == Cardinality(R)
    <3>1. R \in SUBSET segments /\ Contiguous(R)
      BY <1>0, <2>2 DEF ReadersHold, Readable, InOrder
    <3>2. segments \in SUBSET Segment /\ Contiguous(segments)
      BY <1>0 DEF TypeOK, InOrder
    <3>3. m \in 0 .. Len(LogOf(segments))
          /\ UNION {LogOf(segments)[i] : i \in 1 .. m} = EventsOf(R)
      <4> HIDE DEF R
      <4> QED
        BY <1>0, <3>1, <3>2, HeldOfSegments
    <3>4. Ledger!Held(m) = EventsOf(R) /\ m \in 0 .. Len(Log)
      BY <3>3, LogIs DEF Ledger!Held
    <3> QED
      BY <3>4
  <2>3. /\ pc[r] # "idle" /\ Answer(r, found)
        /\ found # None => /\ owed[r] \subseteq found
                           /\ found \in {Ledger!Held(n) : n \in 0 .. Len(Log)} \cup {Legacy}
    <3> HIDE DEF ok
    <3>1. pc[r] # "idle" /\ Answer(r, found)
      BY <1>3 DEF ReadSegments, ok
    <3> QED
      BY <2>1, <2>2, <3>1
  <2> HIDE DEF found
  <2>4. Ledger!EndRead(r)
    BY <1>0, <2>3, ReadEnds
  <2> QED
    BY <2>4 DEF Ledger!Next
<1>4. CASE FailRead(r)
  <2>1. Ledger!EndRead(r)
    BY <1>0, <1>4, ReadEnds DEF FailRead
  <2> QED
    BY <2>1 DEF Ledger!Next
<1>5. CASE List(r) \/ ReadState(r)
  <2>1. ReaderSteps(r) /\ view' = view /\ owed' = owed /\ pc[r] # "idle"
    BY <1>5, ReaderTakesStep DEF List, ReadState, reader
  <2>2. pc'[r] # "idle"
    <3>1. \E phase \in ReaderPhases : phase # "idle" /\ Goto(r, phase)
      BY <1>5 DEF List, ReadState, ReaderPhases
    <3> QED
      BY <3>1, <1>0, ReaderMoves
  <2> QED
    BY <2>1, <2>2, LedgerStutters DEF ReaderSteps, Asked, From
<1> QED
  BY <1>1, <1>2, <1>3, <1>4, <1>5 DEF Read

LEMMA OldAppendKeepsLedger ==
  ASSUME Base, NEW e \in Events, OldAppend(e) PROVE Ledger!Next
<1>1. Legacy \cup {e} # None /\ e \notin Legacy
  BY EventStoreAssumption DEF Base, TypeOK, Legacy, Batch, OldAppend
<1>2. /\ Legacy' = Legacy \cup {e}
      /\ UNCHANGED <<segments, pc, batch, accepted, owed, view>>
  BY <1>1 DEF OldAppend, Legacy, writer, reader
<1>3. Log' = Log
  BY <1>2 DEF Log
<1>4. Ledger!WriteBeside(e)
  BY <1>1, <1>2, <1>3 DEF Ledger!WriteBeside
<1> QED
  BY <1>4 DEF Ledger!Next

(* The segments are the ledger that EventLedger promises: the batches in   *)
(* them, a recovery, a claim, a summary and the removal of what a killed   *)
(* writer left changes nothing of it; a batch is added whole and once, by  *)
(* the link that makes its segment, and before nil is returned for it; and *)
(* a reader, which takes no lock, returns the ledger of one moment.  Power *)
(* may take away what was added and not yet answered for, so it is on.     *)
THEOREM StoreIsLedger ==
  ASSUME MaxPowerLosses = 0
  PROVE  Spec => LedgerSpec
<1>1. Init => Ledger!Init
  BY InitLedger
<1>2. ASSUME IInv, IInv', [Next]_vars PROVE [Ledger!Next]_(Ledger!ledger)
  <2>1. Base /\ Base' /\ Powered /\ Powered' /\ losses = 0 /\ losses' = 0
    BY <1>2 DEF IInv, Base, TypeOK
  <2>2. CASE UNCHANGED vars
    BY <2>2, LedgerStutters DEF vars, disk, writer, reader, Asked, From
  <2>3. ASSUME NEW w \in Writers, Write(w) PROVE Ledger!Next \/ UNCHANGED Ledger!ledger
    BY <2>1, <2>3, WriterKeepsLedger
  <2>4. ASSUME NEW r \in Readers, Read(r) PROVE Ledger!Next \/ UNCHANGED Ledger!ledger
    BY <2>1, <2>4, ReaderKeepsLedger
  <2>5. ASSUME NEW e \in Events, OldAppend(e) PROVE Ledger!Next
    BY <2>1, <2>5, OldAppendKeepsLedger
  <2>6. ~LosePower
    BY <2>1 DEF LosePower
  <2> QED
    BY <1>2, <2>2, <2>3, <2>4, <2>5, <2>6 DEF Next
<1> QED
  BY <1>1, <1>2, StoreInvariant, PTL DEF Spec, LedgerSpec, Ledger!Spec
=============================================================================
