----------------------------- MODULE EventStore -----------------------------
(***************************************************************************)
(* .git/beforedone/events: the normalized events of one repository.        *)
(*                                                                         *)
(* A batch becomes one immutable segment file, its number, size and digest *)
(* in its name; every event id then gets a claim file, and state.json a    *)
(* summary.  Writers hold the file lock, and begin by reconciling what a   *)
(* writer that was killed left behind.  Readers take no lock.  events.jsonl*)
(* of an older version is imported as segment 1 and stays.                 *)
(*                                                                         *)
(* A batch is a set of event ids, numbered in the order of its lines; an   *)
(* event is of size 1, so that sizes and counts of events coincide; equal  *)
(* digests are equal batches.  A file is written under a temporary name,   *)
(* which every listing skips and the next lock holder removes, and so      *)
(* appears whole, by one step; the flush of its directory is a second one. *)
(***************************************************************************)
EXTENDS Integers, Sequences, FiniteSets

CONSTANTS
  Events,         \* event ids
  Batches,        \* batches callers append
  Legacies,       \* what events.jsonl may be to begin with: None or a batch
  Writers,        \* processes that append
  Readers,        \* processes that read
  Limit,          \* maxEventLedgerBytes
  MaxOldWrites,   \* bound on appends of an older version to events.jsonl
  MaxPowerLosses, \* bound on losses of power
  None            \* no value

(* What one file of events may hold.                                       *)
Batch == {b \in SUBSET Events : Cardinality(b) <= Limit}

Segment == [seq: Nat \ {0}, batch: Batch]

Summary == [last: Nat, size: Nat, legacy: {None} \cup Batch]

ASSUME EventStoreAssumption ==
  /\ Events \subseteq Nat
  /\ IsFiniteSet(Events)
  /\ Batches \subseteq (SUBSET Events) \ {{}}
  /\ Legacies \subseteq {None} \cup Batch
  /\ Writers \cap Readers = {}
  /\ {Limit, MaxOldWrites, MaxPowerLosses} \subseteq Nat
  /\ \A b \in SUBSET Events : b # None
  /\ None \notin Summary
  /\ None \notin Writers

VARIABLES
  segments,   \* the segment files
  claims,     \* claims[e] is the segment that event e is claimed for, or 0
  state,      \* state.json
  legacy,     \* events.jsonl
  unflushed,  \* segments and claims since whose creation their directory was
              \* not flushed, and what state.json was before the last flush
  lock,       \* the holder of events.lock
  pc,         \* phase of each process
  batch,      \* what a writer appends
  loaded,     \* state.json as a writer or a reader loaded it
  imported,   \* events.jsonl as a writer read it
  known,      \* the reconciled summary of a writer
  listed,     \* the segments a reader listed
  view,       \* what the last read returned
  accepted,   \* history: segments whose append returned nil
  owed,       \* history: the events there were when a read began
  oldWrites,  \* number of appends by an older version
  losses      \* number of losses of power

disk   == <<segments, claims, state, legacy, unflushed>>
writer == <<batch, loaded, imported, known>>
reader == <<listed, view, owed>>
counts == <<oldWrites, losses>>
vars   == <<disk, lock, pc, writer, reader, accepted, counts>>

Procs == Writers \cup Readers

(* What is read of the segments S.                                         *)
EventsOf(S) == UNION {s.batch : s \in S}

Size(S) == Cardinality(EventsOf(S))

(* The segments are numbered 1, 2, 3, ... without a gap.                   *)
Contiguous(S) == {s.seq : s \in S} = 1 .. Cardinality(S)

(* No event is in two segments.                                            *)
Disjoint(S) == \A s, t \in S : s # t => s.batch \cap t.batch = {}

(* Segment 1 is what l was imported as.                                    *)
ImportOf(S, l) == [seq |-> 1, batch |-> l] \in S

Flushed == [segments |-> {}, claims |-> {}, state |-> {}]

(* The events in events.jsonl.                                             *)
Legacy == IF legacy = None THEN {} ELSE legacy

NoSummary == [last |-> 0, size |-> 0, legacy |-> None]

Init ==
  /\ segments = {}
  /\ claims = [e \in Events |-> 0]
  /\ state = None
  /\ legacy \in Legacies
  /\ unflushed = Flushed
  /\ lock = None
  /\ pc = [p \in Procs |-> "idle"]
  /\ batch = [w \in Writers |-> {}]
  /\ loaded = [p \in Procs |-> None]
  /\ imported = [w \in Writers |-> None]
  /\ known = [w \in Writers |-> NoSummary]
  /\ listed = [r \in Readers |-> {}]
  /\ view = [r \in Readers |-> None]
  /\ accepted = {}
  /\ owed = [r \in Readers |-> {}]
  /\ oldWrites = 0
  /\ losses = 0

-----------------------------------------------------------------------------
(* appendEventBatch: the lock                                              *)

Goto(p, phase) == pc' = [pc EXCEPT ![p] = phase]

(* A writer returns, and what it knew is gone.                             *)
Return(w) ==
  /\ Goto(w, "idle")
  /\ batch' = [batch EXCEPT ![w] = {}]
  /\ loaded' = [loaded EXCEPT ![w] = None]
  /\ imported' = [imported EXCEPT ![w] = None]
  /\ known' = [known EXCEPT ![w] = NoSummary]

(* A batch larger than the ledger may be is refused before anything else.  *)
StartAppend(w, b) ==
  /\ pc[w] = "idle"
  /\ Cardinality(b) <= Limit
  /\ batch' = [batch EXCEPT ![w] = b]
  /\ Goto(w, "waiting")
  /\ UNCHANGED <<disk, lock, loaded, imported, known, reader, accepted, counts>>

(* Fault: a lock that is held is taken over.                               *)
StealLock(w) ==
  /\ pc[w] = "waiting"
  /\ lock' = w
  /\ Goto(w, "survey")
  /\ UNCHANGED <<disk, writer, reader, accepted, counts>>

AcquireLock(w) ==
  /\ pc[w] = "waiting"
  /\ lock = None
  /\ lock' = w
  /\ Goto(w, "survey")
  /\ UNCHANGED <<disk, writer, reader, accepted, counts>>

(* An append returns an error and its files stay as they are: the lock was *)
(* not to be had in time, a file could not be read, written or flushed, or *)
(* the process was killed, which releases the lock as well.                *)
FailAppend(w) ==
  /\ pc[w] # "idle"
  /\ lock' = IF lock = w THEN None ELSE lock
  /\ Return(w)
  /\ UNCHANGED <<disk, reader, accepted, counts>>

-----------------------------------------------------------------------------
(* reconcileEventStore                                                     *)

(* Fault: events.jsonl is not imported.                                    *)
SurveyOnly(w) ==
  /\ pc[w] = "survey"
  /\ unflushed' = [unflushed EXCEPT !.state = {}]
  /\ loaded' = [loaded EXCEPT ![w] = state]
  /\ imported' = [imported EXCEPT ![w] = legacy]
  /\ Goto(w, "recover")
  /\ UNCHANGED <<segments, claims, state, legacy, lock, batch, known, reader,
                 accepted, counts>>

(* state.json, the list of segments and events.jsonl are read, once        *)
(* ensureEventStoreDirs has flushed the directory that state.json is in.   *)
Survey(w) ==
  /\ pc[w] = "survey"
  /\ unflushed' = [unflushed EXCEPT !.state = {}]
  /\ loaded' = [loaded EXCEPT ![w] = state]
  /\ imported' = [imported EXCEPT ![w] = legacy]
  /\ Goto(w, IF segments = {} /\ legacy \notin {None, {}} THEN "import" ELSE "recover")
  /\ UNCHANGED <<segments, claims, state, legacy, lock, batch, known, reader, accepted, counts>>

(* commitEventSegment: the name is linked in, unless it exists.            *)
Commit(w, segment, phase) ==
  /\ segment \notin segments
  /\ segments' = segments \cup {segment}
  /\ unflushed' = [unflushed EXCEPT !.segments = @ \cup {segment}]
  /\ Goto(w, phase)
  /\ UNCHANGED <<claims, state, legacy, lock, writer, reader, accepted, counts>>

(* Fault: the directory is not flushed.                                    *)
SkipFlush(w, dir, from, phase) ==
  /\ pc[w] = from
  /\ Goto(w, phase)
  /\ UNCHANGED <<disk, lock, writer, reader, accepted, counts>>

(* syncRoot of the directory of the segments, of the claims or of          *)
(* state.json, as it is on Unix: on Windows it may do nothing              *)
(* (event_file_lock_windows.go:31).                                        *)
Flush(w, dir, from, phase) ==
  /\ pc[w] = from
  /\ unflushed' = [unflushed EXCEPT ![dir] = {}]
  /\ Goto(w, phase)
  /\ UNCHANGED <<segments, claims, state, legacy, lock, writer, reader,
                 accepted, counts>>

Import(w) ==
  /\ pc[w] = "import"
  /\ Commit(w, [seq |-> 1, batch |-> imported[w]], "flushImport")

(* ensureEventIDClaim: event e is claimed for segment s.                   *)
Claim(w, s, e, phase) ==
  /\ claims[e] = 0
  /\ claims' = [claims EXCEPT ![e] = s.seq]
  /\ unflushed' = [unflushed EXCEPT !.claims = @ \cup {e}]
  /\ Goto(w, phase)
  /\ UNCHANGED <<segments, state, legacy, lock, writer, reader, accepted, counts>>

(* Fault: where there is no state.json, nothing is recovered.              *)
NewerThanKnownState(w) ==
  {s \in segments : IF loaded[w] = None THEN FALSE ELSE s.seq > loaded[w].last}

(* Segments newer than the state.json that was loaded have their claims    *)
(* made good.                                                              *)
NewerThanState(w) ==
  {s \in segments : IF loaded[w] = None THEN TRUE ELSE s.seq > loaded[w].last}

(* What becomes of events.jsonl in the summary: it must be what it was, or *)
(* what segment 1 holds.                                                   *)
LegacyProven(w) ==
  LET recorded == IF loaded[w] = None THEN None ELSE loaded[w].legacy IN
    \/ imported[w] \in {None, recorded}
    \/ recorded = None /\ (segments = {} \/ ImportOf(segments, imported[w]))

InOrder(S) == Contiguous(S) /\ Disjoint(S) /\ Size(S) <= Limit

ClaimedFor(S) == \A s \in S : \A e \in s.batch : claims[e] = s.seq

Before(s) == {t \in segments : t.seq < s.seq}

(* Where the loop over the segments and their events comes to a claim that *)
(* is missing, having found nothing to object to so far.                   *)
Missing(w) ==
  {p \in NewerThanState(w) \X Events :
     LET s == p[1]
         e == p[2] IN
       /\ e \in s.batch
       /\ claims[e] = 0
       /\ InOrder(Before(s) \cup {s})
       /\ ClaimedFor(Before(s))
       /\ \A d \in s.batch : d < e => claims[d] = s.seq}

Recover(w) ==
  /\ pc[w] = "recover"
  /\ LegacyProven(w)
  /\ \E p \in Missing(w) : Claim(w, p[1], p[2], "flushRecovered")

Claimed == {e \in Events : claims[e] # 0}

(* events.jsonl, the segments and the claims belong together.              *)
Sound(w) ==
  /\ LegacyProven(w)
  /\ InOrder(segments)
  /\ ClaimedFor(segments)
  /\ Cardinality(Claimed) = Size(segments)

(* The store is sound: the writer has a summary of it that it can trust.   *)
Reconcile(w) ==
  /\ pc[w] = "recover"
  /\ Sound(w)
  /\ known' = [known EXCEPT ![w] = [last |-> Cardinality(segments),
                                    size |-> Size(segments),
                                    legacy |-> imported[w]]]
  /\ Goto(w, IF loaded[w] = known'[w] THEN "check" ELSE "restate")
  /\ UNCHANGED <<disk, lock, batch, loaded, imported, reader, accepted, counts>>

(* It is not: this append, like every later one, is refused.               *)
Refuse(w) ==
  /\ pc[w] = "recover"
  /\ ~Sound(w)
  /\ LegacyProven(w) => Missing(w) = {}
  /\ lock' = None
  /\ Goto(w, "refused")
  /\ UNCHANGED <<disk, writer, reader, accepted, counts>>

(* saveEventStoreState: state.json is replaced.                            *)
SaveState(w, summary, phase) ==
  /\ state' = summary
  /\ unflushed' = [unflushed EXCEPT !.state = @ \cup {state}]
  /\ Goto(w, phase)
  /\ UNCHANGED <<segments, claims, legacy, lock, writer, reader, accepted, counts>>

Restate(w) == pc[w] = "restate" /\ SaveState(w, known[w], "flushRestated")

-----------------------------------------------------------------------------
(* appendEventBatch: the batch                                             *)

(* Fault: the lock is kept when a batch is rejected.                       *)
RejectLocked(w) ==
  /\ pc[w] = "check"
  /\ \/ known[w].size + Cardinality(batch[w]) > Limit
     \/ \E e \in batch[w] : claims[e] # 0
  /\ Return(w)
  /\ UNCHANGED <<disk, lock, reader, accepted, counts>>

(* The batch would not fit, or one of its events has a claim.              *)
Reject(w) ==
  /\ pc[w] = "check"
  /\ \/ known[w].size + Cardinality(batch[w]) > Limit
     \/ \E e \in batch[w] : claims[e] # 0
  /\ lock' = None
  /\ Return(w)
  /\ UNCHANGED <<disk, reader, accepted, counts>>

(* Fault: the number of the last segment is taken again.                   *)
LastSegment(w) == [seq |-> known[w].last, batch |-> batch[w]]

NewSegment(w) == [seq |-> known[w].last + 1, batch |-> batch[w]]

(* Fault: claims are not looked at.                                        *)
CommitUnchecked(w) ==
  /\ pc[w] = "check"
  /\ known[w].size + Cardinality(batch[w]) <= Limit
  /\ Commit(w, NewSegment(w), "flushSegment")

CommitBatch(w) ==
  /\ pc[w] = "check"
  /\ known[w].size + Cardinality(batch[w]) <= Limit
  /\ \A e \in batch[w] : claims[e] = 0
  /\ Commit(w, NewSegment(w), "flushSegment")

ClaimNext(w) ==
  /\ pc[w] = "claim"
  /\ \E e \in batch[w] :
       /\ \A d \in batch[w] : claims[d] = 0 => e <= d
       /\ Claim(w, NewSegment(w), e, "flushClaim")

(* Every event is claimed: the new summary is saved.                       *)
SaveNewState(w) ==
  /\ pc[w] = "claim"
  /\ \A e \in batch[w] : claims[e] # 0
  /\ SaveState(w, [last |-> known[w].last + 1,
                   size |-> known[w].size + Cardinality(batch[w]),
                   legacy |-> known[w].legacy], "flushState")

(* nil is returned and the lock released.                                  *)
Accept(w) ==
  /\ pc[w] = "saved"
  /\ accepted' = accepted \cup {NewSegment(w)}
  /\ lock' = None
  /\ Return(w)
  /\ UNCHANGED <<disk, reader, counts>>

-----------------------------------------------------------------------------
(* readEventStore                                                          *)

StartRead(r) ==
  /\ pc[r] = "idle"
  /\ unflushed' = [unflushed EXCEPT !.state = {}]
  /\ listed' = [listed EXCEPT ![r] = segments]
  /\ view' = [view EXCEPT ![r] = None]
  /\ owed' = [owed EXCEPT ![r] =
       EventsOf(segments) \cup Legacy]
  /\ Goto(r, "listing")
  /\ UNCHANGED <<segments, claims, state, legacy, lock, writer, accepted, counts>>

(* A reader returns the events it found, or None for an error.             *)
Answer(r, found) ==
  /\ view' = [view EXCEPT ![r] = found]
  /\ listed' = [listed EXCEPT ![r] = {}]
  /\ owed' = [owed EXCEPT ![r] = {}]
  /\ loaded' = [loaded EXCEPT ![r] = None]
  /\ Goto(r, "idle")
  /\ UNCHANGED <<disk, lock, batch, imported, known, accepted, counts>>

(* Something cannot be read, or the process is killed.                     *)
FailRead(r) ==
  /\ pc[r] # "idle"
  /\ Answer(r, None)

(* ReadDir returns the entries there were when it began, and any of those  *)
(* that were added meanwhile.                                              *)
List(r) ==
  /\ pc[r] = "listing"
  /\ \E S \in SUBSET (segments \ listed[r]) :
       /\ listed' = [listed EXCEPT ![r] = @ \cup S]
       /\ Goto(r, IF listed[r] \cup S = {} THEN "legacy" ELSE "state")
  /\ UNCHANGED <<disk, lock, writer, view, owed, accepted, counts>>

(* There was no segment.                                                   *)
ReadLegacy(r) ==
  /\ pc[r] = "legacy"
  /\ Answer(r, Legacy)

ReadState(r) ==
  /\ pc[r] = "state"
  /\ loaded' = [loaded EXCEPT ![r] = state]
  /\ Goto(r, "segments")
  /\ UNCHANGED <<disk, lock, batch, imported, known, reader, accepted, counts>>

(* Fault: events.jsonl is not compared with segment 1.                     *)
ReadableSegments(S, summary, l) == InOrder(S)

(* What a reader demands of the segments S, the summary and events.jsonl.  *)
Readable(S, summary, l) ==
  /\ l # None => ImportOf(S, l)
  /\ l # None => summary # None /\ summary.legacy \in {None, l}
  /\ InOrder(S)

(* events.jsonl is read and then the segments, which never change.         *)
ReadSegments(r) ==
  /\ pc[r] = "segments"
  /\ Answer(r, IF Readable(listed[r], loaded[r], legacy)
               THEN EventsOf(listed[r]) ELSE None)

-----------------------------------------------------------------------------
(* The environment                                                         *)

(* A BeforeDone from before the event store appends to events.jsonl.       *)
OldAppend(e) ==
  /\ oldWrites < MaxOldWrites
  /\ e \notin Legacy
  /\ Cardinality(Legacy \cup {e}) <= Limit
  /\ legacy' = Legacy \cup {e}
  /\ oldWrites' = oldWrites + 1
  /\ UNCHANGED <<segments, claims, state, unflushed, lock, pc, writer, reader,
                 accepted, losses>>

(* Power is lost: every process ends, and of what was not flushed any part *)
(* may be gone.                                                            *)
LosePower ==
  /\ losses < MaxPowerLosses
  /\ \E S \in SUBSET unflushed.segments : segments' = segments \ S
  /\ \E C \in SUBSET unflushed.claims :
       claims' = [e \in Events |-> IF e \in C THEN 0 ELSE claims[e]]
  /\ \E summary \in unflushed.state \cup {state} : state' = summary
  /\ unflushed' = Flushed
  /\ lock' = None
  /\ pc' = [p \in Procs |-> "idle"]
  /\ batch' = [w \in Writers |-> {}]
  /\ loaded' = [p \in Procs |-> None]
  /\ imported' = [w \in Writers |-> None]
  /\ known' = [w \in Writers |-> NoSummary]
  /\ listed' = [r \in Readers |-> {}]
  /\ owed' = [r \in Readers |-> {}]
  /\ losses' = losses + 1
  /\ UNCHANGED <<legacy, view, accepted, oldWrites>>

-----------------------------------------------------------------------------
(* A writer that has the lock.                                             *)
Holder(w) ==
  \/ Survey(w)
  \/ Import(w)
  \/ Flush(w, "segments", "flushImport", "recover")
  \/ Recover(w)
  \/ Flush(w, "claims", "flushRecovered", "recover")
  \/ Reconcile(w)
  \/ Refuse(w)
  \/ Restate(w)
  \/ Flush(w, "state", "flushRestated", "check")
  \/ Reject(w)
  \/ CommitBatch(w)
  \/ Flush(w, "segments", "flushSegment", "claim")
  \/ ClaimNext(w)
  \/ Flush(w, "claims", "flushClaim", "claim")
  \/ SaveNewState(w)
  \/ Flush(w, "state", "flushState", "saved")
  \/ Accept(w)

Write(w) ==
  \/ \E b \in Batches : StartAppend(w, b)
  \/ AcquireLock(w)
  \/ Holder(w)
  \/ FailAppend(w)

Read(r) ==
  \/ StartRead(r)
  \/ List(r)
  \/ ReadLegacy(r)
  \/ ReadState(r)
  \/ ReadSegments(r)
  \/ FailRead(r)

Next ==
  \/ \E w \in Writers : Write(w)
  \/ \E r \in Readers : Read(r)
  \/ \E e \in Events : OldAppend(e)
  \/ LosePower

Spec == Init /\ [][Next]_vars

(* The process that has the lock is given the processor.                   *)
FairSpec == Spec /\ \A w \in Writers : WF_vars(Holder(w))

-----------------------------------------------------------------------------
WriterPhases ==
  {"idle", "waiting", "survey", "import", "flushImport", "recover",
   "flushRecovered", "refused", "restate", "flushRestated", "check",
   "flushSegment", "claim", "flushClaim", "flushState", "saved"}

ReaderPhases == {"idle", "listing", "legacy", "state", "segments"}

(* Every variable has the values the program can give it.                  *)
TypeOK ==
  /\ segments \subseteq Segment
  /\ claims \in [Events -> Nat]
  /\ state \in Summary \cup {None}
  /\ legacy \in {None} \cup Batch
  /\ unflushed \in [segments : SUBSET segments, claims : SUBSET Events,
                   state : SUBSET (Summary \cup {None})]
  /\ lock \in Writers \cup {None}
  /\ pc \in [Procs -> WriterPhases \cup ReaderPhases]
  /\ \A w \in Writers : pc[w] \in WriterPhases
  /\ \A r \in Readers : pc[r] \in ReaderPhases
  /\ batch \in [Writers -> Batches \cup {{}}]
  /\ loaded \in [Procs -> Summary \cup {None}]
  /\ imported \in [Writers -> {None} \cup Batch]
  /\ known \in [Writers -> Summary]
  /\ listed \in [Readers -> SUBSET Segment]
  /\ view \in [Readers -> {None} \cup Batch]
  /\ accepted \subseteq Segment
  /\ owed \in [Readers -> SUBSET Events]
  /\ oldWrites \in 0 .. MaxOldWrites
  /\ losses \in 0 .. MaxPowerLosses

(* Whatever writers are killed at whatever step, and whoever retries an    *)
(* append that failed, segments are numbered without a gap, no event is    *)
(* recorded twice and the ledger is not larger than readers accept, as     *)
(* long as the power stays on.                                             *)
LedgerIntact == losses = 0 => InOrder(segments)

(* An append that returned nil is not undone, by a loss of power either:   *)
(* SECURITY.md:121, of Unix.                                               *)
AcceptedKept == accepted \subseteq segments

(* An accepted batch can be read, unless an older version went on writing  *)
(* or the power failed (codex.go:25: "an accepted event can never poison   *)
(* the ledger for later incident reads").                                  *)
AcceptedReadable ==
  accepted # {} /\ oldWrites = 0 /\ losses = 0 => Readable(segments, state, legacy)

(* A writer killed at any step leaves a store that the next append         *)
(* recovers, unless an older version went on writing or the power failed.  *)
NeverRefused ==
  oldWrites = 0 /\ losses = 0 => \A w \in Writers : pc[w] # "refused"

(* SECURITY.md:117: "A crash after segment creation is recovered before    *)
(* the next append".                                                       *)
CrashRecovered == oldWrites = 0 => \A w \in Writers : pc[w] # "refused"

(* A read that succeeds leaves out nothing that had been recorded, by this *)
(* version or by an older one, before it began (event_store.go:136-141).   *)
NothingOmitted ==
  [][\A r \in Readers :
       view'[r] # None /\ view[r] = None => owed[r] \subseteq view'[r]]_vars

(* No append keeps the lock for ever.                                      *)
LockIsFreed == \A w \in Writers : lock = w ~> lock # w

(* The batches in the segments, in order.                                  *)
Log ==
  [i \in 1 .. Cardinality(segments) |-> (CHOOSE s \in segments : s.seq = i).batch]

(* The segments are the ledger that EventLedger promises: a recovery, a    *)
(* claim or a summary changes nothing of it.                               *)
Ledger == INSTANCE EventLedger WITH
  Initials <- {IF l = None THEN {} ELSE l : l \in Legacies},
  log   <- Log,
  old   <- Legacy,
  asked <- [w \in Writers |-> IF pc[w] = "idle" THEN None ELSE batch[w]],
  added <- {w \in Writers :
              pc[w] \in {"flushSegment", "claim", "flushClaim", "flushState", "saved"}},
  acked <- {s.batch : s \in accepted},
  from  <- [r \in Readers |-> IF pc[r] = "idle" THEN None ELSE owed[r]],
  view  <- view

LedgerSpec == Ledger!Spec
=============================================================================
